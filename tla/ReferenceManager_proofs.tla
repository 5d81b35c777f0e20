----------------------- MODULE ReferenceManager_proofs -----------------------
(***************************************************************************)
(* For every gait, horizon, step of the MPC clock and time of a restart:   *)
(* what the reference manager keeps and publishes is a schedule the solver *)
(* can use, as far ahead as it looks, without swings cut short, and it     *)
(* takes back nothing it has published.                                    *)
(***************************************************************************)
EXTENDS ReferenceManager, GaitSchedule_proofs

(* The schedule is extended in every iteration, so that nothing throws and *)
(* the next event is always one of the schedule's.                         *)
ManagerInv ==
  /\ initTime \in Nat \cup {-1}
  /\ schedule \in Schedules /\ WellFormed(schedule) /\ template \in Templates
  /\ \/ published = NothingPublished /\ initTime = -1
     \/ published \in Schedules /\ WellFormed(published)
  /\ ~threw
  /\ HorizonCovered

-----------------------------------------------------------------------------
LEMMA NextEvent ==
  ASSUME NEW s \in Schedules, WellFormed(s), NEW t \in Int, Back(s.events) >= t
  PROVE  /\ LowerBound(s.events, t) \in 1..Len(s.events)
         /\ InsertTimer(s, t) \in Int /\ InsertTimer(s, t) >= t
<1> DEFINE j == LowerBound(s.events, t)
           N == Len(s.events)
<1>1. /\ s.events \in Seq(Int) /\ N \in Nat \ {0} /\ Back(s.events) = s.events[N]
      /\ \A i \in 1..N : s.events[i] \in Int
  BY ScheduleIs
<1>2. /\ j \in 1..(N + 1) /\ \A k \in 1..(j - 1) : s.events[k] < t
      /\ j <= N => s.events[j] >= t
  BY <1>1, LowerBoundIs
<1> HIDE DEF j, N
<1>3. N \in 1..N /\ ~(s.events[N] < t)
  BY <1>1
<1>4. j \in 1..N
  BY <1>1, <1>2, <1>3
<1>5. s.events[j] \in Int /\ s.events[j] >= t
  BY <1>1, <1>2, <1>4
<1> QED BY <1>4, <1>5 DEF InsertTimer, j, N

(* What an iteration decides on the schedule it has published.             *)
Kept ==
  /\ schedule' = published' /\ insertTime' = -1 /\ UNCHANGED <<template, threw, cutSwing>>
  /\ \/ UNCHANGED <<gaitLevel, levelSince>>
     \/ gaitLevel' = 3 /\ levelSince' \in {levelSince, initTime'}

InsertedAt(tpl, start) ==
  /\ schedule' = InsertTemplate(published', tpl, start, initTime' + Horizon)
  /\ threw' = InsertThrows(published', tpl, start)
  /\ template' = tpl /\ insertTime' = start
  /\ levelSince' = initTime'
  /\ \/ tpl = TrotTemplate /\ gaitLevel' = 1
     \/ tpl = StanceTemplate /\ gaitLevel' = 0 /\ start = InsertTimer(published', initTime')
  /\ \/ start = InsertTimer(published', initTime') /\ UNCHANGED cutSwing
     \/ /\ start = initTime' + TrotOffset
        /\ cutSwing' = (cutSwing \/ ModeAt(published', start) # STANCE)

LEMMA Iteration ==
  ASSUME ManagerInv, ModifyReferences
  PROVE  /\ initTime' \in Nat /\ initTime' > initTime
         /\ published' = Extend(schedule, template, initTime' - Horizon, initTime' + 2 * Horizon)
         /\ published' \in Schedules /\ WellFormed(published')
         /\ Back(published'.events) >= initTime' + 2 * Horizon
         /\ \/ Kept
            \/ \E tpl \in {StanceTemplate, TrotTemplate}, start \in Nat :
                 InsertedAt(tpl, start) /\ start >= initTime'
<1> USE DEF ManagerInv
<1>1. PICK v \in Speeds,
           t \in IF initTime = -1 THEN FirstTimes ELSE {initTime + dt : dt \in MpcSteps} :
        LET lower == t - Horizon
            s     == Extend(schedule, template, lower, t + 2 * Horizon)
            h     == PushSample(velAbsHistory, v)
        IN /\ initTime' = t
           /\ IF ExtendThrows(schedule, template, lower)
                THEN /\ threw' = TRUE
                     /\ UNCHANGED <<schedule, template, published, gaitLevel,
                                    velAbsHistory, insertTime, levelSince, cutSwing>>
                ELSE /\ published' = s
                     /\ velAbsHistory' = h
                     /\ IF gaitType = 0 THEN WalkGait(s, h, t) ELSE TrotGait(s, t)
  BY DEF ModifyReferences
<1>2. t \in Nat /\ t > initTime
  BY <1>1, ManagerAssumption
<1> DEFINE s == Extend(schedule, template, t - Horizon, t + 2 * Horizon)
           h == PushSample(velAbsHistory, v)
<1>3. t - Horizon \in Int /\ t + 2 * Horizon \in Int /\ Horizon \in Nat /\ TrotOffset \in Nat
  BY <1>2, ManagerAssumption
<1>4. /\ ~ExtendThrows(schedule, template, t - Horizon)
      /\ s \in Schedules /\ WellFormed(s) /\ Back(s.events) >= t + 2 * Horizon
  BY <1>3, ExtendIs
<1>5. /\ initTime' = t /\ published' = s
      /\ IF gaitType = 0 THEN WalkGait(s, h, t) ELSE TrotGait(s, t)
  BY <1>1, <1>4
<1> HIDE DEF s, h
<1>6. Back(s.events) \in Int /\ Back(s.events) >= t
  <2>1. Back(s.events) \in Int
    BY <1>4, ScheduleIs
  <2> QED BY <1>2, <1>3, <1>4, <2>1
<1>7. InsertTimer(s, t) \in Nat /\ InsertTimer(s, t) >= t
  <2>1. InsertTimer(s, t) \in Int /\ InsertTimer(s, t) >= t
    BY <1>2, <1>4, <1>6, NextEvent
  <2> QED BY <1>2, <2>1
<1>8. t + TrotOffset \in Nat /\ t + TrotOffset >= t
  BY <1>2, <1>3
<1>9. ASSUME NEW tpl, NEW level, Insert(s, tpl, InsertTimer(s, t), t + Horizon),
             gaitLevel # level, SetLevel(level, t), UNCHANGED cutSwing,
             <<tpl, level>> \in {<<StanceTemplate, 0>>, <<TrotTemplate, 1>>}
      PROVE  InsertedAt(tpl, InsertTimer(s, t))
  BY <1>5, <1>9 DEF Insert, InsertedAt, SetLevel
<1>10. CASE gaitType = 0
  <2>1. WalkGait(s, h, t)
    BY <1>5, <1>10
  <2>2. CASE /\ gaitLevel # 0 /\ Insert(s, StanceTemplate, InsertTimer(s, t), t + Horizon)
             /\ SetLevel(0, t) /\ UNCHANGED cutSwing
    <3>1. InsertedAt(StanceTemplate, InsertTimer(s, t))
      BY <1>9, <2>2
    <3> QED BY <1>2, <1>4, <1>5, <1>7, <3>1 DEF s
  <2>3. CASE /\ gaitLevel # 1 /\ Insert(s, TrotTemplate, InsertTimer(s, t), t + Horizon)
             /\ SetLevel(1, t) /\ UNCHANGED cutSwing
    <3>1. InsertedAt(TrotTemplate, InsertTimer(s, t))
      BY <1>9, <2>3
    <3> QED BY <1>2, <1>4, <1>5, <1>7, <3>1 DEF s
  <2>4. CASE /\ KeepGait(s) /\ UNCHANGED cutSwing
             /\ SetLevel(3, t) \/ UNCHANGED <<gaitLevel, levelSince>>
    <3>1. Kept
      BY <1>5, <2>4 DEF KeepGait, Kept, SetLevel
    <3> QED BY <1>2, <1>4, <1>5, <3>1 DEF s
  <2> QED BY <2>1, <2>2, <2>3, <2>4 DEF WalkGait
<1>11. CASE gaitType # 0
  <2>1. TrotGait(s, t)
    BY <1>5, <1>11
  <2>2. CASE /\ Insert(s, TrotTemplate, t + TrotOffset, t + Horizon)
             /\ gaitLevel # 1 /\ SetLevel(1, t)
             /\ cutSwing' = (cutSwing \/ ModeAt(s, t + TrotOffset) # STANCE)
    <3>1. InsertedAt(TrotTemplate, t + TrotOffset)
      BY <1>5, <2>2 DEF Insert, InsertedAt, SetLevel
    <3> QED BY <1>2, <1>4, <1>5, <1>8, <3>1 DEF s
  <2>3. CASE KeepGait(s) /\ UNCHANGED <<gaitLevel, levelSince, cutSwing>>
    <3>1. Kept
      BY <1>5, <2>3 DEF KeepGait, Kept
    <3> QED BY <1>2, <1>4, <1>5, <3>1 DEF s
  <2> QED BY <2>1, <2>2, <2>3 DEF TrotGait
<1> QED BY <1>10, <1>11

LEMMA ManagerStep ==
  ASSUME ManagerInv, [Next]_vars PROVE ManagerInv'
<1>1. CASE ModifyReferences
  <2>1. /\ initTime' \in Nat /\ published' \in Schedules /\ WellFormed(published')
        /\ Back(published'.events) >= initTime' + 2 * Horizon
        /\ \/ Kept
           \/ \E tpl \in {StanceTemplate, TrotTemplate}, start \in Nat : InsertedAt(tpl, start)
    BY <1>1, Iteration
  <2>2. HorizonCovered'
    BY <2>1 DEF HorizonCovered
  <2>3. schedule' \in Schedules /\ WellFormed(schedule') /\ template' \in Templates /\ ~threw'
    <3>1. CASE Kept
      BY <2>1, <3>1 DEF Kept, ManagerInv
    <3>2. ASSUME NEW tpl \in {StanceTemplate, TrotTemplate}, NEW start \in Nat, InsertedAt(tpl, start)
          PROVE  schedule' \in Schedules /\ WellFormed(schedule') /\ template' \in Templates
                 /\ ~threw'
      <4>1. tpl \in Templates /\ start \in Int /\ initTime' + Horizon \in Int
        BY <2>1, ManagerAssumption
      <4>2. /\ schedule' = InsertTemplate(published', tpl, start, initTime' + Horizon)
            /\ threw' = InsertThrows(published', tpl, start) /\ template' = tpl
        BY <3>2 DEF InsertedAt
      <4>3. /\ schedule' \in Schedules /\ WellFormed(schedule')
            /\ ~InsertThrows(published', tpl, start)
        BY <2>1, <4>1, <4>2, InsertIs
      <4> QED BY <4>1, <4>2, <4>3
    <3> QED BY <2>1, <3>1, <3>2
  <2> QED BY <2>1, <2>2, <2>3 DEF ManagerInv
<1>2. CASE Restart
  BY <1>2 DEF Restart, ManagerInv, HorizonCovered
<1>3. CASE GaitTypeCallback
  BY <1>3 DEF GaitTypeCallback, ManagerInv, HorizonCovered
<1>4. CASE UNCHANGED vars
  BY <1>4 DEF vars, ManagerInv, HorizonCovered
<1> QED BY <1>1, <1>2, <1>3, <1>4 DEF Next

LEMMA ManagerInit == Init => ManagerInv
BY ManagerAssumption DEF Init, ManagerInv, Schedules, HorizonCovered

LEMMA ManagerHolds == Spec => []ManagerInv
BY ManagerInit, ManagerStep, PTL DEF Spec

(* However gaits are inserted, extended and forgotten, and across restarts *)
(* of the clock, what is kept and what is published is well formed, and    *)
(* tiling never throws.                                                    *)
THEOREM SchedulesCorrect == Spec => []SchedulesWellFormed
<1>1. ManagerInv => SchedulesWellFormed
  BY DEF ManagerInv, SchedulesWellFormed
<1> QED BY <1>1, ManagerHolds, PTL

(* The solver's horizon never runs past the planned events.                *)
THEOREM HorizonCorrect == Spec => []HorizonCovered
<1>1. ManagerInv => HorizonCovered
  BY DEF ManagerInv
<1> QED BY <1>1, ManagerHolds, PTL

-----------------------------------------------------------------------------
(* A phase of a template is at most as long as the template.               *)
LEMMA PhaseInPeriod ==
  ASSUME NEW tpl \in Templates, NEW i \in 1..Len(tpl.modes)
  PROVE  tpl.times[i + 1] - tpl.times[i] \in 1..Period(tpl)
<1> DEFINE T == tpl.times
           k == Len(tpl.modes)
           P == Period(tpl)
<1>1. /\ T \in Seq(Int) /\ k \in Nat \ {0} /\ Len(T) = k + 1 /\ P \in Nat \ {0}
      /\ \A p \in 1..(k + 1) : T[p] \in Int
      /\ \A p \in 1..k : T[p] < T[p + 1]
      /\ T[k + 1] = T[1] + P
  BY TemplateIs
<1>2. i \in 1..k /\ i \in 1..(k + 1) /\ i + 1 \in 1..(k + 1)
  BY <1>1
<1> HIDE DEF T, k, P
<1>3. Rises(T)
  BY <1>1 DEF Rises
<1>4. T[1] <= T[i]
  <2>1. CASE i = 1
    BY <1>1, <1>2, <2>1
  <2>2. CASE i # 1
    <3>1. 1 \in 1..Len(T) /\ i \in (1 + 1)..Len(T)
      BY <1>1, <1>2, <2>2
    <3>2. T[1] < T[i]
      BY <1>1, <1>3, <3>1, RisesFar
    <3>3. T[1] \in Int /\ T[i] \in Int
      BY <1>1, <1>2, <3>1
    <3> QED BY <3>2, <3>3
  <2> QED BY <2>1, <2>2
<1>5. T[i + 1] <= T[k + 1]
  <2>1. CASE i = k
    BY <1>1, <1>2, <2>1
  <2>2. CASE i # k
    <3>1. i + 1 \in 1..Len(T) /\ k + 1 \in ((i + 1) + 1)..Len(T)
      BY <1>1, <1>2, <2>2
    <3>2. T[i + 1] < T[k + 1]
      BY <1>1, <1>3, <3>1, RisesFar
    <3> QED BY <1>1, <1>2, <3>1, <3>2
  <2> QED BY <2>1, <2>2
<1>6. T[i] \in Int /\ T[i + 1] \in Int /\ T[1] \in Int /\ T[i] < T[i + 1]
  BY <1>1, <1>2
<1>7. T[i + 1] - T[i] \in 1..P
  BY <1>1, <1>4, <1>5, <1>6
<1> QED BY <1>7 DEF T, P

(* The shortest phase of the trot is a swing time the CHOOSE can find.     *)
LEMMA SwingTimeIs ==
  LET T == TrotTemplate.times
      k == Len(TrotTemplate.modes)
  IN /\ SwingTime \in Nat \ {0}
     /\ \E i \in 1..k : SwingTime = T[i + 1] - T[i]
     /\ \A i \in 1..k : T[i + 1] - T[i] >= SwingTime
<1> DEFINE T == TrotTemplate.times
           k == Len(TrotTemplate.modes)
           P == Period(TrotTemplate)
           D == {T[i + 1] - T[i] : i \in 1..k}
<1>1. TrotTemplate \in Templates /\ k \in Nat \ {0} /\ P \in Nat \ {0}
  BY ManagerAssumption, TemplateIs
<1>3. \A i \in 1..k : T[i + 1] - T[i] \in 1..P
  BY <1>1, PhaseInPeriod
<1> HIDE DEF T, k, P
<1>4. PICK d \in D : \A e \in D : d <= e
  <2>1. D \in SUBSET Nat
    BY <1>3, <1>1
  <2>2. D # {}
    <3>1. 1 \in 1..k
      BY <1>1
    <3> QED BY <3>1
  <2> QED BY <2>1, <2>2, Least
<1>5. /\ d \in 1..P
      /\ \E i \in 1..k : d = T[i + 1] - T[i]
      /\ \A i \in 1..k : d <= T[i + 1] - T[i]
  BY <1>3, <1>4
<1>6. /\ SwingTime \in 1..P
      /\ \E i \in 1..k : SwingTime = T[i + 1] - T[i]
      /\ \A i \in 1..k : SwingTime <= T[i + 1] - T[i]
  BY <1>5 DEF SwingTime, T, k, P
<1>7. SwingTime \in Nat \ {0}
  <2>1. SwingTime \in 1..P /\ P \in Nat
    BY <1>1, <1>6
  <2> QED BY <2>1
<1>8. ASSUME NEW i \in 1..k PROVE T[i + 1] - T[i] >= SwingTime
  BY <1>3, <1>6, <1>7, <1>1
<1> QED BY <1>6, <1>7, <1>8 DEF T, k

(* Phases that are no swing, or a swing of at least SwingTime.             *)
Full == {p \in Mode \X Int : p[1] # STANCE => p[2] >= SwingTime}

LEMMA TypedPhases ==
  /\ \A s \in Schedules : WellFormed(s) =>
       PhasesIn(s, Mode \X Int)
  /\ \A tpl \in Templates : TemplateIn(tpl, Mode \X Int)
<1>1. ASSUME NEW s \in Schedules, WellFormed(s), NEW i \in 2..Len(s.events)
      PROVE  <<s.modes[i], s.events[i] - s.events[i - 1]>> \in Mode \X Int
  <2>1. /\ Len(s.events) \in Nat /\ \A k \in 1..Len(s.events) : s.events[k] \in Int
        /\ \A k \in 1..(Len(s.events) + 1) : s.modes[k] \in Mode
    BY <1>1, ScheduleIs
  <2>2. i \in 1..Len(s.events) /\ i - 1 \in 1..Len(s.events) /\ i \in 1..(Len(s.events) + 1)
    BY <2>1
  <2>3. s.modes[i] \in Mode /\ s.events[i] \in Int /\ s.events[i - 1] \in Int
    BY <2>1, <2>2
  <2> QED BY <2>3
<1>2. ASSUME NEW tpl \in Templates, NEW i \in 1..Len(tpl.modes)
      PROVE  <<tpl.modes[i], tpl.times[i + 1] - tpl.times[i]>> \in Mode \X Int
  <2>1. /\ Len(tpl.modes) \in Nat /\ tpl.modes[i] \in Mode
        /\ \A k \in 1..(Len(tpl.modes) + 1) : tpl.times[k] \in Int
    BY TemplateIs
  <2>2. i \in 1..(Len(tpl.modes) + 1) /\ i + 1 \in 1..(Len(tpl.modes) + 1)
    BY <2>1
  <2> QED BY <2>1, <2>2
<1> QED BY <1>1, <1>2 DEF PhasesIn, TemplateIn

LEMMA GaitsFull ==
  \A tpl \in {StanceTemplate, TrotTemplate, DefaultTemplate} :
    tpl \in Templates /\ TemplateIn(tpl, Full)
<1> SUFFICES ASSUME NEW tpl \in {StanceTemplate, TrotTemplate, DefaultTemplate},
                    NEW i \in 1..Len(tpl.modes)
             PROVE  <<tpl.modes[i], tpl.times[i + 1] - tpl.times[i]>> \in Full
  BY ManagerAssumption DEF TemplateIn
<1>1. <<tpl.modes[i], tpl.times[i + 1] - tpl.times[i]>> \in Mode \X Int
  BY ManagerAssumption, TypedPhases DEF TemplateIn
<1>2. tpl.modes[i] # STANCE => tpl.times[i + 1] - tpl.times[i] >= SwingTime
  BY SwingTimeIs, SwingAssumption
<1> QED BY <1>1, <1>2 DEF Full

(* Swings are complete in what is kept as well as in what is published.    *)
SwingInv ==
  /\ template \in {StanceTemplate, TrotTemplate, DefaultTemplate}
  /\ cutSwing \/ (PhasesIn(schedule, Full) /\ PhasesIn(published, Full))

LEMMA InitialStance == \A i \in 2..Len(InitialSchedule.events) : InitialSchedule.modes[i] = STANCE
<1>1. /\ Len(InitialSchedule.events) \in Nat
      /\ Len(InitialSchedule.modes) = Len(InitialSchedule.events) + 1
  BY ManagerAssumption, ScheduleIs DEF Schedules
<1> QED BY <1>1, SwingAssumption

LEMMA SwingInit == Init => SwingInv
<1> SUFFICES ASSUME Init PROVE PhasesIn(schedule, Full) /\ PhasesIn(published, Full)
  BY DEF Init, SwingInv
<1>1. PhasesIn(schedule, Full)
  <2>1. schedule = InitialSchedule /\ PhasesIn(schedule, Mode \X Int)
    BY ManagerAssumption, TypedPhases DEF Init, Schedules
  <2> QED BY <2>1, InitialStance DEF PhasesIn, Full
<1>2. PhasesIn(published, Full)
  BY DEF Init, PhasesIn, NothingPublished
<1> QED BY <1>1, <1>2

(* The event InsertTimer finds is where the insertion finds it.            *)
LEMMA TimerIsEvent ==
  ASSUME NEW r \in Schedules, WellFormed(r), NEW t \in Int, Back(r.events) >= t,
         NEW start, start = InsertTimer(r, t)
  PROVE  /\ LowerBound(r.events, start) = LowerBound(r.events, t)
         /\ LowerBound(r.events, t) \in 1..Len(r.events) /\ start \in Int /\ start >= t
         /\ r.events[LowerBound(r.events, start)] = start
<1> DEFINE k == LowerBound(r.events, t)
<1>1. k \in 1..Len(r.events) /\ start = r.events[k] /\ start \in Int /\ start >= t
  BY NextEvent DEF InsertTimer
<1>2. /\ r.events \in Seq(Int) /\ Rises(r.events) /\ Len(r.events) \in Nat
      /\ \A i \in 1..Len(r.events) : r.events[i] \in Int
  BY ScheduleIs
<1> HIDE DEF k
<1>3. k \in 1..(Len(r.events) + 1) /\ start >= start
  BY <1>1, <1>2
<1>4. k > 1 => r.events[k - 1] < start
  <2> SUFFICES ASSUME k > 1 PROVE r.events[k - 1] < start
    OBVIOUS
  <2>1. k - 1 \in 1..(Len(r.events) - 1) /\ (k - 1) + 1 = k
    BY <1>1, <1>2
  <2> QED BY <1>1, <1>2, <2>1 DEF Rises
<1>5. LowerBound(r.events, start) = k
  BY <1>1, <1>2, <1>3, <1>4, LowerBoundOnly
<1> QED BY <1>1, <1>5 DEF k

LEMMA SwingStep ==
  ASSUME ManagerInv, SwingInv, [Next]_vars PROVE SwingInv'
<1>1. CASE ModifyReferences
  <2>1. /\ initTime' \in Nat
        /\ published' = Extend(schedule, template, initTime' - Horizon, initTime' + 2 * Horizon)
        /\ published' \in Schedules /\ WellFormed(published')
        /\ Back(published'.events) >= initTime' + 2 * Horizon
        /\ \/ Kept
           \/ \E tpl \in {StanceTemplate, TrotTemplate}, start \in Nat : InsertedAt(tpl, start)
    BY <1>1, Iteration
  <2>2. template' \in {StanceTemplate, TrotTemplate, DefaultTemplate}
    BY <2>1 DEF Kept, InsertedAt, SwingInv
  <2> SUFFICES ASSUME ~cutSwing'
               PROVE  PhasesIn(schedule', Full') /\ PhasesIn(published', Full')
    BY <2>2 DEF SwingInv
  <2>3. Full' = Full /\ Horizon \in Nat /\ TransitionStance \in Nat
    BY ManagerAssumption, TransitionAssumption DEF Full, SwingTime
  <2>4. ~cutSwing
    BY <2>1 DEF Kept, InsertedAt
  <2>5. PhasesIn(published', Full)
    <3>1. schedule \in Schedules /\ WellFormed(schedule) /\ PhasesIn(schedule, Full)
      BY <2>4 DEF SwingInv, ManagerInv
    <3>2. template \in Templates /\ TemplateIn(template, Full)
      BY GaitsFull DEF SwingInv
    <3>3. initTime' - Horizon \in Int /\ initTime' + 2 * Horizon \in Int
      BY <2>1, <2>3
    <3> QED BY <2>1, <3>1, <3>2, <3>3, ExtendPhases
  <2>6. CASE Kept
    BY <2>3, <2>5, <2>6 DEF Kept
  <2>7. ASSUME NEW tpl \in {StanceTemplate, TrotTemplate}, NEW start \in Nat, InsertedAt(tpl, start)
        PROVE  PhasesIn(schedule', Full)
    <3> DEFINE r == published'
               j == LowerBound(r.events, start)
    <3>1. r \in Schedules /\ WellFormed(r) /\ PhasesIn(r, Full)
      BY <2>1, <2>5
    <3>2. tpl \in Templates /\ TemplateIn(tpl, Full)
      BY GaitsFull
    <3>3. initTime' + Horizon \in Int /\ start \in Int
      BY <2>1, <2>3
    <3>4. schedule' = InsertTemplate(r, tpl, start, initTime' + Horizon)
      BY <2>7 DEF InsertedAt
    <3>5. r.modes[j] = STANCE \/ (j \in 1..Len(r.events) /\ r.events[j] = start)
      <4>1. CASE start = InsertTimer(r, initTime')
        <5>1. initTime' \in Int /\ Back(r.events) >= initTime'
          BY <2>1, <2>3, <3>1, ScheduleIs
        <5> QED BY <3>1, <4>1, <5>1, TimerIsEvent
      <4>2. CASE cutSwing' = (cutSwing \/ ModeAt(r, start) # STANCE)
        BY <4>2 DEF ModeAt
      <4> QED BY <2>7, <4>1, <4>2 DEF InsertedAt
    <3> HIDE DEF r
    <3>6. /\ Len(r.events) \in Nat /\ j \in 1..(Len(r.events) + 1)
          /\ \A i \in 1..Len(r.events) : r.events[i] \in Int
          /\ \A i \in 1..(Len(r.events) + 1) : r.modes[i] \in Mode
      <4>1. r.events \in Seq(Int)
        BY <3>1, ScheduleIs
      <4> QED BY <3>1, <3>3, <4>1, ScheduleIs, LowerBoundIs
    <3> HIDE DEF j
    <3>7. j > 1 => <<r.modes[j], start - r.events[j - 1]>> \in Full
      <4> SUFFICES ASSUME j > 1 PROVE <<r.modes[j], start - r.events[j - 1]>> \in Full
        OBVIOUS
      <4>1. r.modes[j] \in Mode /\ j - 1 \in 1..Len(r.events) /\ start - r.events[j - 1] \in Int
        <5>1. j - 1 \in 1..Len(r.events)
          BY <3>6
        <5> QED BY <3>3, <3>6, <5>1
      <4>2. CASE r.modes[j] = STANCE
        BY <4>1, <4>2 DEF Full
      <4>3. CASE j \in 1..Len(r.events) /\ r.events[j] = start
        <5>1. j \in 2..Len(r.events)
          BY <3>6, <4>3
        <5> QED BY <3>1, <4>3, <5>1 DEF PhasesIn
      <4> QED BY <3>5, <4>2, <4>3
    <3>8. <<STANCE, TransitionStance>> \in Full
      BY <2>3 DEF Full, Mode
    <3> QED BY <3>1, <3>2, <3>3, <3>4, <3>7, <3>8, InsertPhases DEF j
  <2> QED BY <2>1, <2>3, <2>5, <2>6, <2>7
<1>2. CASE Restart
  BY <1>2 DEF Restart, SwingInv, Full, SwingTime
<1>3. CASE GaitTypeCallback
  BY <1>3 DEF GaitTypeCallback, SwingInv, Full, SwingTime
<1>4. CASE UNCHANGED vars
  BY <1>4 DEF vars, SwingInv, Full, SwingTime
<1> QED BY <1>1, <1>2, <1>3, <1>4 DEF Next

LEMMA SwingHolds == Spec => []SwingInv
<1>1. ManagerInv /\ SwingInv /\ [Next]_vars => SwingInv'
  BY SwingStep
<1> QED BY <1>1, SwingInit, ManagerHolds, PTL DEF Spec

(* No published swing is shorter than the shortest of the trot, unless     *)
(* trotGait has inserted its trot in one.                                  *)
THEOREM SwingsWhole == Spec => []SwingsFullLength
<1>1. SwingInv => SwingsFullLength
  <2> SUFFICES ASSUME SwingInv, ~cutSwing, NEW i \in SwingPhases(published)
               PROVE  PhaseTime(published, i) >= SwingTime
    BY DEF SwingsFullLength
  <2>1. i \in 2..Len(published.events) /\ published.modes[i] # STANCE
    BY DEF SwingPhases, STANCE, L, R, FLY
  <2>2. <<published.modes[i], published.events[i] - published.events[i - 1]>> \in Full
    BY <2>1 DEF SwingInv, PhasesIn
  <2> QED BY <2>1, <2>2 DEF Full, PhaseTime
<1> QED BY <1>1, SwingHolds, PTL

-----------------------------------------------------------------------------
(* What has been published determines what is kept, up to the gait the     *)
(* last iteration has inserted.                                            *)
PlanInv ==
  initTime # -1 =>
    \/ insertTime = -1 /\ schedule = published
    \/ /\ insertTime \in Nat /\ insertTime >= initTime
       /\ \E tpl \in Templates :
            schedule = InsertTemplate(published, tpl, insertTime, initTime + Horizon)

LEMMA PlanStep ==
  ASSUME ManagerInv, PlanInv, [Next]_vars PROVE PlanInv'
<1>1. CASE ModifyReferences
  <2>1. CASE Kept
    BY <2>1 DEF Kept, PlanInv
  <2>2. ASSUME NEW tpl \in {StanceTemplate, TrotTemplate}, NEW start \in Nat,
               InsertedAt(tpl, start), start >= initTime'
        PROVE  PlanInv'
    <3>1. tpl \in Templates
      BY ManagerAssumption
    <3> QED BY <2>2, <3>1 DEF InsertedAt, PlanInv
  <2> QED BY <1>1, <2>1, <2>2, Iteration
<1>2. CASE Restart
  BY <1>2 DEF Restart, PlanInv
<1>3. CASE GaitTypeCallback
  BY <1>3 DEF GaitTypeCallback, PlanInv
<1>4. CASE UNCHANGED vars
  BY <1>4 DEF vars, PlanInv
<1> QED BY <1>1, <1>2, <1>3, <1>4 DEF Next

LEMMA PlanKeptStep ==
  ASSUME ManagerInv, PlanInv, ModifyReferences, initTime # -1
  PROVE  LET until == IF insertTime = -1 THEN Back(published.events) ELSE insertTime
         IN /\ insertTime # -1 => insertTime >= initTime
            /\ \A t \in (initTime' - Horizon)..until :
                 t <= Back(published.events) =>
                   ModeAt(published', t) = ModeAt(published, t)
<1> DEFINE lower == initTime' - Horizon
           until == IF insertTime = -1 THEN Back(published.events) ELSE insertTime
<1>1. initTime' \in Nat /\ published' = Extend(schedule, template, lower, initTime' + 2 * Horizon)
  BY Iteration
<1>2. /\ initTime \in Nat /\ published \in Schedules /\ WellFormed(published)
      /\ schedule \in Schedules /\ WellFormed(schedule) /\ template \in Templates
      /\ Back(published.events) \in Int /\ Back(schedule.events) \in Int
  BY ScheduleIs DEF ManagerInv
<1>3. Horizon \in Nat /\ lower \in Int /\ initTime' + 2 * Horizon \in Int
      /\ initTime + Horizon \in Int
  BY <1>1, <1>2, ManagerAssumption
<1>4. insertTime # -1 => insertTime >= initTime
  BY DEF PlanInv
<1> HIDE DEF lower
<1>5. ASSUME NEW t \in lower..until, t <= Back(published.events)
      PROVE  ModeAt(published', t) = ModeAt(published, t)
  <2>1. CASE insertTime = -1 /\ schedule = published
    <3>1. t \in Int /\ lower <= t /\ t <= Back(schedule.events)
      BY <1>2, <1>3, <1>5, <2>1
    <3> QED BY <1>1, <1>2, <1>3, <2>1, <3>1, ExtendKeepsModes
  <2>2. ASSUME insertTime \in Nat, insertTime >= initTime, NEW tpl \in Templates,
               schedule = InsertTemplate(published, tpl, insertTime, initTime + Horizon)
        PROVE  ModeAt(published', t) = ModeAt(published, t)
    <3>1. t \in Int /\ lower <= t /\ t <= insertTime /\ insertTime \in Int
      BY <1>3, <2>2
    <3>2. Back(schedule.events) >= insertTime
      BY <1>2, <1>3, <2>2, <3>1, InsertIs
    <3>3. t <= Back(schedule.events)
      BY <1>2, <3>1, <3>2
    <3>4. ModeAt(published', t) = ModeAt(schedule, t)
      BY <1>1, <1>2, <1>3, <3>1, <3>3, ExtendKeepsModes
    <3>5. ModeAt(schedule, t) = ModeAt(published, t)
      BY <1>2, <1>3, <2>2, <3>1, InsertKeepsModes
    <3> QED BY <3>4, <3>5
  <2> QED BY <1>2, <2>1, <2>2 DEF PlanInv
<1> QED BY <1>4, <1>5 DEF lower

(* What has been published for a time is published for it again, up to the *)
(* point where the iteration before has inserted a gait, and that point is *)
(* never in the past.                                                      *)
THEOREM PlansKept == Spec => PlanKept
<1>1. ManagerInv /\ PlanInv /\ [Next]_vars =>
        [ModifyReferences /\ initTime # -1 =>
           LET until == IF insertTime = -1 THEN Back(published.events)
                        ELSE insertTime
           IN /\ insertTime # -1 => insertTime >= initTime
              /\ \A t \in (initTime' - Horizon)..until :
                   t <= Back(published.events) =>
                     ModeAt(published', t) = ModeAt(published, t)]_vars
  BY PlanKeptStep
<1>2. Init => PlanInv
  BY DEF Init, PlanInv
<1>3. ManagerInv /\ PlanInv /\ [Next]_vars => PlanInv'
  BY PlanStep
<1> QED BY <1>1, <1>2, <1>3, ManagerHolds, PTL DEF Spec, PlanKept

-----------------------------------------------------------------------------
(* A gait takes effect in time because no phase is longer than the default *)
(* template, and no swing longer than one of the trot.                     *)
Long == Period(DefaultTemplate)

Bounded == {p \in Mode \X Int : p[2] <= Long /\ (p[1] # STANCE => p[2] <= SwingTime)}

LEMMA TimingIs ==
  /\ Long \in Nat \ {0} /\ SwingTime \in Nat \ {0} /\ Horizon \in Nat /\ TrotOffset \in Nat
  /\ TransitionStance \in Nat
  /\ SwingTime + TransitionStance <= Long /\ TrotOffset + TransitionStance <= Long
  /\ Long <= 2 * Horizon
  /\ TrotTemplate.modes[1] # STANCE /\ AllStance(StanceTemplate) /\ AllStance(DefaultTemplate)
  /\ \A tpl \in {StanceTemplate, TrotTemplate, DefaultTemplate} :
       tpl \in Templates /\ TemplateIn(tpl, Bounded)
<1> DEFINE T == TrotTemplate.times
           k == Len(TrotTemplate.modes)
<1>1. /\ Long \in Nat \ {0} /\ Horizon \in Nat /\ TrotOffset \in Nat /\ TransitionStance \in Nat
      /\ k \in Nat \ {0}
  BY ManagerAssumption, TransitionAssumption, TemplateIs DEF Long
<1>2. /\ SwingTime \in Nat \ {0} /\ SwingTime = T[2] - T[1]
      /\ \A i \in 1..k : T[i + 1] - T[i] = SwingTime
  BY SwingTimeIs, TimingAssumption
<1>3. /\ SwingTime + TransitionStance <= Long /\ TrotOffset + TransitionStance <= Long
      /\ Long <= 2 * Horizon /\ Period(StanceTemplate) <= Long
  BY <1>2, TimingAssumption DEF Long
<1>4. TrotTemplate.modes[1] # STANCE
  <2>1. 1 \in 1..k
    BY <1>1
  <2> QED BY <2>1, TimingAssumption
<1>5. AllStance(StanceTemplate) /\ AllStance(DefaultTemplate)
  BY SwingAssumption DEF AllStance
<1> HIDE DEF T, k
<1>6. ASSUME NEW tpl \in {StanceTemplate, TrotTemplate, DefaultTemplate}
      PROVE  tpl \in Templates /\ TemplateIn(tpl, Bounded)
  <2>1. tpl \in Templates
    BY ManagerAssumption
  <2> SUFFICES ASSUME NEW i \in 1..Len(tpl.modes)
               PROVE  <<tpl.modes[i], tpl.times[i + 1] - tpl.times[i]>> \in Bounded
    BY <2>1 DEF TemplateIn
  <2>2. <<tpl.modes[i], tpl.times[i + 1] - tpl.times[i]>> \in Mode \X Int
    BY <2>1, TypedPhases DEF TemplateIn
  <2>3. CASE tpl = TrotTemplate
    <3>1. tpl.times[i + 1] - tpl.times[i] = SwingTime
      BY <1>2, <2>3 DEF T, k
    <3>2. SwingTime <= Long
      BY <1>1, <1>2, <1>3
    <3> QED BY <1>2, <2>2, <3>1, <3>2 DEF Bounded
  <2>4. CASE tpl \in {StanceTemplate, DefaultTemplate}
    <3>1. tpl.modes[i] = STANCE
      BY <1>5, <2>4 DEF AllStance
    <3>2. tpl.times[i + 1] - tpl.times[i] \in 1..Period(tpl) /\ Period(tpl) \in Nat
      BY <2>1, PhaseInPeriod, TemplateIs
    <3>3. tpl.times[i + 1] - tpl.times[i] <= Long
      BY <1>1, <1>3, <2>4, <3>2 DEF Long
    <3> QED BY <2>2, <3>1, <3>3 DEF Bounded
  <2> QED BY <2>3, <2>4
<1> QED BY <1>1, <1>2, <1>3, <1>4, <1>5, <1>6

LEMMA InitialBounded == PhasesIn(InitialSchedule, Bounded) /\ InitialSchedule.events[1] <= Long
<1>1. PhasesIn(InitialSchedule, Mode \X Int)
  BY ManagerAssumption, TypedPhases DEF Schedules
<1>2. InitialSchedule.events[1] <= Long
      /\ \A i \in 2..Len(InitialSchedule.events) :
           InitialSchedule.events[i] - InitialSchedule.events[i - 1] <= Long
  BY TimingAssumption DEF Long
<1>3. ASSUME NEW i \in 2..Len(InitialSchedule.events)
      PROVE  <<InitialSchedule.modes[i],
               InitialSchedule.events[i] - InitialSchedule.events[i - 1]>> \in Bounded
  BY <1>1, <1>2, <1>3, InitialStance DEF PhasesIn, Bounded
<1> QED BY <1>2, <1>3 DEF PhasesIn

(* From time t on the next event is near.                                  *)
LEMMA TimerSoon ==
  ASSUME NEW r \in Schedules, WellFormed(r), NEW t \in Int, Back(r.events) >= t,
         PhasesIn(r, Bounded), NEW start, start = InsertTimer(r, t),
         NEW j, j = LowerBound(r.events, start)
  PROVE  /\ start \in Int /\ start <= Back(r.events)
         /\ j > 1 => r.events[j - 1] < t
         /\ r.modes[j] # STANCE => start < t + SwingTime
         /\ r.events[1] <= t + Long => start <= t + Long
<1>1. /\ j = LowerBound(r.events, t) /\ j \in 1..Len(r.events)
      /\ start \in Int /\ start >= t /\ r.events[j] = start
  BY TimerIsEvent
<1>2. /\ r.events \in Seq(Int) /\ Rises(r.events) /\ Len(r.events) \in Nat \ {0}
      /\ \A i \in 1..Len(r.events) : r.events[i] \in Int
      /\ r.modes[1] = STANCE /\ Back(r.events) = r.events[Len(r.events)]
  BY ScheduleIs
<1>3. j > 1 => r.events[j - 1] < t
  <2>1. \A i \in 1..(j - 1) : r.events[i] < t
    BY <1>1, <1>2, LowerBoundIs
  <2> QED BY <1>1, <2>1
<1>4. start <= Back(r.events)
  <2>1. CASE j = Len(r.events)
    BY <1>1, <1>2, <2>1
  <2>2. CASE j # Len(r.events)
    <3>1. Len(r.events) \in (j + 1)..Len(r.events)
      BY <1>1, <1>2, <2>2
    <3>2. r.events[j] < r.events[Len(r.events)] /\ r.events[Len(r.events)] \in Int
      BY <1>1, <1>2, <3>1, RisesFar, SMTT(30)
    <3> QED BY <1>1, <1>2, <3>2
  <2> QED BY <2>1, <2>2
<1>5. j > 1 => /\ start < t + Long
               /\ r.modes[j] # STANCE => start < t + SwingTime
  <2> SUFFICES ASSUME j > 1 PROVE start < t + Long /\ (r.modes[j] # STANCE => start < t + SwingTime)
    OBVIOUS
  <2>1. j \in 2..Len(r.events) /\ j - 1 \in 1..Len(r.events)
    BY <1>1, <1>2
  <2>2. <<r.modes[j], start - r.events[j - 1]>> \in Bounded
    BY <1>1, <2>1 DEF PhasesIn
  <2>3. /\ start - r.events[j - 1] <= Long
        /\ r.modes[j] # STANCE => start - r.events[j - 1] <= SwingTime
    BY <2>2 DEF Bounded
  <2>4. r.events[j - 1] \in Int /\ r.events[j - 1] < t
    BY <1>2, <1>3, <2>1
  <2> QED BY <1>1, <2>3, <2>4, TimingIs
<1>6. j = 1 => r.modes[j] = STANCE /\ (r.events[1] <= t + Long => start <= t + Long)
  BY <1>1, <1>2
<1>7. r.events[1] <= t + Long => start <= t + Long
  BY <1>1, <1>5, <1>6, TimingIs
<1>8. r.modes[j] # STANCE => start < t + SwingTime
  BY <1>1, <1>5, <1>6
<1> QED BY <1>1, <1>3, <1>4, <1>7, <1>8

(* What an insertion leaves of the phase it ends is no longer than that.   *)
LEMMA RestBounded ==
  ASSUME NEW r \in Schedules, WellFormed(r), PhasesIn(r, Bounded),
         NEW start \in Int, start <= Back(r.events) + Long,
         NEW j, j = LowerBound(r.events, start), j > 1
  PROVE  <<r.modes[j], start - r.events[j - 1]>> \in Bounded
<1>1. /\ r.events \in Seq(Int) /\ Len(r.events) \in Nat \ {0}
      /\ \A i \in 1..Len(r.events) : r.events[i] \in Int
      /\ \A i \in 1..(Len(r.events) + 1) : r.modes[i] \in Mode
      /\ r.modes[Len(r.events) + 1] = STANCE /\ Back(r.events) = r.events[Len(r.events)]
  BY ScheduleIs
<1>2. j \in 2..(Len(r.events) + 1) /\ (j <= Len(r.events) => r.events[j] >= start)
  <2>1. j \in 1..(Len(r.events) + 1) /\ (j <= Len(r.events) => r.events[j] >= start)
    BY <1>1, LowerBoundIs
  <2> QED BY <1>1, <2>1
<1>3. /\ j - 1 \in 1..Len(r.events) /\ r.events[j - 1] \in Int /\ r.modes[j] \in Mode
      /\ Long \in Nat
  BY <1>1, <1>2, TimingIs
<1>4. CASE j = Len(r.events) + 1
  <2>1. j - 1 = Len(r.events) /\ r.modes[j] = STANCE
    BY <1>1, <1>4
  <2>2. start - r.events[j - 1] <= Long
    BY <1>1, <1>3, <2>1
  <2> QED BY <1>3, <2>1, <2>2 DEF Bounded
<1>5. CASE j # Len(r.events) + 1
  <2>1. j \in 2..Len(r.events) /\ r.events[j] \in Int /\ r.events[j] >= start
    BY <1>1, <1>2, <1>5
  <2>2. <<r.modes[j], r.events[j] - r.events[j - 1]>> \in Bounded
    BY <2>1 DEF PhasesIn
  <2>3. /\ r.events[j] - r.events[j - 1] <= Long
        /\ r.modes[j] # STANCE => r.events[j] - r.events[j - 1] <= SwingTime
    BY <2>2 DEF Bounded
  <2>4. /\ start - r.events[j - 1] <= Long
        /\ r.modes[j] # STANCE => start - r.events[j - 1] <= SwingTime
    BY <1>3, <2>1, <2>3, TimingIs
  <2> QED BY <1>3, <2>4 DEF Bounded
<1> QED BY <1>4, <1>5

LEMMA SwingIsStart ==
  ASSUME NEW r \in Schedules, WellFormed(r), NEW a, NEW e, SwingFrom(r, a, e)
  PROVE  StartsBy(r, a, e)
<1>1. Len(r.events) \in Nat
  BY ScheduleIs
<1>2. PICK i \in 2..Len(r.events) : r.modes[i] # STANCE /\ r.events[i - 1] \in a..e
  BY DEF SwingFrom
<1>3. PICK q \in 1..Len(r.events) : q = i - 1 /\ q + 1 = i
  BY <1>1
<1> QED BY <1>2, <1>3 DEF StartsBy

LEMMA Around ==
  ASSUME NEW h \in Nat, NEW t \in Nat
  PROVE  /\ t - h \in Int /\ t - h <= t /\ t + 2 * h \in Int
         /\ t \notin (t + 1)..(t + h) /\ t <= t /\ t # -1 /\ t \in Int
         /\ \A a \in Int : t \in (a + 1)..(a + h) => t <= a + h
OBVIOUS

-----------------------------------------------------------------------------
TimesInv ==
  /\ levelSince \in Int
  /\ initTime = -1 => gaitLevel # 1 /\ levelSince = 0
  /\ initTime # -1 => levelSince <= initTime
  /\ schedule.events[1] <= (IF initTime = -1 THEN 0 ELSE initTime) + Long
  /\ gaitLevel = 0 => StopsBy(schedule, levelSince + SwingTime)
  /\ gaitLevel = 1 /\ initTime <= levelSince + Horizon =>
       StartsBy(schedule, levelSince, levelSince + Long)
  /\ gaitLevel = 1 /\ initTime \in (levelSince + 1)..(levelSince + Horizon) =>
       SwingFrom(published, levelSince, levelSince + Long)

(* Before a restart the times of the history are those of the clock.       *)
EffectInv ==
  /\ gaitLevel = 1 => template = TrotTemplate
  /\ gaitLevel = 0 => template \in {StanceTemplate, DefaultTemplate}
  /\ restarts \in Nat
  /\ PhasesIn(schedule, Bounded)
  /\ restarts = 0 => TimesInv

LEMMA EffectInit == Init => EffectInv
<1> SUFFICES ASSUME Init PROVE EffectInv
  OBVIOUS
<1>1. PhasesIn(schedule, Bounded) /\ schedule.events[1] <= Long /\ Long \in Int
  BY InitialBounded, TimingIs DEF Init
<1>2. StopsBy(schedule, levelSince + SwingTime)
  BY InitialStance DEF Init, StopsBy
<1>3. TimesInv
  BY <1>1, <1>2 DEF Init, TimesInv
<1> QED BY <1>1, <1>3 DEF Init, EffectInv

(* The schedule an iteration publishes.                                    *)
LEMMA EffectPublished ==
  ASSUME ManagerInv, SwingInv, EffectInv, ModifyReferences
  PROVE  /\ PhasesIn(published', Bounded)
         /\ restarts = 0 =>
              /\ published'.events[1] <= initTime' + Long
              /\ gaitLevel = 0 => StopsBy(published', levelSince + SwingTime)
              /\ gaitLevel = 1 /\ initTime' <= levelSince + Horizon =>
                   SwingFrom(published', levelSince, levelSince + Long)
<1> DEFINE lower == initTime' - Horizon
           upper == initTime' + 2 * Horizon
<1>1. /\ initTime' \in Nat /\ initTime' > initTime
      /\ published' = Extend(schedule, template, lower, upper)
  BY Iteration
<1>2. /\ initTime \in Int /\ schedule \in Schedules /\ WellFormed(schedule)
      /\ template \in Templates /\ TemplateIn(template, Bounded)
      /\ schedule.events[1] \in Int
  <2>1. initTime \in Int /\ schedule \in Schedules /\ WellFormed(schedule)
    BY DEF ManagerInv
  <2>2. 1 \in 1..Len(schedule.events) /\ \A i \in 1..Len(schedule.events) : schedule.events[i] \in Int
    BY <2>1, ScheduleIs
  <2> QED BY <2>1, <2>2, TimingIs DEF SwingInv
<1>3. lower \in Int /\ upper \in Int /\ lower <= initTime'
  <2>1. Horizon \in Nat /\ initTime' \in Nat
    BY <1>1, TimingIs
  <2> QED BY <2>1, Around
<1>4. PhasesIn(published', Bounded)
  BY <1>1, <1>2, <1>3, ExtendPhases DEF EffectInv
<1> SUFFICES ASSUME restarts = 0
             PROVE  /\ published'.events[1] <= initTime' + Long
                    /\ gaitLevel = 0 => StopsBy(published', levelSince + SwingTime)
                    /\ gaitLevel = 1 /\ initTime' <= levelSince + Horizon =>
                         SwingFrom(published', levelSince, levelSince + Long)
  BY <1>4
<1>5. TimesInv /\ levelSince \in Int
  BY DEF EffectInv, TimesInv
<1>6. published'.events[1] <= initTime' + Long
  <2>1. schedule.events[1] <= initTime' + Long
    BY <1>1, <1>2, <1>5, TimingIs DEF TimesInv
  <2>2. lower <= (initTime' + Long) + 1 /\ initTime' + Long \in Int
    BY <1>1, <1>3, TimingIs
  <2> QED BY <1>1, <1>2, <1>3, <2>1, <2>2, FirstEvent
<1>7. ASSUME gaitLevel = 0 PROVE StopsBy(published', levelSince + SwingTime)
  <2>1. AllStance(template) /\ StopsBy(schedule, levelSince + SwingTime)
    BY <1>5, <1>7, TimingIs DEF TimesInv, EffectInv
  <2>2. levelSince + SwingTime \in Int
    BY <1>5, TimingIs
  <2> HIDE DEF lower, upper
  <2> QED BY <1>1, <1>2, <1>3, <2>1, <2>2, ExtendStops
<1>8. ASSUME gaitLevel = 1, initTime' <= levelSince + Horizon
      PROVE  SwingFrom(published', levelSince, levelSince + Long)
  <2>1. /\ StartsBy(schedule, levelSince, levelSince + Long)
        /\ levelSince <= initTime
    BY <1>1, <1>2, <1>5, <1>8, TimingIs DEF TimesInv
  <2>2. template.modes[1] # STANCE
    BY <1>8, TimingIs DEF EffectInv
  <2>3. lower <= levelSince /\ levelSince + Long < upper /\ levelSince + Long \in Int
    BY <1>1, <1>2, <1>5, <1>8, <2>1, TimingIs
  <2> HIDE DEF lower, upper
  <2> QED BY <1>1, <1>2, <1>3, <1>5, <2>1, <2>2, <2>3, ExtendStarts
<1> QED BY <1>6, <1>7, <1>8

LEMMA EffectInserted ==
  ASSUME ManagerInv, SwingInv, EffectInv, ModifyReferences,
         NEW tpl \in {StanceTemplate, TrotTemplate}, NEW start \in Nat, start >= initTime',
         InsertedAt(tpl, start)
  PROVE  /\ PhasesIn(schedule', Bounded)
         /\ restarts = 0 =>
              /\ schedule'.events[1] <= initTime' + Long
              /\ gaitLevel' = 0 => StopsBy(schedule', initTime' + SwingTime)
              /\ gaitLevel' = 1 => StartsBy(schedule', initTime', initTime' + Long)
<1> DEFINE r == published'
           t == initTime'
           final == initTime' + Horizon
           j == LowerBound(r.events, start)
<1>1. /\ t \in Nat /\ r \in Schedules /\ WellFormed(r) /\ Back(r.events) >= t + 2 * Horizon
  BY Iteration
<1>2. /\ PhasesIn(r, Bounded) /\ (restarts = 0 => r.events[1] <= t + Long)
  BY EffectPublished
<1>3. /\ schedule' = InsertTemplate(r, tpl, start, final)
      /\ \/ tpl = TrotTemplate /\ gaitLevel' = 1
         \/ tpl = StanceTemplate /\ gaitLevel' = 0 /\ start = InsertTimer(r, t)
      /\ start = InsertTimer(r, t) \/ start = t + TrotOffset
  BY DEF InsertedAt
<1>4. tpl \in Templates /\ TemplateIn(tpl, Bounded) /\ final \in Int /\ start \in Int
  BY <1>1, TimingIs
<1>5. Back(r.events) \in Int /\ Back(r.events) >= t /\ r.events[1] \in Int
  <2>1. Back(r.events) \in Int /\ 1 \in 1..Len(r.events)
        /\ \A i \in 1..Len(r.events) : r.events[i] \in Int
    BY <1>1, ScheduleIs
  <2> QED BY <1>1, <2>1, TimingIs
<1> HIDE DEF r, t, final
<1>6. ASSUME start = InsertTimer(r, t)
      PROVE  /\ start <= Back(r.events)
             /\ j > 1 => r.events[j - 1] < t
             /\ r.modes[j] # STANCE => start < t + SwingTime
             /\ r.events[1] <= t + Long => start <= t + Long
  BY <1>1, <1>2, <1>5, <1>6, TimerSoon
<1>7. start <= Back(r.events) + Long
  <2>1. CASE start = InsertTimer(r, t)
    BY <1>4, <1>5, <1>6, <2>1, TimingIs
  <2>2. CASE start = t + TrotOffset
    BY <1>1, <1>4, <1>5, <2>2, TimingIs
  <2> QED BY <1>3, <2>1, <2>2
<1>8. PhasesIn(schedule', Bounded)
  <2>1. j > 1 => <<r.modes[j], start - r.events[j - 1]>> \in Bounded
    BY <1>1, <1>2, <1>4, <1>7, RestBounded
  <2>2. <<STANCE, TransitionStance>> \in Bounded
    <3>1. TransitionStance \in Int /\ TransitionStance <= Long
      BY TimingIs
    <3> QED BY <3>1 DEF Bounded, Mode
  <2> QED BY <1>1, <1>2, <1>3, <1>4, <2>1, <2>2, InsertPhases
<1> HIDE DEF j
<1> SUFFICES ASSUME restarts = 0
             PROVE  /\ schedule'.events[1] <= t + Long
                    /\ gaitLevel' = 0 => StopsBy(schedule', t + SwingTime)
                    /\ gaitLevel' = 1 => StartsBy(schedule', t, t + Long)
  BY <1>8 DEF t
<1>9. start <= t + Long /\ (r.modes[j] # STANCE => start + TransitionStance <= t + Long)
  <2>1. CASE start = InsertTimer(r, t)
    BY <1>1, <1>2, <1>4, <1>6, <2>1, TimingIs
  <2>2. CASE start = t + TrotOffset
    BY <1>1, <1>4, <2>2, TimingIs
  <2> QED BY <1>3, <2>1, <2>2
<1>10. t + Long \in Int /\ t + SwingTime \in Int /\ t \in Int
  BY <1>1, TimingIs
<1>11. schedule'.events[1] <= t + Long
  BY <1>1, <1>2, <1>3, <1>4, <1>9, <1>10, FirstEvent
<1>12. ASSUME gaitLevel' = 0 PROVE StopsBy(schedule', t + SwingTime)
  <2>1. AllStance(tpl) /\ start = InsertTimer(r, t)
    BY <1>3, <1>12, TimingIs
  <2>2. r.modes[j] # STANCE => start <= t + SwingTime
    BY <1>4, <1>6, <1>10, <2>1
  <2>3. j > 1 => r.events[j - 1] <= t + SwingTime
    <3>1. /\ Len(r.events) \in Nat /\ \A i \in 1..Len(r.events) : r.events[i] \in Int
          /\ j \in 1..(Len(r.events) + 1)
      <4>1. r.events \in Seq(Int)
        BY <1>1, ScheduleIs
      <4> QED BY <1>1, <1>4, <4>1, ScheduleIs, LowerBoundIs DEF j
    <3>2. j > 1 => j - 1 \in 1..Len(r.events)
      BY <3>1
    <3> QED BY <1>1, <1>6, <2>1, <3>1, <3>2, TimingIs
  <2> QED BY <1>1, <1>3, <1>4, <1>10, <2>1, <2>2, <2>3, InsertStops DEF j
<1>13. ASSUME gaitLevel' = 1 PROVE StartsBy(schedule', t, t + Long)
  <2>1. tpl.modes[1] # STANCE
    BY <1>3, <1>13, TimingIs
  <2>2. t <= start
    BY DEF t
  <2> QED BY <1>1, <1>3, <1>4, <1>9, <1>10, <2>1, <2>2, InsertStarts DEF j
<1> QED BY <1>11, <1>12, <1>13

LEMMA EffectStep ==
  ASSUME ManagerInv, SwingInv, EffectInv, [Next]_vars PROVE EffectInv'
<1>1. CASE ModifyReferences
  <2>1. initTime' \in Nat /\ initTime' > initTime /\ initTime \in Int
        /\ published' \in Schedules /\ WellFormed(published')
        /\ restarts' = restarts /\ restarts \in Nat
    <3>1. restarts' = restarts
      BY <1>1 DEF ModifyReferences
    <3>2. initTime \in Int /\ restarts \in Nat
      BY DEF ManagerInv, EffectInv
    <3> QED BY <1>1, <3>1, <3>2, Iteration
  <2>2. Long' = Long /\ Bounded' = Bounded /\ SwingTime' = SwingTime
    BY DEF Long, Bounded, SwingTime
  <2>3. CASE Kept
    <3>1. /\ gaitLevel' = 1 => template' = TrotTemplate
          /\ gaitLevel' = 0 => template' \in {StanceTemplate, DefaultTemplate}
          /\ PhasesIn(schedule', Bounded)
      BY <1>1, <2>3, EffectPublished DEF Kept, EffectInv
    <3>2. ASSUME restarts = 0 PROVE TimesInv'
      <4>1. levelSince \in Int /\ (initTime # -1 => levelSince <= initTime)
            /\ (initTime = -1 => gaitLevel # 1)
        BY <3>2 DEF EffectInv, TimesInv
      <4>2. levelSince' \in Int /\ (gaitLevel' = 3 \/ UNCHANGED <<gaitLevel, levelSince>>)
            /\ schedule' = published' /\ levelSince' \in {levelSince, initTime'}
        BY <2>1, <2>3, <4>1 DEF Kept
      <4>3. levelSince' <= initTime'
        <5>1. CASE initTime # -1
          BY <2>1, <4>1, <4>2, <5>1
        <5>2. CASE initTime = -1
          BY <2>1, <3>2, <4>2, <5>2 DEF EffectInv, TimesInv
        <5> QED BY <5>1, <5>2
      <4>4. /\ schedule'.events[1] <= initTime' + Long
            /\ gaitLevel' = 0 => StopsBy(schedule', levelSince' + SwingTime)
            /\ gaitLevel' = 1 /\ initTime' <= levelSince' + Horizon =>
                 SwingFrom(published', levelSince', levelSince' + Long)
        BY <1>1, <3>2, <4>2, EffectPublished
      <4>5. gaitLevel' = 1 /\ initTime' <= levelSince' + Horizon =>
              StartsBy(schedule', levelSince', levelSince' + Long)
        BY <2>1, <4>2, <4>4, SwingIsStart
      <4>6. initTime' # -1
        BY <2>1
      <4>7. initTime' \in (levelSince' + 1)..(levelSince' + Horizon) =>
              initTime' <= levelSince' + Horizon
        <5>1. Horizon \in Nat /\ initTime' \in Nat /\ levelSince' \in Int
          BY <2>1, <4>2, TimingIs
        <5> QED BY <5>1, Around
      <4> QED BY <2>2, <4>2, <4>3, <4>4, <4>5, <4>6, <4>7 DEF TimesInv
    <3> QED BY <2>1, <2>2, <3>1, <3>2 DEF EffectInv
  <2>4. ASSUME NEW tpl \in {StanceTemplate, TrotTemplate}, NEW start \in Nat, start >= initTime',
               InsertedAt(tpl, start)
        PROVE  EffectInv'
    <3>1. /\ gaitLevel' = 1 => template' = TrotTemplate
          /\ gaitLevel' = 0 => template' \in {StanceTemplate, DefaultTemplate}
          /\ levelSince' = initTime'
      BY <2>4 DEF InsertedAt
    <3>2. /\ PhasesIn(schedule', Bounded)
          /\ restarts = 0 =>
               /\ schedule'.events[1] <= initTime' + Long
               /\ gaitLevel' = 0 => StopsBy(schedule', initTime' + SwingTime)
               /\ gaitLevel' = 1 => StartsBy(schedule', initTime', initTime' + Long)
      BY <1>1, <2>4, EffectInserted
    <3>3. initTime' \notin (levelSince' + 1)..(levelSince' + Horizon) /\ initTime' # -1
          /\ levelSince' \in Int /\ levelSince' <= initTime'
      <4>1. Horizon \in Nat /\ initTime' \in Nat
        BY <2>1, TimingIs
      <4> QED BY <3>1, <4>1, Around
    <3>4. restarts = 0 => TimesInv'
      BY <2>2, <3>1, <3>2, <3>3 DEF TimesInv
    <3> QED BY <2>1, <2>2, <3>1, <3>2, <3>4 DEF EffectInv
  <2> QED BY <1>1, <2>3, <2>4, Iteration
<1>2. CASE Restart
  BY <1>2 DEF Restart, EffectInv, Bounded, Long, SwingTime
<1>3. CASE GaitTypeCallback
  BY <1>3 DEF GaitTypeCallback, EffectInv, TimesInv, Bounded, Long, SwingTime
<1>4. CASE UNCHANGED vars
  BY <1>4 DEF vars, EffectInv, TimesInv, Bounded, Long, SwingTime
<1> QED BY <1>1, <1>2, <1>3, <1>4 DEF Next

(* From the decision to stand, the swings end within a swing time; a       *)
(* decision to trot shows in what is published, no later than the longest  *)
(* stance phase after it.                                                  *)
THEOREM GaitsTakeEffect == Spec => []GaitTakesEffect
<1>1. ManagerInv /\ EffectInv => GaitTakesEffect
  <2> SUFFICES ASSUME ManagerInv, EffectInv, restarts = 0
               PROVE  /\ gaitLevel = 0 =>
                           \A i \in SwingPhases(schedule) : schedule.events[i] <= levelSince + SwingTime
                      /\ gaitLevel = 1 /\ initTime \in (levelSince + 1)..(levelSince + Horizon) =>
                           \E i \in SwingPhases(published) :
                             published.events[i - 1] <= levelSince + Period(DefaultTemplate)
    BY DEF GaitTakesEffect
  <2>1. ASSUME gaitLevel = 0, NEW i \in SwingPhases(schedule)
        PROVE  schedule.events[i] <= levelSince + SwingTime
    <3>1. i \in 2..Len(schedule.events) /\ schedule.modes[i] # STANCE
      BY DEF SwingPhases, STANCE, L, R, FLY
    <3> QED BY <2>1, <3>1 DEF EffectInv, TimesInv, StopsBy
  <2>2. ASSUME gaitLevel = 1, initTime \in (levelSince + 1)..(levelSince + Horizon)
        PROVE  \E i \in SwingPhases(published) :
                 published.events[i - 1] <= levelSince + Period(DefaultTemplate)
    <3>1. SwingFrom(published, levelSince, levelSince + Long) /\ levelSince \in Int
      BY <2>2 DEF EffectInv, TimesInv
    <3>2. PICK i \in 2..Len(published.events) :
            published.modes[i] # STANCE /\ published.events[i - 1] \in levelSince..(levelSince + Long)
      BY <3>1 DEF SwingFrom
    <3>3. published \in Schedules /\ WellFormed(published)
      <4>1. Len(published.events) # 0
        BY <3>2
      <4> QED BY <4>1 DEF ManagerInv, NothingPublished
    <3>4. published.modes[i] \in Mode
      <4>1. Len(published.events) \in Nat
            /\ \A k \in 1..(Len(published.events) + 1) : published.modes[k] \in Mode
        BY <3>3, ScheduleIs
      <4>2. i \in 1..(Len(published.events) + 1)
        BY <4>1
      <4> QED BY <4>1, <4>2
    <3>5. i \in SwingPhases(published)
      BY <3>2, <3>4 DEF SwingPhases, Mode
    <3>6. published.events[i - 1] <= levelSince + Period(DefaultTemplate)
      BY <3>1, <3>2, TimingIs DEF Long
    <3> QED BY <3>5, <3>6
  <2> QED BY <2>1, <2>2
<1>2. ManagerInv /\ SwingInv /\ EffectInv /\ [Next]_vars => EffectInv'
  BY EffectStep
<1> QED BY <1>1, <1>2, EffectInit, ManagerHolds, SwingHolds, PTL DEF Spec

=============================================================================
