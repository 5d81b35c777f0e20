----------------------------- MODULE SwingPlanner -----------------------------
(***************************************************************************)
(* What SwingTrajectoryPlanner::update makes of a mode schedule: for every *)
(* leg and phase the times at which the leg's uninterrupted contact or     *)
(* swing begins and ends, and the footholds its trajectory joins. LegLogic *)
(* answers the same questions of time by an algorithm of its own. Legs 3   *)
(* and 4 of the code have the flags of legs 1 and 2.                       *)
(***************************************************************************)
EXTENDS GaitSchedule

Leg   == {1, 2}
Never == -1                 \* NaN for a time

(* modeNumber2StanceLeg: is the leg in contact?                            *)
Contact(mode, leg) == mode = STANCE \/ mode = (IF leg = 1 THEN L ELSE R)

(* extractContactFlags for one leg.                                        *)
ContactFlags(s, leg) == [p \in 1..Len(s.modes) |-> Contact(s.modes[p], leg)]

Highest(S) == CHOOSE x \in S : \A y \in S : y <= x
Lowest(S)  == CHOOSE x \in S : \A y \in S : x <= y

(* Mutant: the event before the change.                                    *)
StartIndexEarly(flags, p) ==
  LET before == {q \in 1..(p - 1) : flags[q] # flags[p]}
  IN IF before = {} \/ Highest(before) = 1 THEN 1 ELSE Highest(before) - 1

(* findIndex: the events at which the leg's state of phase p began and     *)
(* ends, the first and the last event when the schedule does not say.      *)
StartIndex(flags, p) ==
  LET before == {q \in 1..(p - 1) : flags[q] # flags[p]}
  IN IF before = {} THEN 1 ELSE Highest(before)

FinalIndex(flags, p) ==
  LET after == {q \in (p + 1)..Len(flags) : flags[q] # flags[p]}
  IN IF after = {} THEN Len(flags) - 1 ELSE Lowest(after) - 1

(* startStopTime_ of one plan, a pair for every phase.                     *)
StartStopTimes(s) ==
  [leg \in Leg |->
     LET flags == ContactFlags(s, leg)
     IN [p \in 1..Len(s.modes) |->
           <<s.events[StartIndex(flags, p)], s.events[FinalIndex(flags, p)]>>]]

(* The throw of checkThatIndicesAreValid in some phase of swing.           *)
SwingThrows(s) ==
  \E leg \in Leg, p \in 1..Len(s.modes) :
    LET flags == ContactFlags(s, leg)
    IN ~flags[p] /\ (StartIndex(flags, p) < 1 \/ FinalIndex(flags, p) >= Len(s.modes))

-----------------------------------------------------------------------------
(* Footholds: where a foot stood at the time of an iteration, or where it  *)
(* is planned to step down at the end of a swing.                          *)
Held(t)   == [at |-> t, planned |-> FALSE]
Step(t)   == [at |-> t, planned |-> TRUE]

(* The mode just after time t: modeAtTime(initTime + 0.001).               *)
ModeAfter(s, t) == s.modes[LowerBound(s.events, t + 1)]

(* Mutant: the foot's position is taken over in swing as well.             *)
LatestAlways(s, latest, t) == [leg \in Leg |-> Held(t)]

(* latestStanceposition_: the feet on the ground are where they are now.   *)
LatestStance(s, latest, t) ==
  [leg \in Leg |-> IF Contact(ModeAfter(s, t), leg) THEN Held(t) ELSE latest[leg]]

(* The loop of update() over the phases of a leg: which foothold the phase *)
(* starts from and which it ends at. A swing that ends after now and has   *)
(* not been entered yet plans the next step; a later phase of the same     *)
(* swing must not plan another.                                            *)
PlanStep(s, flags, t, c, p) ==
  LET f == FinalIndex(flags, p)
  IN IF ~flags[p] /\ t < s.events[f] /\ f > c.final
       THEN [last |-> c.next, next |-> Step(s.events[f]), final |-> f]
       ELSE c

Chain(s, leg, latest, t) ==
  LET loop[p \in 0..Len(s.modes)] ==
        IF p = 0 THEN [last |-> latest, next |-> latest, final |-> 1]
        ELSE PlanStep(s, ContactFlags(s, leg), t, loop[p - 1], p)
  IN loop

(* Mutant: every phase of a swing plans a step of its own.                 *)
FootholdsPerPhase(s, leg, latest, t) ==
  LET flags == ContactFlags(s, leg)
      from(p) == IF p = 1 \/ flags[p - 1] THEN latest ELSE Step(s.events[p - 1])
  IN [p \in 1..Len(s.modes) |->
        IF flags[p] THEN <<latest, latest>> ELSE <<from(p), Step(s.events[p])>>]

Footholds(s, leg, latest, t) ==
  LET flags == ContactFlags(s, leg)
      chain == Chain(s, leg, latest, t)
  IN [p \in 1..Len(s.modes) |->
        IF flags[p] THEN <<chain[p].next, chain[p].next>>
                    ELSE <<chain[p].last, chain[p].next>>]

-----------------------------------------------------------------------------
(* LegLogic. extractContactTimings and extractSwingTimings differ in the   *)
(* flag they collect: the maximal runs of phases with that flag, in order. *)
RunStarts(flags, flag) ==
  {p \in 1..Len(flags) : flags[p] = flag /\ (p = 1 \/ flags[p - 1] # flag)}

RunEnd(flags, p) ==
  Lowest({q \in p..Len(flags) : q = Len(flags) \/ flags[q + 1] # flags[p]})

(* Mutant: the end of a run is the end of its first phase.                 *)
TimingFirstPhase(s, flags, p) ==
  [start |-> IF p = 1 THEN Never ELSE s.events[p - 1],
   end   |-> IF p = Len(flags) THEN Never ELSE s.events[p]]

Timing(s, flags, p) ==
  [start |-> IF p = 1 THEN Never ELSE s.events[p - 1],
   end   |-> IF RunEnd(flags, p) = Len(flags) THEN Never
             ELSE s.events[RunEnd(flags, p)]]

Timings(s, leg, flag) ==
  LET flags == ContactFlags(s, leg)
  IN {Timing(s, flags, p) : p \in RunStarts(flags, flag)}

(* getContactPhasePerLeg and getSwingPhasePerLeg: the phase is a fraction,  *)
(* elapsed out of duration; -1 with no duration when there is none. The    *)
(* first run of the schedule counts as finished, the last as not begun.    *)
(* Comparisons with NaN are false, so a run without start and end is none. *)
NoPhase     == [elapsed |-> -1, duration |-> Never]
PhaseBefore == [elapsed |-> 1, duration |-> Never]
PhaseAfter  == [elapsed |-> 0, duration |-> Never]

PhasePerLeg(s, leg, flag, t) ==
  LET timings == Timings(s, leg, flag)
      within  == {r \in timings : r.start # Never /\ r.end # Never
                                  /\ r.start <= t /\ t <= r.end}
      first   == {r \in within : \A q \in within : r.start <= q.start}
  IN IF \E r \in timings : r.start = Never /\ r.end # Never /\ t <= r.end
       THEN PhaseBefore
     ELSE IF \E r \in timings : r.end = Never /\ r.start # Never /\ t >= r.start
       THEN PhaseAfter
     ELSE IF within = {} THEN NoPhase
     ELSE LET r == CHOOSE r \in first : TRUE
          IN [elapsed |-> t - r.start, duration |-> r.end - r.start]

(* getTimeOfNextLiftOff and getTimeOfNextTouchDown on contact timings.     *)
NextLiftOff(s, leg, t) ==
  LET later == {r.end : r \in {q \in Timings(s, leg, TRUE) : q.end > t}}
  IN IF later = {} THEN Never ELSE Lowest(later)

NextTouchDown(s, leg, t) ==
  LET later == {r.start : r \in {q \in Timings(s, leg, TRUE) : q.start > t}}
  IN IF later = {} THEN Never ELSE Lowest(later)
=============================================================================
