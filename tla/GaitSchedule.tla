---------------------------- MODULE GaitSchedule ----------------------------
(***************************************************************************)
(* The algorithms of class GaitSchedule on mode schedules. A schedule has  *)
(* n event times and n + 1 modes: modes[i] is active from events[i - 1]    *)
(* (excluded) to events[i] (included), modes[1] before the first event and *)
(* modes[n + 1] after the last. A template has k + 1 switching times for   *)
(* its k modes. Times are integers in a unit the constants share.          *)
(***************************************************************************)
EXTENDS Integers, Sequences

CONSTANT TransitionStance   \* phaseTransitionStanceTime_

ASSUME TransitionAssumption == TransitionStance \in Nat

STANCE == 3                 \* enum ModeNumber
L      == 2
R      == 1
FLY    == 0
Mode   == {STANCE, L, R, FLY}

Back(s) == s[Len(s)]        \* back()

(* std::lower_bound on event times: the first index not before time t.     *)
LowerBound(s, t) ==
  CHOOSE i \in 1..(Len(s) + 1) :
    /\ \A k \in 1..(i - 1) : s[k] < t
    /\ i <= Len(s) => s[i] >= t

(* ocs2::ModeSchedule::modeAtTime.                                         *)
ModeAt(s, t) == s.modes[LowerBound(s.events, t)]

(* What a template may be: loading an empty one throws.                    *)
Templates == {tpl \in [times : Seq(Int), modes : Seq(Mode)] :
                /\ Len(tpl.modes) > 0 /\ Len(tpl.times) = Len(tpl.modes) + 1
                /\ \A i \in 1..Len(tpl.modes) : tpl.times[i] < tpl.times[i + 1]}

Period(tpl) == Back(tpl.times) - tpl.times[1]

(* Mutant: the last, partial repetition is left out.                       *)
RepetitionsRoundedDown(tpl, start, final) ==
  IF final <= start THEN 0 ELSE (final - start) \div Period(tpl)

(* How often the while loop of tileModeSequenceTemplate appends the whole  *)
(* template: until the last event reaches the final time.                  *)
Repetitions(tpl, start, final) ==
  IF final <= start THEN 0
  ELSE (final - start + Period(tpl) - 1) \div Period(tpl)

(* The throw of tileModeSequenceTemplate.                                  *)
TilingThrows(s, tpl, start) ==
  Len(tpl.modes) > 0 /\ Len(s.events) > 0 /\ start <= Back(s.events)

(* tileModeSequenceTemplate: the events and modes it pushes, in one go.    *)
Tile(s, tpl, start, final) ==
  LET k == Len(tpl.modes)
      n == Repetitions(tpl, start, final) * k
      Event(i) == start + ((i - 1) \div k) * Period(tpl)
                        + tpl.times[((i - 1) % k) + 2] - tpl.times[1]
  IN IF k = 0 THEN s
     ELSE [events |-> Append(s.events, start) \o [i \in 1..n |-> Event(i)],
           modes  |-> Append(s.modes \o [i \in 1..n |-> tpl.modes[((i - 1) % k) + 1]],
                             STANCE)]

(* Mutant: the event found by the lower bound stays.                       *)
CutAtOneEventMore(s, start) ==
  LET index == LowerBound(s.events, start)
  IN [events |-> SubSeq(s.events, 1, index),
      modes  |-> SubSeq(s.modes, 1, index + 1)]

(* What insertModeSequenceTemplate keeps of the schedule: everything       *)
(* before the start time, the mode active then included.                   *)
CutAt(s, start) ==
  LET index == LowerBound(s.events, start)
  IN [events |-> SubSeq(s.events, 1, index - 1),
      modes  |-> SubSeq(s.modes, 1, index)]

TransitionTime(s) == IF Back(s.modes) = STANCE THEN 0 ELSE TransitionStance

WithTransition(s, start) ==
  IF TransitionTime(s) > 0
    THEN [events |-> Append(s.events, start), modes |-> Append(s.modes, STANCE)]
    ELSE s

InsertTemplate(s, tpl, start, final) ==
  LET cut == CutAt(s, start)
  IN Tile(WithTransition(cut, start), tpl, start + TransitionTime(cut), final)

InsertThrows(s, tpl, start) ==
  LET cut == CutAt(s, start)
  IN TilingThrows(WithTransition(cut, start), tpl, start + TransitionTime(cut))

(* Mutant: the event before the lower bound is forgotten too.              *)
ForgetOneMore(s, lower) ==
  LET index == LowerBound(s.events, lower)
  IN IF index > 1
       THEN [events |-> SubSeq(s.events, index, Len(s.events)),
             modes  |-> [SubSeq(s.modes, index, Len(s.modes)) EXCEPT ![1] = STANCE]]
       ELSE s

(* What getModeSchedule keeps: nothing older than the last event before    *)
(* the lower bound, with stance as the mode before that event.             *)
ForgetBefore(s, lower) ==
  LET index == LowerBound(s.events, lower) - 1
  IN IF index > 0
       THEN [events |-> SubSeq(s.events, index, Len(s.events)),
             modes  |-> [SubSeq(s.modes, index, Len(s.modes)) EXCEPT ![1] = STANCE]]
       ELSE s

(* The last event and the default stance after it, which tiling replaces.  *)
DropTail(s) ==
  [events |-> SubSeq(s.events, 1, Len(s.events) - 1),
   modes  |-> SubSeq(s.modes, 1, Len(s.modes) - 1)]

Extend(s, tpl, lower, upper) ==
  LET kept == ForgetBefore(s, lower)
  IN Tile(DropTail(kept), tpl, Back(kept.events), upper)

ExtendThrows(s, tpl, lower) ==
  LET kept == ForgetBefore(s, lower)
  IN TilingThrows(DropTail(kept), tpl, Back(kept.events))

-----------------------------------------------------------------------------
(* What the rest of the stack relies on: as many modes as intervals, time  *)
(* moving forward, and stance wherever nothing else is planned.            *)
WellFormed(s) ==
  /\ Len(s.events) >= 1
  /\ Len(s.modes) = Len(s.events) + 1
  /\ \A i \in 1..(Len(s.events) - 1) : s.events[i] < s.events[i + 1]
  /\ s.modes[1] = STANCE
  /\ s.modes[Len(s.modes)] = STANCE
=============================================================================
