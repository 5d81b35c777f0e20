-------------------------- MODULE ReferenceManager --------------------------
(***************************************************************************)
(* SwitchedModelReferenceManager: before every MPC iteration it extends    *)
(* the gait schedule, publishes a copy to the solver and the controller,   *)
(* and only then decides, from the averaged speed and the gait type chosen *)
(* by the operator, whether to insert another gait. The published schedule *)
(* therefore learns of a gait change one iteration late.                   *)
(* Speeds are in cm/s and times in the unit of the constants.              *)
(***************************************************************************)
EXTENDS GaitSchedule, FiniteSets

CONSTANTS
  Horizon,                  \* finalTime - initTime of an MPC iteration
  FirstTimes,               \* observation time of the first iteration
  MpcSteps,                 \* possible times between two MPC iterations
  TrotOffset,               \* trotGait inserts that long after initTime
  StanceTemplate, TrotTemplate, DefaultTemplate,
  InitialSchedule,
  Speeds,                   \* samples of velAbs_
  VelWindow,                \* samples averaged: 50 in the code
  MaxTime,                  \* bound on the MPC clock
  MaxRestarts               \* bound on the restarts of the controller

ASSUME ManagerAssumption ==
  /\ Horizon \in Nat /\ TrotOffset \in Nat
  /\ FirstTimes \subseteq Nat /\ MpcSteps \subseteq Nat \ {0}
  /\ {StanceTemplate, TrotTemplate, DefaultTemplate} \subseteq Templates
  /\ InitialSchedule \in [events : Seq(Int), modes : Seq(Mode)]
  /\ WellFormed(InitialSchedule)

(* The configuration of the robot: a foot leaves the ground in a trot only. *)
ASSUME SwingAssumption ==
  /\ \A tpl \in {StanceTemplate, DefaultTemplate} :
       \A i \in 1..Len(tpl.modes) : tpl.modes[i] = STANCE
  /\ \A i \in 1..Len(InitialSchedule.modes) : InitialSchedule.modes[i] = STANCE

(* Its times: the phases of the trot are equally long, and no other phase, *)
(* delay or first event is longer than the default template.               *)
ASSUME TimingAssumption ==
  LET swing == TrotTemplate.times[2] - TrotTemplate.times[1]
      long  == Period(DefaultTemplate)
  IN /\ \A i \in 1..Len(TrotTemplate.modes) :
          /\ TrotTemplate.modes[i] # STANCE
          /\ TrotTemplate.times[i + 1] - TrotTemplate.times[i] = swing
     /\ swing + TransitionStance <= long /\ TrotOffset + TransitionStance <= long
     /\ Period(StanceTemplate) <= long /\ long <= 2 * Horizon
     /\ InitialSchedule.events[1] <= long
     /\ \A i \in 2..Len(InitialSchedule.events) :
          InitialSchedule.events[i] - InitialSchedule.events[i - 1] <= long

VARIABLES
  initTime,                 \* time of the last MPC iteration, -1 before it
  schedule, template,       \* GaitSchedule: modeSchedule_, modeSequenceTemplate_
  published,                \* the ReferenceManager's active mode schedule
  gaitType, gaitLevel,
  velAbsHistory,            \* newest sample first
  threw,                    \* tileModeSequenceTemplate has thrown
  (* history *)
  insertTime,               \* where the last iteration inserted, -1 if nowhere
  levelSince,               \* time of the last change of gaitLevel
  cutSwing,                 \* trotGait has inserted its trot in a swing
  restarts                  \* how often the clock has started again

vars == <<initTime, schedule, template, published, gaitType, gaitLevel,
          velAbsHistory, threw, insertTime, levelSince, cutSwing, restarts>>

-----------------------------------------------------------------------------
(* ocs2::ModeSchedule's default, with which the ReferenceManager starts:   *)
(* both feet in the air for ever.                                          *)
NothingPublished == [events |-> <<>>, modes |-> <<FLY>>]

Init ==
  /\ initTime = -1
  /\ schedule = InitialSchedule /\ template = DefaultTemplate
  /\ published = NothingPublished
  /\ gaitType = 0 /\ gaitLevel = 0
  /\ velAbsHistory = <<>>
  /\ threw = FALSE
  /\ insertTime = -1 /\ levelSince = 0 /\ cutSwing = FALSE
  /\ restarts = 0

(* The callback of /gait_type; the operator's node sends 0 or 2.           *)
GaitTypeCallback ==
  /\ gaitType' \in {0, 2}
  /\ UNCHANGED <<initTime, schedule, template, published, gaitLevel,
                 velAbsHistory, threw, insertTime, levelSince, cutSwing, restarts>>

(* LeggedController::starting() restarts the clock of the observations;    *)
(* nothing of the reference manager or of the gait schedule is reset.      *)
Restart ==
  /\ initTime # -1 /\ restarts < MaxRestarts
  /\ restarts' = restarts + 1
  /\ initTime' = -1
  /\ UNCHANGED <<schedule, template, published, gaitType, gaitLevel,
                 velAbsHistory, threw, insertTime, levelSince, cutSwing>>

(* calculateVelAbs: the newest samples, at most VelWindow of them.         *)
PushSample(h, v) == SubSeq(<<v>> \o h, 1, IF Len(h) < VelWindow THEN Len(h) + 1
                                          ELSE VelWindow)

SumOf(h) == LET f[i \in 0..Len(h)] == IF i = 0 THEN 0 ELSE f[i - 1] + h[i]
            IN f[Len(h)]

(* The tests of walkGait on velAvg_ = SumOf(h) / Len(h). Between 2 and 3   *)
(* cm/s nothing is decided.                                                *)
Slow(h)    == SumOf(h) <= 2 * Len(h)
Walking(h) == SumOf(h) > 3 * Len(h) /\ SumOf(h) < 40 * Len(h)
Fast(h)    == SumOf(h) >= 40 * Len(h)

(* Mutants: the gait changes at once, or at the last event, instead of at  *)
(* the next one.                                                           *)
InsertNow(s, t)      == t
InsertLast(s, t)     == Back(s.events)

(* findInsertModeSequenceTemplateTimer: the next event from time t on.     *)
InsertTimer(s, t) == s.events[LowerBound(s.events, t)]

Insert(s, tpl, start, final) ==
  /\ schedule'   = InsertTemplate(s, tpl, start, final)
  /\ threw'      = InsertThrows(s, tpl, start)
  /\ template'   = tpl
  /\ insertTime' = start

KeepGait(s) ==
  /\ schedule' = s
  /\ insertTime' = -1
  /\ UNCHANGED <<template, threw>>

SetLevel(level, t) ==
  /\ gaitLevel'  = level
  /\ levelSince' = IF level = gaitLevel THEN levelSince ELSE t

(* walkGait on the extended schedule s. In the fast range it only changes  *)
(* the level.                                                              *)
WalkGait(s, h, t) ==
  \/ /\ Slow(h) /\ gaitLevel # 0
     /\ Insert(s, StanceTemplate, InsertTimer(s, t), t + Horizon)
     /\ SetLevel(0, t)
     /\ UNCHANGED cutSwing
  \/ /\ Walking(h) /\ gaitLevel # 1
     /\ Insert(s, TrotTemplate, InsertTimer(s, t), t + Horizon)
     /\ SetLevel(1, t)
     /\ UNCHANGED cutSwing
  \/ /\ Fast(h) /\ gaitLevel # 3
     /\ KeepGait(s)
     /\ SetLevel(3, t)
     /\ UNCHANGED cutSwing
  \/ /\ Slow(h) => gaitLevel = 0
     /\ Walking(h) => gaitLevel = 1
     /\ Fast(h) => gaitLevel = 3
     /\ KeepGait(s)
     /\ UNCHANGED <<gaitLevel, levelSince, cutSwing>>

(* trotGait: trot after TrotOffset, wherever in a phase that falls.        *)
TrotGait(s, t) ==
  \/ /\ gaitLevel # 1
     /\ Insert(s, TrotTemplate, t + TrotOffset, t + Horizon)
     /\ SetLevel(1, t)
     /\ cutSwing' = (cutSwing \/ ModeAt(s, t + TrotOffset) # STANCE)
  \/ /\ gaitLevel = 1
     /\ KeepGait(s)
     /\ UNCHANGED <<gaitLevel, levelSince, cutSwing>>

(* One MPC iteration: modifyReferences at the next observation time. If    *)
(* extending the schedule throws, the iteration ends there.                *)
ModifyReferences ==
  \E v \in Speeds, t \in IF initTime = -1 THEN FirstTimes
                         ELSE {initTime + dt : dt \in MpcSteps} :
    LET lower == t - Horizon
        s     == Extend(schedule, template, lower, t + 2 * Horizon)
        h     == PushSample(velAbsHistory, v)
    IN
    /\ ~threw /\ t <= MaxTime
    /\ initTime' = t
    /\ IF ExtendThrows(schedule, template, lower)
         THEN /\ threw' = TRUE
              /\ UNCHANGED <<schedule, template, published, gaitLevel,
                             velAbsHistory, insertTime, levelSince, cutSwing>>
         ELSE /\ published' = s
              /\ velAbsHistory' = h
              /\ IF gaitType = 0 THEN WalkGait(s, h, t) ELSE TrotGait(s, t)
    /\ UNCHANGED <<gaitType, restarts>>

Next == GaitTypeCallback \/ Restart \/ ModifyReferences

Spec == Init /\ [][Next]_vars

-----------------------------------------------------------------------------
(* Properties.                                                             *)

(* However gaits are inserted, extended and forgotten, in phase or not, and *)
(* across restarts of the clock, the schedule kept and, from the first     *)
(* iteration on, the one published have increasing event times, one mode   *)
(* per interval and stance at both ends, and tiling never throws.          *)
SchedulesWellFormed ==
  /\ WellFormed(schedule)
  /\ WellFormed(published) \/ (published = NothingPublished /\ initTime = -1)
  /\ ~threw

(* The solver's horizon never runs past the planned events.                *)
HorizonCovered ==
  initTime # -1 => Back(published.events) >= initTime + 2 * Horizon

SwingPhases(s) == {i \in 2..Len(s.events) : s.modes[i] \in {L, R, FLY}}
PhaseTime(s, i) == s.events[i] - s.events[i - 1]
SwingTime == CHOOSE d \in 1..Period(TrotTemplate) :
               /\ \E i \in 1..Len(TrotTemplate.modes) :
                    d = TrotTemplate.times[i + 1] - TrotTemplate.times[i]
               /\ \A i \in 1..Len(TrotTemplate.modes) :
                    d <= TrotTemplate.times[i + 1] - TrotTemplate.times[i]

(* Every planned swing lasts its full time, whenever gaits change, unless  *)
(* trotGait has inserted its trot in the middle of a swing: it alone does  *)
(* not wait for the next event.                                            *)
SwingsFullLength ==
  cutSwing \/ \A i \in SwingPhases(published) :
                PhaseTime(published, i) >= SwingTime

(* The operator's gait takes effect in time. A decision to stand is        *)
(* carried out within one swing; a decision to trot at the end of the      *)
(* stance phase that was running, the longest of which is the default      *)
(* template's: the first schedule published after it shows the trot.       *)
GaitTakesEffect ==
  restarts = 0 =>
    /\ gaitLevel = 0 =>
         \A i \in SwingPhases(schedule) : schedule.events[i] <= levelSince + SwingTime
    /\ gaitLevel = 1 /\ initTime \in (levelSince + 1)..(levelSince + Horizon) =>
         \E i \in SwingPhases(published) :
           published.events[i - 1] <= levelSince + Period(DefaultTemplate)

(* From one published schedule to the next nothing already planned changes *)
(* before the point where the last iteration inserted a gait, and that     *)
(* point is never in the past.                                             *)
PlanKept ==
  [][ModifyReferences /\ initTime # -1 =>
       LET until == IF insertTime = -1 THEN Back(published.events)
                    ELSE insertTime
       IN /\ insertTime # -1 => insertTime >= initTime
          /\ \A t \in (initTime' - Horizon)..until :
               t <= Back(published.events) =>
                 ModeAt(published', t) = ModeAt(published, t)]_vars
=============================================================================
