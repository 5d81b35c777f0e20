----------------------------- MODULE PlanHandover -----------------------------
(***************************************************************************)
(* How a plan gets from the MPC thread to the real-time thread. Before it  *)
(* solves, the MPC thread assigns the extended mode schedule to a variable *)
(* the real-time thread reads without a lock, inserts a gait that the next *)
(* iteration will publish, and lets the swing planner hand over start and  *)
(* final times and then the events they belong to, each buffer under its   *)
(* own lock. The real-time thread takes the contact flags for its time,    *)
(* then the times, then the events, in every cycle of update().            *)
(* Which gait is asked for, and when, is left open: ReferenceManager has   *)
(* the decision. Times are in the unit of the constants.                   *)
(***************************************************************************)
EXTENDS SwingPlanner

CONSTANTS
  Horizon,                  \* finalTime - initTime of an MPC iteration
  TrotOffset,               \* trotGait inserts that long after initTime
  StanceTemplate, TrotTemplate, DefaultTemplate,
  InitialSchedule,
  MaxLag,                   \* an iteration begins at least that often
  MaxTime                   \* bound on the clock of the real-time thread

ASSUME HandoverAssumption ==
  /\ Horizon \in Nat \ {0} /\ TrotOffset \in Nat
  /\ MaxLag \in Nat \ {0} /\ MaxTime \in Nat
  /\ {StanceTemplate, TrotTemplate, DefaultTemplate} \subseteq Templates
  /\ InitialSchedule \in [events : Seq(Int), modes : Seq(Mode)]
  /\ WellFormed(InitialSchedule) /\ InitialSchedule.events[1] >= 0

(* The configuration of the robot: no foot swings in two phases of a gait  *)
(* in a row, and the robot stands in the default gait, in the gait stance  *)
(* and in the schedule at the start.                                       *)
InTurn(a, b) == \A leg \in Leg : Contact(a, leg) \/ Contact(b, leg)

ASSUME GaitAssumption ==
  /\ TransitionStance > 0
  /\ \A tpl \in {StanceTemplate, TrotTemplate, DefaultTemplate} :
       \A i \in 1..Len(tpl.modes) :
         InTurn(tpl.modes[i], tpl.modes[(i % Len(tpl.modes)) + 1])
  /\ \A s \in {StanceTemplate, DefaultTemplate, InitialSchedule} :
       \A i \in 1..Len(s.modes) : s.modes[i] = STANCE

(* The solver starts again before half of the plan is used up, and at      *)
(* least once in every phase of a gait.                                    *)
ASSUME LagAssumption ==
  /\ MaxLag <= Horizon /\ MaxLag < TransitionStance
  /\ \A tpl \in {StanceTemplate, TrotTemplate, DefaultTemplate} :
       \A i \in 1..Len(tpl.modes) : tpl.times[i + 1] - tpl.times[i] > MaxLag

VARIABLES
  (* MPC thread *)
  mpcPc,
  initTime,                 \* observation time of the iteration, -1 before it
  schedule, template,       \* GaitSchedule
  gaitLevel,
  latest,                   \* latestStanceposition_
  footholds,                \* what feetXTrajs_ to feetZTrajs_ join, by leg
  firstStartMpc,
  (* handed over *)
  published,                \* the ReferenceManager's mode schedule
  timesBuf, eventsBuf,      \* StartStopTimeBuf_, footTrajsEventsBuf_
  (* real-time thread *)
  rtPc,
  now,                      \* currentObservation_.time
  flags,                    \* cmdContactFlag
  gotTimes, answer,         \* locals of threadSaftyGetStartStopTime
  (* history *)
  timesPlan,                \* the plan timesBuf was made of
  gotPlan,                  \* the plan gotTimes was made of
  cutSwing,                 \* trotGait has inserted its trot in a swing
  sure,                     \* the last flags were not read while assigned
  lifted,                   \* when the flags of a leg turned to swing, or -1
  lasted                    \* how long the swing just over was seen, or 0

mpcVars  == <<mpcPc, initTime, schedule, template, gaitLevel, latest,
              footholds, firstStartMpc>>
handed   == <<published, timesBuf, eventsBuf>>
rtVars   == <<rtPc, now, flags, gotTimes, answer>>
planVars == <<timesPlan, gotPlan>>
seenVars == <<sure, lifted, lasted>>
vars     == <<mpcVars, handed, rtVars, planVars, cutSwing, seenVars>>

-----------------------------------------------------------------------------
Stand    == [leg \in Leg |-> TRUE]
FlagsOf(mode) == [leg \in Leg |-> Contact(mode, leg)]
NoPlan   == [events |-> <<>>, modes |-> <<FLY>>]
NoTimes  == [leg \in Leg |-> <<>>]
Garbage  == <<Never, Never>>
NoAnswer == [leg \in Leg |-> <<0, 0>>]

(* The ReferenceManager starts from a schedule without contact.            *)
Init ==
  /\ mpcPc = "idle" /\ initTime = -1
  /\ schedule = InitialSchedule /\ template = DefaultTemplate
  /\ gaitLevel = 0
  /\ latest = [leg \in Leg |-> Held(0)]
  /\ footholds = [leg \in Leg |-> <<>>]
  /\ firstStartMpc = FALSE
  /\ published = NoPlan
  /\ timesBuf = NoTimes /\ eventsBuf = <<>>
  /\ rtPc = "flags" /\ now = 0 /\ flags = Stand
  /\ gotTimes = NoTimes /\ answer = NoAnswer
  /\ timesPlan = NoPlan /\ gotPlan = NoPlan /\ cutSwing = FALSE
  /\ sure = TRUE /\ lifted = [leg \in Leg |-> -1] /\ lasted = [leg \in Leg |-> 0]

-----------------------------------------------------------------------------
(* The MPC thread.                                                         *)

(* advanceMpc takes the observation; the assignment of the extended        *)
(* schedule begins. A repeated solve from one observation is left out.     *)
BeginIteration ==
  /\ mpcPc = "idle" /\ now # initTime
  /\ initTime' = now
  /\ mpcPc' = "assign"
  /\ UNCHANGED <<schedule, template, gaitLevel, latest, footholds,
                 firstStartMpc, handed, rtVars, planVars, cutSwing, seenVars>>

(* Mutant: the gait changes at once.                                       *)
InsertNow(s, t) == t

(* findInsertModeSequenceTemplateTimer, as in ReferenceManager.            *)
InsertTimer(s, t) == s.events[LowerBound(s.events, t)]

Insert(s, tpl, start) ==
  /\ schedule' = InsertTemplate(s, tpl, start, initTime + Horizon)
  /\ template' = tpl

(* What walkGait and trotGait may do to the extended schedule s: nothing,  *)
(* change the level only, insert a gait at the next event, or insert the   *)
(* trot after TrotOffset.                                                  *)
ChangeGait(s) ==
  \/ /\ schedule' = s /\ UNCHANGED <<template, gaitLevel, cutSwing>>
  \/ /\ gaitLevel # 3 /\ gaitLevel' = 3
     /\ schedule' = s /\ UNCHANGED <<template, cutSwing>>
  \/ /\ gaitLevel # 0 /\ gaitLevel' = 0
     /\ Insert(s, StanceTemplate, InsertTimer(s, initTime))
     /\ UNCHANGED cutSwing
  \/ /\ gaitLevel # 1 /\ gaitLevel' = 1
     /\ Insert(s, TrotTemplate, InsertTimer(s, initTime))
     /\ UNCHANGED cutSwing
  \/ /\ gaitLevel # 1 /\ gaitLevel' = 1
     /\ Insert(s, TrotTemplate, initTime + TrotOffset)
     /\ cutSwing' = (cutSwing \/ ModeAt(s, initTime + TrotOffset) # STANCE)

(* The rest of modifyReferences up to the end of the planner's own work. An *)
(* exception of the planner would end the thread.                          *)
ModifyReferences ==
  /\ mpcPc = "assign"
  /\ LET s == Extend(schedule, template, initTime - Horizon, initTime + 2 * Horizon)
     IN /\ published' = s
        /\ ChangeGait(s)
        /\ latest' = LatestStance(s, latest, initTime)
        /\ footholds' = [leg \in Leg |-> Footholds(s, leg, latest'[leg], initTime)]
        /\ mpcPc' = IF SwingThrows(s) THEN "ended" ELSE "times"
  /\ UNCHANGED <<initTime, firstStartMpc, timesBuf, eventsBuf, rtVars,
                 planVars, seenVars>>

(* StartStopTimeBuf_.setBuffer, after the three buffers of splines.        *)
SetTimes ==
  /\ mpcPc = "times"
  /\ timesBuf' = StartStopTimes(published) /\ timesPlan' = published
  /\ mpcPc' = "events"
  /\ UNCHANGED <<initTime, schedule, template, gaitLevel, latest, footholds,
                 firstStartMpc, published, eventsBuf, rtVars, gotPlan,
                 cutSwing, seenVars>>

SetEvents ==
  /\ mpcPc = "events"
  /\ eventsBuf' = published.events
  /\ mpcPc' = "solve"
  /\ UNCHANGED <<initTime, schedule, template, gaitLevel, latest, footholds,
                 firstStartMpc, published, timesBuf, rtVars, planVars, cutSwing,
                 seenVars>>

(* The solver answers, and firstStartMpc_ is set.                          *)
Solved ==
  /\ mpcPc = "solve"
  /\ firstStartMpc' = TRUE
  /\ mpcPc' = "idle"
  /\ UNCHANGED <<initTime, schedule, template, gaitLevel, latest, footholds,
                 handed, rtVars, planVars, cutSwing, seenVars>>

-----------------------------------------------------------------------------
(* The real-time thread: updateStateEstimation().                          *)

(* What the history notes of the flags f of one leg at this time.          *)
Observe(f, known) ==
  /\ sure' = known
  /\ lifted' = [leg \in Leg |->
       IF f[leg] \/ ~known \/ ~sure THEN -1
       ELSE IF flags[leg] THEN now ELSE lifted[leg]]
  /\ lasted' = [leg \in Leg |->
       IF known /\ sure /\ f[leg] /\ lifted[leg] # -1 THEN now - lifted[leg] ELSE 0]

(* The commanded contact flags. Without a solution every foot stands.      *)
(* Events and modes are plain vectors: read while they are assigned, they  *)
(* give any mode.                                                          *)
ReadFlags ==
  /\ rtPc = "flags"
  /\ \/ /\ ~firstStartMpc
        /\ flags' = Stand
        /\ UNCHANGED seenVars
     \/ /\ firstStartMpc /\ mpcPc # "assign"
        /\ flags' = FlagsOf(ModeAt(published, now))
        /\ Observe(flags', TRUE)
     \/ /\ firstStartMpc /\ mpcPc = "assign"
        /\ flags' \in [Leg -> BOOLEAN]
        /\ Observe(flags', FALSE)
  /\ rtPc' = "times"
  /\ UNCHANGED <<mpcVars, handed, now, gotTimes, answer, planVars, cutSwing>>

(* threadSaftyGetStartStopTime takes the times ...                         *)
TakeTimes ==
  /\ rtPc = "times"
  /\ gotTimes' = timesBuf /\ gotPlan' = timesPlan
  /\ rtPc' = "answer"
  /\ UNCHANGED <<mpcVars, handed, now, flags, answer, timesPlan, cutSwing, seenVars>>

(* The phase of time t, at most the last event; none without events.       *)
PhaseIndex(events, t) ==
  IF LowerBound(events, t) <= Len(events) THEN LowerBound(events, t) ELSE Len(events)

(* ... and then the events, and answers for every leg. An index outside    *)
(* the times reads memory that is not the vector's.                        *)
TakeEvents ==
  /\ rtPc = "answer"
  /\ LET p == PhaseIndex(eventsBuf, now)
     IN answer' = [leg \in Leg |->
          IF gotTimes[leg] = <<>> THEN <<now, now>>
          ELSE IF p \in DOMAIN gotTimes[leg] THEN gotTimes[leg][p]
          ELSE Garbage]
  /\ gotTimes' = NoTimes /\ gotPlan' = NoPlan
  /\ rtPc' = "tick"
  /\ UNCHANGED <<mpcVars, handed, now, flags, timesPlan, cutSwing, seenVars>>

(* The rest of the cycle: the next observation carries the next time. The  *)
(* solver keeps up once it has started. The estimator keeps the answer, but *)
(* what it would do with it is never called.                               *)
Tick ==
  /\ rtPc = "tick" /\ now < MaxTime
  /\ initTime # -1 => now + 1 - initTime <= MaxLag
  /\ now' = now + 1
  /\ answer' = NoAnswer
  /\ rtPc' = "flags"
  /\ UNCHANGED <<mpcVars, handed, flags, gotTimes, planVars, cutSwing, seenVars>>

Mpc == BeginIteration \/ ModifyReferences \/ SetTimes \/ SetEvents \/ Solved
RealTime == ReadFlags \/ TakeTimes \/ TakeEvents \/ Tick
Next == Mpc \/ RealTime

Spec == Init /\ [][Next]_vars

-----------------------------------------------------------------------------
(* Properties.                                                             *)

SwingTime ==
  Lowest({TrotTemplate.times[i + 1] - TrotTemplate.times[i] :
            i \in 1..Len(TrotTemplate.modes)})

(* However gaits change while the real-time thread reads, each swing its   *)
(* contact flags show lasts its full time, but for the delay of one        *)
(* iteration with which a new gait is published; a swing that a change of  *)
(* gait takes back was not shown longer than that delay. Only trotGait's   *)
(* insertion in the middle of a swing breaks this, and a transition stance *)
(* so short that two iterations begin with it (LagAssumption).             *)
SwingsSeenWhole ==
  cutSwing \/ \A leg \in Leg :
    lasted[leg] \in 1..(SwingTime - 1) =>
      lasted[leg] <= MaxLag \/ lasted[leg] >= SwingTime - MaxLag

(* A handover may fall between the two reads or the two writes, any number *)
(* of plans apart. What the estimator is told of a leg is still the whole  *)
(* of one standing or swing of the plan the times were made of: the leg    *)
(* does not change within it, and it changes at both ends or the plan ends *)
(* there. It is the one around now as long as that plan counts as many     *)
(* events before now as the events taken do; if the one has forgotten more *)
(* events than the other, it is the one of the time with the same count.   *)
ContactAt(s, leg, t) == Contact(ModeAt(s, t), leg)

WholePhase(s, leg, a, b) ==
  /\ \A t \in (a + 1)..b : ContactAt(s, leg, t) = ContactAt(s, leg, b)
  /\ a = s.events[1]    \/ ContactAt(s, leg, a) # ContactAt(s, leg, b)
  /\ b = Back(s.events) \/ ContactAt(s, leg, b + 1) # ContactAt(s, leg, b)

(* Now, and the times at which plan s counts as many events.               *)
CountedAlike(s) ==
  {t \in {now} \cup 0..Back(s.events) : PhaseIndex(s.events, t) = PhaseIndex(eventsBuf, now)}

PlanAroundNow ==
  [][rtPc = "answer" /\ rtPc' = "tick" /\ gotPlan # NoPlan /\ eventsBuf # <<>> =>
       LET alike == CountedAlike(gotPlan)
       IN alike # {} => \A leg \in Leg :
            LET a == answer'[leg][1]
                b == answer'[leg][2]
            IN /\ WholePhase(gotPlan, leg, a, b)
               /\ \A t \in alike : gotPlan.events[1] < t => a < t /\ t <= b]_vars

(* A foot is planned to step off where it stands: each phase of a leg      *)
(* begins at the foothold the phase before it ends at.                     *)
FootholdsJoin ==
  \A leg \in Leg : \A p \in 1..(Len(footholds[leg]) - 1) :
    footholds[leg][p][2] = footholds[leg][p + 1][1]

(* While a leg swings, no later plan moves the point it stepped off: what  *)
(* the planner remembers of the feet is only renewed on the ground. Of a   *)
(* foot that comes down and lifts again between two iterations it does not *)
(* learn: the leg must have stood for MaxLag before the swing.             *)
PhaseAfterNow(s) == LowerBound(s.events, initTime + 1)

StoodBefore(s, leg, p) ==
  LET start == StartIndex(ContactFlags(s, leg), p)
  IN \A k \in 1..start :
       ~Contact(s.modes[k], leg) => s.events[k] + MaxLag <= s.events[start]

SameSwing(s, r, leg) ==
  LET p == PhaseAfterNow(s)
      q == PhaseAfterNow(r)
  IN /\ s.events # <<>>
     /\ ~Contact(s.modes[p], leg) /\ ~Contact(r.modes[q], leg)
     /\ s.events[StartIndex(ContactFlags(s, leg), p)]
          = r.events[StartIndex(ContactFlags(r, leg), q)]
     /\ StoodBefore(s, leg, p)

StepOffFixed ==
  [][mpcPc = "assign" /\ mpcPc' = "times" =>
       \A leg \in Leg : SameSwing(published, published', leg) =>
         footholds'[leg][PhaseAfterNow(published')][1]
           = footholds[leg][PhaseAfterNow(published)][1]]_vars

(* LegLogic and the planner find a leg's phases by different algorithms    *)
(* and agree: where the planner's interval is bounded by changes on both   *)
(* sides, the phase elapsed and its duration are those of the interval,    *)
(* the other phase is none except at the boundary, and the interval ends   *)
(* at the next lift-off or touch-down.                                     *)
Inner(f, p) == \E q \in 1..(p - 1), r \in (p + 1)..Len(f) : f[q] # f[p] /\ f[r] # f[p]

LegLogicAgrees ==
  mpcPc = "times" =>
    \A leg \in Leg, t \in {initTime, initTime + Horizon} :
      LET f == ContactFlags(published, leg)
          p == PhaseIndex(published.events, t)
          interval == StartStopTimes(published)[leg][p]
          flag == f[p]
      IN Inner(f, p) =>
           /\ PhasePerLeg(published, leg, flag, t)
                = [elapsed |-> t - interval[1], duration |-> interval[2] - interval[1]]
           /\ t < interval[2] => PhasePerLeg(published, leg, ~flag, t) = NoPhase
           /\ t < interval[2] =>
                interval[2] = IF flag THEN NextLiftOff(published, leg, t)
                                      ELSE NextTouchDown(published, leg, t)
=============================================================================
