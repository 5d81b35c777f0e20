---------------------- MODULE TargetTrajectories_proofs ----------------------
(***************************************************************************)
(* Node and controller agree on the gait, and a target of the present      *)
(* activation is never replaced by an older one: for all velocities,       *)
(* sessions, limits, dead times, activations, resets and restarts.         *)
(***************************************************************************)
EXTENDS TargetTrajectories, TLAPS

(* Once the node has switched, its last message is on the way or has been  *)
(* followed.                                                               *)
GaitInv ==
  switched => \/ gaitTopic = {GaitOf(isAutostance)}
              \/ gaitTopic = {} /\ gaitType = GaitOf(isAutostance)

(* The node's switch and the controller's gait stay in step, whatever is   *)
(* lost, replaced or restarted (StanceSwitchCallback, the gait subscriber).*)
THEOREM GaitCorrect == Spec => []GaitInStep
<1>1. Init => GaitInv
  BY DEF Init, GaitInv
<1>2. GaitInv /\ [Next]_vars => GaitInv'
  <2> SUFFICES ASSUME GaitInv, [Next]_vars PROVE GaitInv'
    OBVIOUS
  <2> USE DEF GaitInv
  <2>1. CASE StanceSwitchCallback
    <3>1. CASE deadTime <= 0
      BY <2>1, <3>1 DEF StanceSwitchCallback, GaitOf
    <3>2. CASE ~(deadTime <= 0)
      BY <2>1, <3>2 DEF StanceSwitchCallback, follows, GaitOf
    <3> QED BY <3>1, <3>2
  <2>2. CASE NodeRestart
    BY <2>2 DEF NodeRestart
  <2>3. CASE ReceiveGaitType
    BY <2>3 DEF ReceiveGaitType, node, GaitOf
  <2>4. CASE UNCHANGED <<gaitTopic, gaitType, isAutostance, switched>>
    BY <2>4 DEF GaitOf
  <2>5. ChangeWish \/ SendVelocity \/ SendGoal \/ PressSwitch \/ vars' = vars
          => UNCHANGED <<gaitTopic, gaitType, isAutostance, switched>>
    BY DEF ChangeWish, SendVelocity, SendGoal, PressSwitch, vars, node, fromNode, follows
  <2>6. ObservationCallback \/ CmdVelCallback \/ GoalCallback
          => UNCHANGED <<gaitTopic, gaitType, isAutostance, switched>>
    BY DEF ObservationCallback, CmdVelCallback, GoalCallback, node, fromNode, follows
  <2>7. Starting \/ Stopping \/ Estimate \/ Publish \/ ResetTarget
          \/ ReceiveVelocity \/ ReceiveTarget
          => UNCHANGED <<gaitTopic, gaitType, isAutostance, switched>>
    BY DEF Starting, Stopping, Estimate, Publish, ResetTarget, ReceiveVelocity,
           ReceiveTarget, node, fromNode, follows
  <2> QED BY <2>1, <2>2, <2>3, <2>4, <2>5, <2>6, <2>7
          DEF Next, Operator, Node, Controller
<1>3. GaitInv => GaitInStep
  BY DEF GaitInv, GaitInStep, GaitOf
<1> QED BY <1>1, <1>2, <1>3, PTL DEF Spec

-----------------------------------------------------------------------------
(* Where a time of the present activation has got to, it came by way of    *)
(* the observation: what the controller published before is gone.          *)
ObsCurrent == obs.run = run /\ \A o \in obsTopic : o.run = run
SeenCurrent == ObsCurrent /\ latest.run \in {0, run}

PastClocks ==
  /\ run \in Nat
  /\ obs.run \in 0..run /\ latest.run \in 0..run
  /\ \A o \in obsTopic : o.run \in 0..run
  /\ \A m \in targetTopic : m.run \in 0..run
  /\ target.run \in 0..run
  /\ active => run > 0
  /\ updatePc = "publish" => obs.run = run /\ run > 0

FollowsClock ==
  /\ (\E o \in obsTopic : o.run = run) => obs.run = run
  /\ latest.run = run => ObsCurrent
  /\ (\E m \in targetTopic : m.run = run) => SeenCurrent
  /\ target = Seen(run, "measured")
       => SeenCurrent /\ \A m \in targetTopic : m.run = run

ClockInv == PastClocks /\ (run > 0 => FollowsClock)

LEMMA ClockInit == Init => ClockInv
BY DEF Init, ClockInv, PastClocks, Unseen, Seen

LEMMA OperatorKeepsClock ==
  ASSUME ClockInv, Operator \/ UNCHANGED vars PROVE ClockInv'
BY DEF ClockInv, PastClocks, FollowsClock, SeenCurrent, ObsCurrent, Seen,
       Operator, ChangeWish, SendVelocity, SendGoal, PressSwitch,
       vars, toNode, fromNode, node, plant, follows

LEMMA NodeKeepsClock ==
  ASSUME ClockInv, Node PROVE ClockInv'
<1> USE DEF ClockInv, PastClocks, FollowsClock, SeenCurrent, ObsCurrent, Seen,
            plant, follows
<1>1. CASE ObservationCallback
  BY <1>1 DEF ObservationCallback, Remember, fromNode
<1>2. CASE CmdVelCallback
  <2>1. CASE NotObserved(latest)
    BY <1>2, <2>1 DEF CmdVelCallback
  <2>2. CASE ~NotObserved(latest)
    BY <1>2, <2>2 DEF CmdVelCallback, NotObserved
  <2> QED BY <2>1, <2>2
<1>3. CASE GoalCallback
  BY <1>3 DEF GoalCallback, NotObserved, node
<1>4. CASE StanceSwitchCallback
  BY <1>4 DEF StanceSwitchCallback
<1>5. CASE NodeRestart
  BY <1>5 DEF NodeRestart, fromNode, Unseen
<1> QED BY <1>1, <1>2, <1>3, <1>4, <1>5 DEF Node

LEMMA ControllerKeepsClock ==
  ASSUME ClockInv, Controller PROVE ClockInv'
<1> USE DEF ClockInv, PastClocks, FollowsClock, SeenCurrent, ObsCurrent, Seen,
            toNode, fromNode, node, plant, follows
<1>1. CASE Starting
  BY <1>1 DEF Starting, ZeroTarget
<1>2. CASE Stopping
  BY <1>2 DEF Stopping
<1>3. CASE Estimate
  BY <1>3 DEF Estimate
<1>4. CASE Publish
  BY <1>4 DEF Publish
<1>5. CASE ResetTarget
  BY <1>5 DEF ResetTarget, ZeroTarget
<1>6. CASE ReceiveVelocity \/ ReceiveGaitType
  BY <1>6 DEF ReceiveVelocity, ReceiveGaitType
<1>7. CASE ReceiveTarget
  BY <1>7 DEF ReceiveTarget
<1> QED BY <1>1, <1>2, <1>3, <1>4, <1>5, <1>6, <1>7 DEF Controller

(* A target measured in this activation is only replaced by one of its own *)
(* clock, however many activations and whatever was under way when this    *)
(* one began (starting(), ResetTargetCallback, the target subscriber).     *)
THEOREM TargetCorrect == Spec => NeverBackToOldRun
<1> DEFINE Kept == run' = run /\ target = Seen(run, "measured") => target'.run = run
<1>1. Init => ClockInv
  BY ClockInit
<1>2. ClockInv /\ [Next]_vars => ClockInv'
  BY OperatorKeepsClock, NodeKeepsClock, ControllerKeepsClock DEF Next
<1>3. ClockInv /\ [Next]_vars => [Kept]_vars
  <2> SUFFICES ASSUME ClockInv, Next, run' = run, target = Seen(run, "measured")
               PROVE  target'.run = run
    BY DEF Seen
  <2>1. target.run = run
    BY DEF Seen
  <2>2. CASE target' = target
    BY <2>1, <2>2
  <2>3. CASE Starting
    BY <2>3 DEF Starting, ClockInv, PastClocks
  <2>4. run > 0 => obs.run = run /\ \A m \in targetTopic : m.run = run
    BY DEF ClockInv, FollowsClock, SeenCurrent, ObsCurrent
  <2>5. CASE ResetTarget
    BY <2>4, <2>5 DEF ResetTarget, ZeroTarget, Seen
  <2>6. CASE ReceiveTarget
    <3>1. CASE run > 0
      BY <2>4, <2>6, <3>1 DEF ReceiveTarget
    <3>2. CASE ~(run > 0)
      BY <2>6, <3>2 DEF ReceiveTarget, ClockInv, PastClocks
    <3> QED BY <3>1, <3>2
  <2>7. Operator \/ Node => target' = target
    BY DEF Operator, ChangeWish, SendVelocity, SendGoal, PressSwitch, Node,
           ObservationCallback, CmdVelCallback, GoalCallback, StanceSwitchCallback,
           NodeRestart, follows
  <2>8. Stopping \/ Estimate \/ Publish \/ ReceiveVelocity \/ ReceiveGaitType
          => target' = target
    BY DEF Stopping, Estimate, Publish, ReceiveVelocity, ReceiveGaitType, follows
  <2> QED BY <2>2, <2>3, <2>5, <2>6, <2>7, <2>8 DEF Next, Controller
<1>4. QED
  BY <1>1, <1>2, <1>3, PTL DEF Spec, NeverBackToOldRun
=============================================================================
