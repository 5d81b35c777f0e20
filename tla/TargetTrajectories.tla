-------------------------- MODULE TargetTrajectories --------------------------
(***************************************************************************)
(* The operator's commands on their way to the controller. The target node *)
(* (TargetTrajectoriesPublisher) handles observations, velocities, goals   *)
(* and presses of the stance switch in any order, one callback at a time,  *)
(* and publishes a limited velocity, a gait type and target trajectories.  *)
(* Every topic keeps one message: a newer one replaces it. The controller  *)
(* is activated several times; each activation starts its clock again,     *)
(* while the node keeps the last observation it has seen.                  *)
(* Of a time only the activation it was read in is kept, of a state only   *)
(* whether it is measured or the zero state of starting() and              *)
(* ResetTargetCallback(). Velocities are one axis, in units of the limit's *)
(* resolution.                                                             *)
(***************************************************************************)
EXTENDS Integers, FiniteSets

CONSTANTS
  Commands,                 \* velocities the operator asks for
  Sessions,                 \* what operators use together, a set of sets of
                            \* "stick", "goal" and "switch": it bounds a run
  Limit,                    \* changeLimit_ of the axis
  DeadTime,                 \* deadTimeforswitch_ after a press: 100
  MaxRun,                   \* bound on the activations of the controller
  MaxReset,                 \* bound on the resets of the target
  MaxRestart                \* bound on the restarts of the node

ASSUME TargetAssumption ==
  /\ Commands \subseteq Int /\ 0 \in Commands
  /\ \A devices \in Sessions : devices \subseteq {"stick", "goal", "switch"}
  /\ Limit \in Nat \ {0} /\ DeadTime \in Nat
  /\ {MaxRun, MaxReset, MaxRestart} \subseteq Nat

VARIABLES
  devices,                  \* the session of this behaviour
  wish,                     \* what the operator's stick says
  (* topics: the set of the one message kept, or of none *)
  obsTopic, velTopic, goalTopic, pressTopic,      \* to the node
  filteredTopic, gaitTopic, targetTopic,          \* to the controller
  (* target node *)
  latest,                   \* latestObservation_
  lastVel, deadTime, isAutostance,
  (* controller *)
  active, run,              \* between starting() and stopping(), how often
  updatePc,
  obs,                      \* currentObservation_
  velCmdIn, gaitType, target,
  (* bounds and history *)
  resets, restarts,
  switched                  \* this node has published a gait type

toNode  == <<obsTopic, velTopic, goalTopic, pressTopic>>
fromNode == <<filteredTopic, gaitTopic, targetTopic>>
node    == <<latest, lastVel, deadTime, isAutostance>>
plant   == <<active, run, updatePc, obs>>
follows == <<velCmdIn, gaitType, target>>
counts  == <<resets, restarts>>
vars    == <<devices, wish, toNode, fromNode, node, plant, follows, counts, switched>>

-----------------------------------------------------------------------------
(* An observation or the start of a target: the activation whose clock its *)
(* time is from, 0 for the time 0.0, and where the state comes from.       *)
Seen(r, s) == [run |-> r, state |-> s]
Unseen     == Seen(0, "zero")

Init ==
  /\ devices \in Sessions /\ wish = 0
  /\ obsTopic = {} /\ velTopic = {} /\ goalTopic = FALSE /\ pressTopic = FALSE
  /\ filteredTopic = {} /\ gaitTopic = {} /\ targetTopic = {}
  /\ latest = Unseen /\ lastVel = 0 /\ deadTime = 0 /\ isAutostance = FALSE
  /\ active = FALSE /\ run = 0 /\ updatePc = "estimate" /\ obs = Unseen
  /\ velCmdIn = 0 /\ gaitType = 0 /\ target = Unseen
  /\ resets = 0 /\ restarts = 0 /\ switched = FALSE

-----------------------------------------------------------------------------
(* The operator.                                                           *)

ChangeWish ==
  /\ "stick" \in devices /\ wish' \in Commands
  /\ UNCHANGED <<devices, toNode, fromNode, node, plant, follows, counts, switched>>

SendVelocity ==
  /\ "stick" \in devices /\ velTopic' = {wish}
  /\ UNCHANGED <<devices, wish, obsTopic, goalTopic, pressTopic, fromNode, node, plant,
                 follows, counts, switched>>

SendGoal ==
  /\ "goal" \in devices /\ goalTopic' = TRUE
  /\ UNCHANGED <<devices, wish, obsTopic, velTopic, pressTopic, fromNode, node, plant,
                 follows, counts, switched>>

PressSwitch ==
  /\ "switch" \in devices /\ pressTopic' = TRUE
  /\ UNCHANGED <<devices, wish, obsTopic, velTopic, goalTopic, fromNode, node, plant,
                 follows, counts, switched>>

-----------------------------------------------------------------------------
(* The node's callbacks.                                                   *)

(* Mutant: an observation whose time went back is taken for an old one.    *)
RememberNewer(o) == IF latest.run \in {0, o.run} THEN o ELSE latest

Remember(o) == o

ObservationCallback ==
  /\ \E o \in obsTopic : latest' = Remember(o)
  /\ obsTopic' = {}
  /\ deadTime' = IF deadTime > 0 THEN deadTime - 1 ELSE 0
  /\ UNCHANGED <<devices, wish, velTopic, goalTopic, pressTopic, fromNode, lastVel,
                 isAutostance, plant, follows, counts, switched>>

(* Mutant: a step always takes the whole limit.                            *)
WholeSteps(from, to) == IF to > from THEN from + Limit
                        ELSE IF to < from THEN from - Limit ELSE from

(* One step of at most the limit towards the command.                      *)
Towards(from, to) ==
  IF to > from
    THEN from + (IF to - from < Limit THEN to - from ELSE Limit)
    ELSE from + (IF to - from > -Limit THEN to - from ELSE -Limit)

(* latestObservation_.time == 0.0                                          *)
NotObserved(o) == o.run = 0

CmdVelCallback ==
  /\ velTopic # {} /\ velTopic' = {}
  /\ IF NotObserved(latest)
       THEN UNCHANGED <<lastVel, filteredTopic, targetTopic>>
       ELSE /\ \E v \in velTopic : lastVel' = Towards(lastVel, v)
            /\ filteredTopic' = {lastVel'}
            /\ targetTopic' = {latest}
  /\ UNCHANGED <<devices, wish, obsTopic, goalTopic, pressTopic, gaitTopic, latest,
                 deadTime, isAutostance, plant, follows, counts, switched>>

(* A goal is dropped when its frame is unknown.                            *)
GoalCallback ==
  /\ goalTopic
  /\ goalTopic' = FALSE
  /\ \/ UNCHANGED targetTopic
     \/ ~NotObserved(latest) /\ targetTopic' = {latest}
  /\ UNCHANGED <<devices, wish, obsTopic, velTopic, pressTopic, filteredTopic, gaitTopic,
                 node, plant, follows, counts, switched>>

(* Mutant: the message tells the state before the switch.                  *)
GaitBefore(autostance) == IF autostance THEN 2 ELSE 0

GaitOf(autostance) == IF autostance THEN 0 ELSE 2

(* isRunning_ is never set.                                                *)
StanceSwitchCallback ==
  /\ pressTopic
  /\ pressTopic' = FALSE
  /\ IF deadTime <= 0
       THEN /\ isAutostance' = ~isAutostance
            /\ gaitTopic' = {GaitOf(isAutostance')}
            /\ switched' = TRUE
       ELSE UNCHANGED <<isAutostance, gaitTopic, switched>>
  /\ deadTime' = DeadTime
  /\ UNCHANGED <<devices, wish, obsTopic, velTopic, goalTopic, filteredTopic, targetTopic,
                 latest, lastVel, plant, follows, counts>>

(* The node is started again: nothing of its state is kept, what it had    *)
(* published may still arrive or not.                                      *)
NodeRestart ==
  /\ restarts < MaxRestart /\ restarts' = restarts + 1
  /\ latest' = Unseen /\ lastVel' = 0 /\ deadTime' = 0 /\ isAutostance' = FALSE
  /\ obsTopic' = {} /\ velTopic' = {}
  /\ goalTopic' = FALSE /\ pressTopic' = FALSE
  /\ \/ UNCHANGED fromNode
     \/ filteredTopic' = {} /\ gaitTopic' = {} /\ targetTopic' = {}
  /\ switched' = FALSE
  /\ UNCHANGED <<devices, wish, plant, follows, resets>>

-----------------------------------------------------------------------------
(* The controller.                                                         *)

(* Mutant: the zero target begins at time 0.                               *)
ZeroTargetAtZero(o) == Unseen

(* The single target of starting() and ResetTargetCallback: the zero state *)
(* at whatever time the observation has, after a restart still that of the *)
(* activation before.                                                      *)
ZeroTarget(o) == Seen(o.run, "zero")

Starting ==
  /\ ~active /\ run < MaxRun
  /\ active' = TRUE /\ run' = run + 1 /\ updatePc' = "estimate"
  /\ obs' = Seen(obs.run, "zero")
  /\ target' = ZeroTarget(obs)
  /\ UNCHANGED <<devices, wish, toNode, fromNode, node, velCmdIn, gaitType, counts, switched>>

Stopping ==
  /\ active /\ updatePc = "estimate" /\ run < MaxRun
  /\ active' = FALSE
  /\ UNCHANGED <<devices, wish, toNode, fromNode, node, run, updatePc, obs, follows,
                 counts, switched>>

(* update(): the estimator writes the observation ...                      *)
Estimate ==
  /\ active /\ updatePc = "estimate"
  /\ obs' = Seen(run, "measured")
  /\ updatePc' = "publish"
  /\ UNCHANGED <<devices, wish, toNode, fromNode, node, active, run, follows, counts, switched>>

(* ... and at the end of update() it is published.                         *)
Publish ==
  /\ updatePc = "publish"
  /\ obsTopic' = {obs}
  /\ updatePc' = "estimate"
  /\ UNCHANGED <<devices, wish, velTopic, goalTopic, pressTopic, fromNode, node, active,
                 run, obs, follows, counts, switched>>

(* ResetTargetCallback, from a spinner thread between any two steps.       *)
ResetTarget ==
  /\ run > 0 /\ resets < MaxReset /\ resets' = resets + 1
  /\ obs' = Seen(obs.run, "zero")
  /\ target' = ZeroTarget(obs)
  /\ UNCHANGED <<devices, wish, toNode, fromNode, node, active, run, updatePc, velCmdIn,
                 gaitType, restarts, switched>>

ReceiveVelocity ==
  /\ \E m \in filteredTopic : velCmdIn' = m
  /\ filteredTopic' = {}
  /\ UNCHANGED <<devices, wish, toNode, gaitTopic, targetTopic, node, plant, gaitType,
                 target, counts, switched>>

ReceiveGaitType ==
  /\ \E m \in gaitTopic : gaitType' = m
  /\ gaitTopic' = {}
  /\ UNCHANGED <<devices, wish, toNode, filteredTopic, targetTopic, node, plant, velCmdIn,
                 target, counts, switched>>

(* RosReferenceManager: the buffered target is taken over.                 *)
ReceiveTarget ==
  /\ \E m \in targetTopic : target' = m
  /\ targetTopic' = {}
  /\ UNCHANGED <<devices, wish, toNode, filteredTopic, gaitTopic, node, plant, velCmdIn,
                 gaitType, counts, switched>>

-----------------------------------------------------------------------------
Operator == ChangeWish \/ SendVelocity \/ SendGoal \/ PressSwitch
Node == ObservationCallback \/ CmdVelCallback \/ GoalCallback
        \/ StanceSwitchCallback \/ NodeRestart
Controller == Starting \/ Stopping \/ Estimate \/ Publish \/ ResetTarget
              \/ ReceiveVelocity \/ ReceiveGaitType \/ ReceiveTarget

Next == Operator \/ Node \/ Controller

Spec == Init /\ [][Next]_vars

(* The velocity is sent all the time (README.md:117), an active controller *)
(* is updated all the time, and ros::spin serves every topic in turn.      *)
Fairness ==
  /\ WF_vars(SendVelocity)
  /\ WF_vars(Estimate) /\ WF_vars(Publish)
  /\ WF_vars(ObservationCallback) /\ WF_vars(CmdVelCallback)
  /\ WF_vars(ReceiveVelocity) /\ WF_vars(ReceiveTarget) /\ WF_vars(ReceiveGaitType)

FairSpec == Spec /\ Fairness

-----------------------------------------------------------------------------
(* Properties.                                                             *)

(* Once the node has switched and its last message has arrived, node and   *)
(* controller mean the same gait, however presses, lost messages and       *)
(* restarts interleave. A node just started does not know the gait.        *)
GaitInStep ==
  switched /\ gaitTopic = {} => gaitType = (IF isAutostance THEN 0 ELSE 2)

(* A target that starts from a measured state of the present activation is *)
(* never replaced by one an earlier clock stamped, whatever was under way  *)
(* when the activation began. The zero target of a reset may still be.     *)
NeverBackToOldRun ==
  [][run' = run /\ target = Seen(run, "measured") => target'.run = run]_vars

(* However long the way, a velocity the operator keeps asking for is what  *)
(* the controller ends up with, exactly and for good.                      *)
VelocityArrives ==
  \A v \in Commands :
    <>[](wish = v /\ active /\ "stick" \in devices) => <>[](velCmdIn = v)

(* A controller that stays active follows in the end targets of its own    *)
(* clock that start from a measured state, after every reset and restart.  *)
TargetCatchesUp ==
  <>[](active /\ "stick" \in devices) => <>[](target = Seen(run, "measured"))
=============================================================================
