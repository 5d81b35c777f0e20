-------------------------- MODULE LeggedController --------------------------
(***************************************************************************)
(* The controller plugin and the threads that share it:                    *)
(*   - the real-time thread of LeggedHWLoop, read -> update -> write, whose *)
(*     update() commands the joints one after the other;                   *)
(*   - the MPC thread started by setupMrt();                               *)
(*   - the ROS spinner threads that run the callbacks of /load_controller, *)
(*     /set_walk and /emergency_stop at any instant;                       *)
(*   - the controller manager, which starts, stops and unloads the plugin. *)
(* The hardware is BridgeHW: its read() refills the command of every joint *)
(* with a damping default, so a cycle without update() writes that.        *)
(***************************************************************************)
EXTENDS Naturals

CONSTANT NumJoints          \* jointDim_: 10 on the robot

ASSUME NumJointsAssumption == NumJoints \in Nat \ {0}

VARIABLES
  (* flags shared by the threads *)
  controllerRunning, mpcRunning, firstStartMpc,         \* atomic_bool
  loadControllerFlag, setWalkFlag, emergencyStopFlag,   \* plain bool
  (* controller manager *)
  state,                    \* ControllerBase::state_, or "DESTROYED"
  subscribed,               \* starting() has subscribed the callbacks once
  (* MPC thread *)
  mpcPc,
  inFlight,                 \* the solution being computed by advanceMpc()
  policy,                   \* the solution updatePolicy() would deliver
  (* real-time thread *)
  rtPc,
  j,                        \* the joint loop's counter
  solved,                   \* local mpc_updated_
  src,                      \* where optimizedState/optimizedInput come from
  regs,                     \* the racy flags as the joint loop sees them
  outside,                  \* joints measured beyond a position limit
  cmd,                      \* command of each HybridJointHandle
  written,                  \* command last sent to the motors
  (* history *)
  seen,                     \* some cycle began with emergencyStopFlag set
  readySeen,                \* this cycle began with firstStartMpc set
  loadedSinceStart          \* /load_controller came after the last start

flags   == <<controllerRunning, mpcRunning, firstStartMpc,
             loadControllerFlag, setWalkFlag, emergencyStopFlag>>
mpcVars == <<mpcPc, inFlight, policy>>
rtVars  == <<rtPc, j, solved, src, regs, outside, cmd, written>>
history == <<seen, readySeen, loadedSinceStart>>
vars    == <<flags, state, subscribed, mpcVars, rtVars, history>>

-----------------------------------------------------------------------------
Joint  == 1..NumJoints
Source == {"none", "uninit", "policy", "stance"}

(* setCommand(...) by kind. "damp" is setCommand(0, 0, 0, 1, 0); "default"  *)
(* is what BridgeHW::read leaves: no stiffness, no feed-forward.           *)
Damp      == [mode |-> "damp",    src |-> "none"]
Default   == [mode |-> "default", src |-> "none"]
Hold(s)   == [mode |-> "hold",    src |-> s]
Wbc(s)    == [mode |-> "wbc",     src |-> s]
Command   == [mode : {"damp", "default", "hold", "wbc"}, src : Source]

Passive(c)    == c.mode \in {"damp", "default"}
AllPassive(f) == \A i \in Joint : Passive(f[i])

Age(p) == IF p = "none" THEN "none" ELSE "stale"

Live == [hoisted |-> FALSE, emg |-> FALSE, load |-> FALSE]

Init ==
  /\ controllerRunning = TRUE            \* set by setupMrt() inside init()
  /\ mpcRunning = FALSE /\ firstStartMpc = FALSE
  /\ loadControllerFlag = FALSE /\ setWalkFlag = FALSE
  /\ emergencyStopFlag = FALSE
  /\ state = "INITIALIZED" /\ subscribed = FALSE
  /\ mpcPc = "top" /\ inFlight = "none" /\ policy = "none"
  /\ rtPc = "read" /\ j = 1 /\ solved = FALSE /\ src = "none"
  /\ regs = Live
  /\ outside = [i \in Joint |-> FALSE]
  /\ cmd = [i \in Joint |-> Default]
  /\ written = [i \in Joint |-> Default] \* init() sends yksSendcmdzero_
  /\ seen = FALSE /\ readySeen = FALSE /\ loadedSinceStart = FALSE

-----------------------------------------------------------------------------
(* The real-time thread: one pass of LeggedHWLoop::update().               *)

(* Mutant: read() leaves the commands of the last update() in the handles. *)
KeepCommands == cmd

DefaultCommands == [i \in Joint |-> Default]

(* BridgeHW::read: new measurements, every command back to the default.    *)
Read ==
  /\ rtPc = "read"
  /\ outside' \in [Joint -> BOOLEAN]
  /\ cmd' = DefaultCommands
  /\ seen' = (seen \/ emergencyStopFlag)
  /\ readySeen' = firstStartMpc
  /\ rtPc' = "manager"
  /\ UNCHANGED <<flags, state, subscribed, mpcVars, j, solved, src, regs,
                 written, loadedSinceStart>>

(* updateRequest(): update() runs only in state RUNNING.                   *)
SkipUpdate ==
  /\ rtPc = "manager" /\ state # "RUNNING"
  /\ rtPc' = "switch"
  /\ UNCHANGED <<flags, state, subscribed, mpcVars, j, solved, src, regs,
                 outside, cmd, written, history>>

(* update(), up to and including the test of firstStartMpc_. Without a     *)
(* solution optimizedState and optimizedInput stay uninitialised vectors.  *)
EvaluatePolicy ==
  /\ rtPc = "manager" /\ state = "RUNNING"
  /\ solved' = firstStartMpc
  /\ src' = IF firstStartMpc /\ policy # "none" THEN "policy" ELSE "uninit"
  /\ rtPc' = "reference"
  /\ UNCHANGED <<flags, state, subscribed, mpcVars, j, regs, outside, cmd,
                 written, history>>

(* The test of setWalkFlag_, the whole-body controller, and the entry of   *)
(* the joint loop. loadControllerFlag_ and emergencyStopFlag_ are plain    *)
(* bools written by other threads: the compiler may keep them in registers *)
(* for the whole loop or read them again for every joint.                  *)
ChooseReference ==
  /\ rtPc = "reference"
  /\ src' = IF setWalkFlag THEN src ELSE "stance"
  /\ \E h \in BOOLEAN :
       regs' = [hoisted |-> h,
                emg     |-> h /\ emergencyStopFlag,
                load    |-> h /\ loadControllerFlag]
  /\ j' = 1
  /\ rtPc' = "joint"
  /\ UNCHANGED <<flags, state, subscribed, mpcVars, solved, outside, cmd,
                 written, history>>

(* Mutants: a stop is not latched and only concerns the offending joint;   *)
(* /set_walk, not /load_controller, enables whole-body control.            *)
SeesOwnLimitOnly == outside[j]
SeesWalkAsLoad   == setWalkFlag

SeesStop == IF regs.hoisted THEN regs.emg  ELSE emergencyStopFlag
SeesLoad == IF regs.hoisted THEN regs.load ELSE loadControllerFlag

NextJoint ==
  \/ j < NumJoints /\ j' = j + 1 /\ UNCHANGED rtPc
  \/ j = NumJoints /\ j' = 1     /\ rtPc' = "switch"

(* One iteration of the joint loop: the position-limit check, then the     *)
(* hold or whole-body command, which an emergency stop overrides.          *)
CommandJoint ==
  LET limitHit == ~SeesStop /\ SeesLoad /\ outside[j]
      stop     == SeesStop \/ limitHit
  IN
  /\ rtPc = "joint"
  /\ emergencyStopFlag' = (emergencyStopFlag \/ limitHit)
  /\ regs' = [regs EXCEPT !.emg = regs.hoisted /\ stop]
  /\ cmd'  = [cmd EXCEPT ![j] = IF stop THEN Damp
                                ELSE IF SeesLoad THEN Wbc(src) ELSE Hold(src)]
  /\ NextJoint
  /\ UNCHANGED <<controllerRunning, mpcRunning, firstStartMpc,
                 loadControllerFlag, setWalkFlag, state, subscribed, mpcVars,
                 solved, src, outside, written, history>>

(* End of controllerManager_->update(): no pending switch request.         *)
NoSwitch ==
  /\ rtPc = "switch"
  /\ rtPc' = "write"
  /\ UNCHANGED <<flags, state, subscribed, mpcVars, j, solved, src, regs,
                 outside, cmd, written, history>>

(* Mutant: starting() trusts stopping() to have cleared mpcRunning_.       *)
StartingKeepsMpcRunning ==
  /\ rtPc = "switch" /\ state \in {"INITIALIZED", "STOPPED"}
  /\ subscribed' = TRUE
  /\ state' = "RUNNING"
  /\ policy' = Age(policy) /\ inFlight' = Age(inFlight)
  /\ loadedSinceStart' = FALSE
  /\ rtPc' = "write"
  /\ UNCHANGED <<flags, mpcPc, j, solved, src, regs, outside, cmd, written,
                 seen, readySeen>>

(* startRequest() -> starting(): mpcRunning_ is cleared, the callbacks are  *)
(* subscribed; the other flags and the MPC solution keep their values.     *)
Starting ==
  /\ rtPc = "switch" /\ state \in {"INITIALIZED", "STOPPED"}
  /\ mpcRunning' = FALSE
  /\ subscribed' = TRUE
  /\ state' = "RUNNING"
  /\ policy' = Age(policy) /\ inFlight' = Age(inFlight)
  /\ loadedSinceStart' = FALSE
  /\ rtPc' = "write"
  /\ UNCHANGED <<controllerRunning, firstStartMpc, loadControllerFlag,
                 setWalkFlag, emergencyStopFlag, mpcPc, j, solved, src, regs,
                 outside, cmd, written, seen, readySeen>>

(* stopRequest() -> stopping().                                            *)
Stopping ==
  /\ rtPc = "switch" /\ state = "RUNNING"
  /\ mpcRunning' = FALSE
  /\ state' = "STOPPED"
  /\ rtPc' = "write"
  /\ UNCHANGED <<controllerRunning, firstStartMpc, loadControllerFlag,
                 setWalkFlag, emergencyStopFlag, subscribed, mpcVars, j,
                 solved, src, regs, outside, cmd, written, history>>

(* BridgeHW::write, then the loop starts again. What the cycle kept in     *)
(* locals is gone.                                                         *)
Write ==
  /\ rtPc = "write"
  /\ written' = cmd
  /\ rtPc' = "read"
  /\ solved' = FALSE /\ src' = "none" /\ regs' = Live
  /\ outside' = [i \in Joint |-> FALSE]
  /\ UNCHANGED <<flags, state, subscribed, mpcVars, j, cmd, history>>

RtNext ==
  \/ Read \/ SkipUpdate \/ EvaluatePolicy \/ ChooseReference \/ CommandJoint
  \/ NoSwitch \/ Starting \/ Stopping \/ Write

-----------------------------------------------------------------------------
(* The MPC thread.                                                         *)

(* Mutants: the thread lives as long as the MPC is enabled; either flag    *)
(* keeps it alive.                                                         *)
MpcContinuesWhileEnabled == controllerRunning /\ mpcRunning
MpcContinuesOnEither     == controllerRunning \/ mpcRunning

MpcContinues == controllerRunning

MpcTop ==
  /\ mpcPc = "top"
  /\ mpcPc' = IF MpcContinues THEN "gate" ELSE "dead"
  /\ UNCHANGED <<flags, state, subscribed, inFlight, policy, rtVars, history>>

(* Mutant: firstStartMpc_ is raised before the first solve, not after it.   *)
MpcGateMarksFirst ==
  /\ mpcPc = "gate" /\ mpcRunning
  /\ mpcPc' = "solve" /\ inFlight' = "current"
  /\ firstStartMpc' = TRUE
  /\ UNCHANGED <<controllerRunning, mpcRunning, loadControllerFlag,
                 setWalkFlag, emergencyStopFlag, state, subscribed, policy,
                 rtVars, history>>

MpcGate ==
  /\ mpcPc = "gate"
  /\ IF mpcRunning
       THEN mpcPc' = "solve" /\ inFlight' = "current"
       ELSE mpcPc' = "top"   /\ UNCHANGED inFlight
  /\ UNCHANGED <<flags, state, subscribed, policy, rtVars, history>>

(* advanceMpc() returns: its solution is the one the next update() loads.  *)
AdvanceMpc ==
  /\ mpcPc = "solve"
  /\ policy' = inFlight /\ inFlight' = "none"
  /\ mpcPc' = "mark"
  /\ UNCHANGED <<flags, state, subscribed, rtVars, history>>

MpcMark ==
  /\ mpcPc = "mark"
  /\ firstStartMpc' = TRUE
  /\ mpcPc' = "top"
  /\ UNCHANGED <<controllerRunning, mpcRunning, loadControllerFlag,
                 setWalkFlag, emergencyStopFlag, state, subscribed, inFlight,
                 policy, rtVars, history>>

(* advanceMpc() throws: the handler ends the thread's loop and asks the    *)
(* controller to stop, which only a RUNNING controller does.               *)
MpcFail ==
  /\ mpcPc = "solve"
  /\ controllerRunning' = FALSE
  /\ inFlight' = "none"
  /\ mpcPc' = "top"
  /\ IF state = "RUNNING"
       THEN state' = "STOPPED" /\ mpcRunning' = FALSE
       ELSE UNCHANGED <<state, mpcRunning>>
  /\ UNCHANGED <<firstStartMpc, loadControllerFlag, setWalkFlag,
                 emergencyStopFlag, subscribed, policy, rtVars, history>>

MpcNext == MpcTop \/ MpcGate \/ AdvanceMpc \/ MpcMark \/ MpcFail

-----------------------------------------------------------------------------
(* ROS callbacks and the non-real-time side of the controller manager.     *)

(* The subscriptions live until the destructor has joined the MPC thread.  *)
CallbacksLive == subscribed /\ ~(state = "DESTROYED" /\ mpcPc = "dead")

LoadController ==
  /\ CallbacksLive
  /\ loadControllerFlag' = TRUE
  /\ mpcRunning' = TRUE
  /\ loadedSinceStart' = TRUE
  /\ UNCHANGED <<controllerRunning, firstStartMpc, setWalkFlag,
                 emergencyStopFlag, state, subscribed, mpcVars, rtVars, seen,
                 readySeen>>

SetWalk ==
  /\ CallbacksLive
  /\ setWalkFlag' = TRUE
  /\ UNCHANGED <<controllerRunning, mpcRunning, firstStartMpc,
                 loadControllerFlag, emergencyStopFlag, state, subscribed,
                 mpcVars, rtVars, history>>

EmergencyStop ==
  /\ CallbacksLive
  /\ emergencyStopFlag' = TRUE
  /\ UNCHANGED <<controllerRunning, mpcRunning, firstStartMpc,
                 loadControllerFlag, setWalkFlag, state, subscribed, mpcVars,
                 rtVars, history>>

(* unloadController(), allowed on a controller that does not run once the  *)
(* real-time loop has let go of the controller list, and the destructor up *)
(* to mpcThread_.join().                                                   *)
Destroy ==
  /\ state \in {"INITIALIZED", "STOPPED"} /\ rtPc = "read"
  /\ state' = "DESTROYED"
  /\ controllerRunning' = FALSE /\ mpcRunning' = FALSE
  /\ UNCHANGED <<firstStartMpc, loadControllerFlag, setWalkFlag,
                 emergencyStopFlag, subscribed, mpcVars, rtVars, history>>

EnvNext == LoadController \/ SetWalk \/ EmergencyStop \/ Destroy

-----------------------------------------------------------------------------
Next == RtNext \/ MpcNext \/ EnvNext

Spec == Init /\ [][Next]_vars

(* The real-time loop is a SCHED_FIFO thread that never blocks and the MPC *)
(* thread is a timed loop: each takes another step as long as it has one.  *)
(* Nothing is assumed of operators, callbacks or start and stop requests.  *)
FairSpec == Spec /\ WF_vars(RtNext) /\ WF_vars(MpcNext)
-----------------------------------------------------------------------------
(* Properties.                                                             *)

FlagsOK ==
  /\ controllerRunning \in BOOLEAN /\ mpcRunning \in BOOLEAN
  /\ firstStartMpc \in BOOLEAN /\ loadControllerFlag \in BOOLEAN
  /\ setWalkFlag \in BOOLEAN /\ emergencyStopFlag \in BOOLEAN

ManagerOK ==
  /\ state \in {"INITIALIZED", "RUNNING", "STOPPED", "DESTROYED"}
  /\ subscribed \in BOOLEAN

MpcOK ==
  /\ mpcPc \in {"top", "gate", "solve", "mark", "dead"}
  /\ inFlight \in {"none", "current", "stale"}
  /\ policy \in {"none", "current", "stale"}

RtOK ==
  /\ rtPc \in {"read", "manager", "reference", "joint", "switch", "write"}
  /\ j \in Joint
  /\ solved \in BOOLEAN /\ src \in Source
  /\ regs \in [hoisted : BOOLEAN, emg : BOOLEAN, load : BOOLEAN]
  /\ outside \in [Joint -> BOOLEAN]
  /\ cmd \in [Joint -> Command] /\ written \in [Joint -> Command]

HistoryOK ==
  seen \in BOOLEAN /\ readySeen \in BOOLEAN /\ loadedSinceStart \in BOOLEAN

(* The type invariant: in particular the joint loop never leaves Joint.    *)
TypeOK == FlagsOK /\ ManagerOK /\ MpcOK /\ RtOK /\ HistoryOK

CommandsReady == rtPc \in {"switch", "write"}

(* A cycle that began with the stop flag set, or any cycle after it, ends  *)
(* with every joint passive: also when the flag was set by the limit check *)
(* of the last joint, when the flags are hoisted into registers, and after *)
(* the controller has been stopped and started again.                      *)
StopIsObeyed == CommandsReady /\ seen => AllPassive(cmd)

(* Flags that change while the joint loop runs split the joints of that    *)
(* one cycle, but never so that a joint served later is driven harder: the *)
(* commands go from hold to whole-body control to damping, so no joint     *)
(* after the one that tripped the limit still gets torque.                 *)
Rank(c) == IF Passive(c) THEN 2 ELSE IF c.mode = "wbc" THEN 1 ELSE 0

SplitIsOrdered ==
  CommandsReady => \A a, b \in Joint : a < b => Rank(cmd[a]) <= Rank(cmd[b])

(* Once a cycle has begun with firstStartMpc_ set, its commands never come *)
(* from the uninitialised vectors, whatever the order of /set_walk,        *)
(* /load_controller and restarts: the flag is raised after the solution is *)
(* in the buffer and neither is ever taken back.                           *)
SolutionAwaited ==
  CommandsReady /\ readySeen => \A i \in Joint : cmd[i].src # "uninit"

(* A solution computed since the last start needs a /load_controller since *)
(* the last start, even if one arrives between stopping() and starting()   *)
(* or a solve is in flight across the restart.                             *)
SolveNeedsLoad == policy = "current" => loadedSinceStart

(* The stack implements OutputSupervisor: it arms on /load_controller, and *)
(* trips when a cycle begins with the stop flag set.                       *)
OutOf(c) == IF Passive(c) THEN "passive" ELSE c.mode

Output == INSTANCE OutputSupervisor
            WITH armed   <- loadControllerFlag,
                 tripped <- seen,
                 out     <- [i \in Joint |-> OutOf(written[i])]

ImplementsSupervisor == Output!AbsSpec

(* Both kinds of stop reach every motor. An emergency stop, from the topic *)
(* or from a position limit, stays there; a stop of the controller, asked  *)
(* by the manager or by the failing MPC thread in the middle of a cycle,   *)
(* makes the motors passive unless the controller is started again.        *)
StopsReachMotors ==
  /\ emergencyStopFlag ~> [](AllPassive(written))
  /\ (state \in {"STOPPED", "DESTROYED"}) ~>
       (AllPassive(written) \/ state = "RUNNING")

(* After /load_controller the MPC thread delivers a solution of this       *)
(* activation, unless it is stopped or its solver fails.                   *)
LoadGetsSolution ==
  mpcRunning ~> (policy = "current" \/ ~mpcRunning \/ ~controllerRunning)

(* The destructor's join() returns: the MPC thread ends even if a callback *)
(* sets mpcRunning_ again while the destructor waits.                      *)
JoinReturns == (state = "DESTROYED") ~> (mpcPc = "dead")

-----------------------------------------------------------------------------
(* The inductive invariant behind the safety properties: what each of them *)
(* needs to know about the middle of a cycle and of a solve.               *)

InLoop(i) == rtPc = "joint" /\ i \in 1..(j - 1)   \* already commanded

StopInv ==
  /\ seen => emergencyStopFlag
  /\ rtPc = "joint" /\ seen /\ regs.hoisted => regs.emg
  /\ rtPc = "joint" /\ regs.emg => emergencyStopFlag
  /\ rtPc \in {"manager", "reference"} => cmd = DefaultCommands
  /\ \A i \in Joint : InLoop(i) /\ seen => Passive(cmd[i])

SplitInv ==
  /\ \A i \in Joint : InLoop(i) /\ Passive(cmd[i]) => SeesStop
  /\ \A i \in Joint : InLoop(i) /\ cmd[i].mode = "wbc" => SeesLoad
  /\ \A a, b \in Joint : a < b /\ InLoop(b) => Rank(cmd[a]) <= Rank(cmd[b])

SolutionInv ==
  /\ mpcPc = "solve" => inFlight # "none"
  /\ mpcPc = "mark" \/ firstStartMpc => policy # "none"
  /\ readySeen => firstStartMpc
  /\ rtPc \in {"reference", "joint"} /\ readySeen => src # "uninit"
  /\ \A i \in Joint : InLoop(i) /\ readySeen => cmd[i].src # "uninit"

LoadInv ==
  /\ mpcRunning \/ inFlight = "current" => loadedSinceStart
  /\ regs.load => loadControllerFlag
  /\ \A i \in Joint : cmd[i].mode = "wbc" => loadControllerFlag

(* At every point between two steps of any thread the four facts above     *)
(* hold together with the properties they support.                         *)
IInv ==
  /\ StopInv /\ StopIsObeyed
  /\ SplitInv /\ SplitIsOrdered
  /\ SolutionInv /\ SolutionAwaited
  /\ LoadInv /\ SolveNeedsLoad
=============================================================================
