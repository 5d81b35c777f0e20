# Verification of hunter_bipedal_control

TLA+ models of the control stack of the Hunter biped: the controller plugin and
its threads, the gait schedule and reference manager, the EtherCAT master, the
network port below it, the exchange of frames with the motors, their bit layout,
the console that queues motor commands, the planner of swings and the hand-over
of its plans, the node that turns operator commands into targets, and the two
simulated robots. TLC checks every module on a small instance, and TLAPS
proves every safety property that the runs check, for every value of the constants
that the named assumptions allow.

Paths below are relative to the repository; `APP` stands for
`legged_examples/legged_bridge/legged_bridge_hw/app`.

    tlc -workers 2 -config LeggedController.cfg LeggedController.tla
    tlapm LeggedController_proofs.tla

`PROJECT.json` lists the runs, a mutation of the model that breaks each
property, the source lines behind each definition, the hazards and the theorems.

## 1. Inventory of the system

The robot runs two processes that matter here. The *hardware node*
(`legged_bridge_hw`) holds the EtherCAT master and a real-time loop that calls,
every period, `BridgeHW::read`, the controller manager's `update` and
`BridgeHW::write`. The controller plugin `LeggedController` lives in the same
process, with an MPC thread of its own and ROS callbacks on spinner threads. The
*target node* (`TargetTrajectoriesPublisher`) turns operator commands into target
trajectories. In simulation Gazebo or MuJoCo takes the place of the hardware.

| component | state it keeps | operations | interacts with | what is hard | what makes it correct |
|---|---|---|---|---|---|
| Controller plugin `legged_controllers/src/LeggedController.cpp` | flags `controllerRunning_`, `mpcRunning_`, `firstStartMpc_`, `loadControllerFlag_`, `setWalkFlag_`, `emergencyStopFlag_`; the observation; `optimizedState`, `optimizedInput`; the joint commands | `init`, `starting`, `stopping`, `update`, destructor, body of the MPC thread, ROS callbacks | real-time loop (calls), MPC solver (thread), operator (topics), reference manager | plain bools read and written by three kinds of threads; a restart that resets one flag of six; an MPC thread that dies of an exception; a destructor that joins it | a stop is obeyed within one cycle and for ever, a cycle split by a flag change is safe, no command from uninitialised vectors once a solution was announced, join returns |
| Real-time loop `legged_hw/src/LeggedHWLoop.cpp`, `BridgeHW.cpp`, `legged_bridge_hw.cpp` | `loopRunning_`, last time, joint data | constructor starts the thread, `update` per period, destructor | controller manager, EtherCAT master | `init`'s result is ignored | read, update, write in this order; a skipped update commands the default of `read()` |
| Gait schedule `legged_interface/src/gait/GaitSchedule.cpp` | event times and modes; the current template | `insertModeSequenceTemplate`, `getModeSchedule`, `tileModeSequenceTemplate` | reference manager only | indices before, at and after existing events; long series of insertions | strictly growing times, one mode more than events, the horizon covered, no exception, no cut swing |
| Reference manager `legged_interface/src/SwitchedModelReferenceManager.cpp` | gait level, gait type, window of speeds, buffers | `modifyReferences` per MPC iteration, gait-type callback | gait schedule, swing planner, operator | schedule published one iteration late; two gait regimes; jumps of the speed; restart of the clock | plans already published are kept, stance and trot take effect in time, the level tells the truth |
| EtherCAT master `APP/transmit.cpp` | slave table, working counter, error counters, `inOP`, `docheckstate` | `EtherCAT_Init`, `run_ethercat`, `EtherCAT_Get_State`, `EtherCAT_Send_Command`, `EtherCAT_Command_Set`, thread `ecatcheck` | bus, real-time loop, check thread, console | check thread created before the bus; slaves that fail, vanish and come back during recovery; retries | the check thread keeps off slaves being configured, never stops watching a failed one, and recovery succeeds |
| Network port `APP/thirdparty/soem/oshw/linux/nicdrv.c` | sixteen indices with a buffer and a state each, the socket, two mutexes | `getindex`, `outframe`, `inframe`, `waitinframe`, `srconfirm`, `setbufstat` | control loop and check thread, slaves | states of buffers tested without the mutex, lost and late frames, datagrams sent again, each thread reading the other one's answers | an index shared only when there is no other, no other request's answer while there is room, the control loop never held up |
| Feedback and commands of a cycle `APP/transmit.cpp`, `BridgeHW.cpp` | process image, the shared table `rv_motor_msg`, `motorDate_recv`, `imuData_recv` | decode six frames a slave, copy to the joints, pack ten commands | bus, frames | lost datagrams, missing frames, two legs decoded into one table | a joint never gets another joint's angle or command, and a leg's drives hold one cycle's commands |
| Motor frames `APP/motor_control.c` | eight bytes and a length per channel | pack control, position, speed, current, acceleration, linkage; unpack answers | master, console | saturation, scaling to 9, 12 and 16 bits, bytes shared by fields, early returns | what the drive decodes is what was asked for |
| Console and queues `APP/command.cpp`, `queue.h`, `main.cpp` | one bounded queue per slave | `sendToQueue`, `EtherCAT_Command_Set` | operator, task thread | a full queue while the other thread makes room | order, exactly once, never lost, the console returns |
| Gait timing queries `gait/LegLogic.cpp`, `Gait.cpp` | none | contact and swing phases of a leg over a schedule | no thread calls them | phases that leave the schedule at either end | the phases are those the swing planner finds |
| Swing planner `foot_planner/SwingTrajectoryPlanner.cpp` | start and final times, feet positions, splines | `update`, thread-safe getters | reference manager, controller thread | two buffers set and read one after the other; footholds kept from plan to plan while the schedule changes | what a reader is told is a whole phase, and the one around now when times and events count alike; footholds join, a swinging foot's step-off point stays |
| Target node `legged_controllers/.../TargetTrajectoriesPublisher` | last observation and velocity, dead time, automatic stance | observation, goal, velocity and stance-switch callbacks | operator, controller | commands in any order, topics of length one, clocks that start again, a restart of the node | node and controller mean the same gait, no target of an old clock comes back, the velocity asked for arrives |
| State estimation `legged_estimation/src` | filter state, contact flags | `update`, publishing; contact detection that is never called | controller | real-valued filter | out of TLC's reach |
| Gazebo hardware `legged_gazebo/src/LeggedHWSim.cpp` | a delay buffer per joint | `readSim`, `writeSim` | simulator | a reset of the world sets the clock back | the oldest command within the delay, none of an earlier run |
| MuJoCo bridge `mujoco/src/main.cc`, `legged_mujoco` | last state and command messages with their stamps | physics thread, LCM threads, `read`, `write` | simulator, controller | unacknowledged messages, loads and restarts | never an older message, never deaf after a restart |
| Whole-body control, optimal control problem, inverse kinematics, splines | last input | QP, costs, constraints | solver | real-valued numerics | out of TLC's reach |
| Visualisation, GUI, generated and vendored code, `SafetyChecker` | | | | | not part of the core; `SafetyChecker` is built and never called |

The behaviours that are hard to test are the entries of `hazards` in
`PROJECT.json`, each at its line with the properties that cover it, or why none does.

## 2. Plan

Modules in the order of importance.

| order | module | composed with | abstract specification | status |
|---|---|---|---|---|
| 1 | `LeggedController` | `OutputSupervisor` (INSTANCE) | `OutputSupervisor` | checked and proved |
| 2 | `ReferenceManager` | `GaitSchedule` (EXTENDS), `MCReferenceManager` | properties of plans | checked and proved |
| 3 | `EtherCATMaster` | | | checked, types and both invariants proved |
| 4 | `CommandQueue` | | | checked, both invariants proved |
| 5 | `MotorBus` | | | checked and proved |
| 6 | `MotorFrames` | `MCMotorFrames` | decoding as the drive does | checked and proved |
| 7 | `TargetTrajectories` | `MCTargetTrajectories` | | checked, both safety properties proved |
| 8 | `SwingPlanner`, `PlanHandover` | `GaitSchedule`, `MCPlanHandover` | `LegLogic`'s phases for the planner's | checked and proved |
| 9 | `EtherCATPort` | | | checked, both safety invariants proved |
| 10 | `DelayedCommands`, `LcmBridge` | `MCSimulators` | | checked and proved |

`PlanHandover` is the composition of the reference manager, the planner and the
real-time thread that the plan began with; contact detection, once planned, is
left out because nothing calls it (section 7).

Every safety property of the passing runs is a theorem (section 5). Two things are
left: liveness, which the prover cannot reach and TLC checks, and a refinement
that would tie the decisions of `ReferenceManager` to the open choice `ChangeGait`
of `PlanHandover`.

## 3. The modules

### LeggedController and OutputSupervisor

Three groups of steps interleave. The real-time thread goes through `rtPc`:
`Read` (defaults of `BridgeHW::read`), `SkipUpdate` when no controller runs or
`EvaluatePolicy` (the test of `firstStartMpc_` and the MRT update),
`ChooseReference` (walk or stance), one `CommandJoint` per joint with the limit
check, the hold branch, the whole-body branch and the emergency override in
their order, then the controller manager's switch (`Starting`, `Stopping`,
`NoSwitch`) and `Write`. The MPC thread's loop is `MpcTop`, `MpcGate`
(`mpcRunning_`), `AdvanceMpc`, `MpcMark` (`firstStartMpc_ = true`) and `MpcFail`.
The environment is `LoadController`, `SetWalk`, `EmergencyStop` and `Destroy`.

The flags are plain `bool`s and the loop reads them once per joint, which a
compiler may turn into once per cycle. `regs` models it: `ChooseReference`
chooses whether the values are hoisted. `optimizedState` and `optimizedInput`
without `evaluatePolicy` are uninitialised; a command carries where it came from
(`src`: uninitialised, policy or stance), never numbers. `setWalkFlag_` before
the first solution really makes the whole-body controller work on uninitialised
vectors: `SolutionAwaited` says that this ends with the first solution.

`OutputSupervisor` is what the stack promises of a joint: what reaches a motor
is passive unless armed, and once tripped it becomes passive and stays so.
`ImplementsSupervisor` is the refinement.

*Fairness.* `WF` on the real-time thread (a periodic loop that never blocks on
the others) and on the MPC thread (it sleeps a bounded time and calls the
solver; that the solver returns or throws is an assumption). Nothing is assumed
of the operator.

### GaitSchedule and ReferenceManager

`GaitSchedule` has the code's functions on a schedule as constant operators:
`InsertTemplate` (cut, transition stance, tiling), `Extend` (`getModeSchedule`)
and the conditions under which they throw or index beyond the end. Times are
integers; the code only adds, subtracts and compares them. `ReferenceManager` is one action per
MPC iteration (`ModifyReferences`, in the code's order: publish, average, insert),
the gait-type callback, and a `Restart` that moves the clock back and resets
nothing else. The window of speeds is a sequence; thresholds are tested on the
sum, in hundredths. `MCReferenceManager` gives the templates and the initial
schedule in a unit of about 0.07 s, in which swing, stance, horizon and default
template keep roughly the ratios 0.3 : 0.5 : 0.8 : 1.0 of the configuration. The schedule inserted in an
iteration is only published by the next one; the properties are about both.

Three assumptions on the configuration, each with its own use. `ManagerAssumption`
says no more than that gaits are gaits: times of each template increase, the
initial schedule is well formed. `SwingAssumption`, that feet leave the ground in
the trot only: `reference.info` starts and continues in STANCE, and `walkGait` and
`trotGait` insert no other gait than `stance` and `trot` of `gait.info`.
`TimingAssumption`, the order of its times: the phases of the trot are equal (0.3)
and, like trotGait's 0.2, with the transition stance (0.1) not longer than the
default template (1.0), nor is `stance` (0.5) or the first event (0.5), and that is
not longer than two horizons (2 * 0.8). Without it a standing phase may last longer
than any bound on when a gait takes effect could say.

### EtherCATMaster

`rt` is the thread that initialises the bus and then becomes the control loop,
`check` the check thread, which exists from the start. The state a slave is in
(`al`) and what the table says of it (`state`) are two variables: faults change
the first, `ec_readstate`, `ec_statecheck` and the recovery calls the second.
A successful `run_ethercat` asks for the state of all slaves at once and looks at
the answer for slave 0 only (`APP/transmit.cpp:120`): the list keeps what it held
when each slave was configured (`ListIs`), until the first pass of the check thread
has read it. `QuietMeansOperational` is therefore about passes: one that ends
without asking for another has seen every slave operational. A failed one reads
each slave, unless there was no socket; then nothing changes.

`Fault` takes a slave from operation to safe-operational, to an error or off the
bus, at any point; `ComesBack` returns it, with or without its address. The calls
of SOEM are translated from `ethercatmain.c` and `ethercatconfig.c` as far as
their outcomes differ: the broadcast with which `ec_readstate` asks all slaves at
once, the temporary address of `ec_recover_slave`, and for each call a datagram
that is lost (`OneMoreFault`, which also counts the faults of slaves).

`Recovers` names the two states this recovery does not leave (`Stranded`). When
every slave has lost its address, the broadcast is still answered, by all and in
one state, so the table gets that state, the check thread tries to reconfigure
slaves that do not hear it, and none is ever marked lost. When the datagram that
gives a slave its address back is lost, `ec_recover_slave` returns -1, which
`ecatcheck` takes for success; the slave keeps the temporary address, which later
calls take for a foreign one, until another slave is readdressed. Without either
disjunct of `Stranded`, TLC finds `Recovers` violated.

*Fairness.* `WF` on both threads (periodic, no blocking call without timeout) and
on a slave's return, and `SF` on one outcome of a library call: a slave that is
there and is reconfigured again and again reaches SAFE_OP at some time. Without
it a slave may refuse for ever, and nothing in the code could help. Lost
datagrams are bounded like faults, so nothing is assumed about them.

### CommandQueue

`sendToQueue` step by step in the console's thread against one pop per cycle and
slave in the task thread. Commands are numbered in the order typed.

*Fairness.* `WF` on the task thread and on the console while it is inside
`sendToQueue`; nothing obliges the operator to type.

### MotorBus

One cycle of the robot: `Receive` (the datagram arrives or not, a slave reports
some frames), `DecodeLeg` and `DecodeImu` per slave as the loop of
`EtherCAT_Get_State` does, `Control`, and `Send` with the channel map that leaves
the channel after the first `GapAfter` motors (two on the robot) free. The datagram
that carries the outputs may be lost before any slave, behind the first or on its
way back: `drives` is what each leg's drives hold, `taken` whether every slave took
the last outputs, and `complete`, the working counter the code compares, needs all
slaves both to take their outputs and to answer. The result of
`ec_send_processdata` is not looked at (`APP/transmit.cpp:510`), so the legs may
hold commands of different cycles; `CommandsTogether` says what is left: never
within a leg, and not after a complete cycle. A value is where and when it was measured. A frame is of
a kind (state, current, one that ends the decoding, none): what the decoder does
with each, not its bits. The table `msg` is shared by the legs and only its
angles are cleared.

### MotorFrames

The packing functions byte by byte: saturation in the functions' units (hundredths
or tenths, so that limits are integers), scaling with truncation, masks and shifts
as quotients and remainders. The properties decode the bytes as the drive's layout
(given by the union and comments of the code) says and compare with the request.
`MCMotorFrames` supplies requests at and beyond the limits and at the bit
boundaries.

### SwingPlanner and PlanHandover

`SwingPlanner` is what `SwingTrajectoryPlanner::update` makes of a schedule:
`StartIndex` and `FinalIndex` (`findIndex`), the pairs of times per leg and phase,
the error thrown when a swing has no end, and the chain of footholds with
`latestStanceposition_`. `LegLogic`'s functions stand beside them. A foothold is
where a foot stood at some time, or where a step planned to end at some time
lands; where that is in metres is left out.

`PlanHandover` adds the two threads. The MPC thread goes through
`BeginIteration`, `ModifyReferences` (publish the extended schedule, insert a gait
or not, plan), `SetTimes`, `SetEvents` and `Solved`; the real-time thread through
`ReadFlags`, `TakeTimes`, `TakeEvents` and `Tick`. The published schedule is a
plain vector without a lock: read while it is assigned it gives any flags. Each
of the two buffers has its lock, but nothing holds them together: the reader can
get the times of one plan and the events of another, one plan older or up to two
newer. `gotPlan` remembers which plan the times were made of. The answer is then a
whole phase of that plan, but not always the one around now: the index counts the
events before now, and plans that have forgotten different numbers of events, or
have a gait inserted between, count differently. `PlanAroundNow` says this for every
handover: the answer is a whole standing or swing of the leg, bounded by changes of
the leg or by the ends of the plan, and it lies around every time at which
`gotPlan` counts as many events as the events taken count before now
(`CountedAlike`), now included if they count alike. TLC finds answers
that do not contain now (a leg is told of a standing that has ended), so no stronger
promise can be made of this code. Before the first plan's events are there the
index is -1 and lies outside the times (`Garbage`); once there are events TLC finds
no such reading in the bounds of the run, and no empty `CountedAlike`.

Which gait is inserted when is left open, because `ReferenceManager` decides it;
`cutSwing` marks the one insertion, trotGait's into a running swing, that shortens a
swing by design.

Assumed of the configuration (`GaitAssumption`): no foot swings in two phases of a
gait in a row, a transition stance takes time, and the robot stands in the gait
`stance`, by default and at the start. Assumed of the solver (`LagAssumption`): an
iteration begins at least once in each phase of a gait and in each transition
stance, and before half of the plan is used up. The MPC runs at 100 Hz
(`task.info`), the shortest of these times is 0.1 s. Nothing in the code enforces
it, and the proofs showed what depends on it. Let an iteration begin only as often
as a transition stance lasts: the trot is inserted, the level raised and the trot
inserted again at the start of one of its swings, then the stance at the end of
that transition stance. A swing that was shown is then taken back later than one
iteration. TLC finds that run only with a clock of 13 units,
beyond the bound of the run; the theorem `SwingsShownWhole` has the inequality as a
hypothesis. In the same way `StepOffFixed` speaks of a leg that stood for one
iteration before its swing (`StoodBefore`): a foot that lands and lifts between two
iterations leaves no trace in `latestStanceposition_`.

### TargetTrajectories

The node's four callbacks run one at a time (`ros::spin`); a topic keeps one
message, so each is a set of at most one element that a newer message replaces.
Each activation of the controller starts its clock again while the node keeps the
last observation it has seen; a time is the activation it was read in. What the
model found worth saying of the code:

- `starting()` stamps its target with `currentObservation_.time` before that is
  set for the new activation: the target lies in the previous run until the first
  command, and so does one the node publishes from an old observation.
- `ResetTargetCallback` runs on a spinner thread. Between the estimate and the
  publication of `update()` it sends the zero state to the node as if measured.
- The first press of the stance switch publishes the gait 0 the controller has
  anyway and changes nothing; a press during the dead time renews it, so a switch
  held down never switches again.

*Fairness.* `WF` on the callbacks (`ros::spin` serves every topic), on the update
of an active controller, and on `SendVelocity`: the repository's `README.md:117` has the joystick
node send velocities all the time. Nothing is assumed of presses and goals.

### EtherCATPort

The control loop (`rt`) and the check thread go through `GetIndex`, `OutFrame`,
`LookInBuffer`, `ReadSocket`, `Store` and `Release` on one port. The state of a
buffer is tested without the mutex; the socket is read with it, one frame per
call. The control loop sends its process data once and looks for it in the next
cycle; the check thread waits, sends again (`srconfirm`) and gives up in the end.
Frames get lost, late and out of order. What is assumed, and named:

- `Window`: the answer to a datagram is back or lost before more than that many
  indices are taken. Beyond it a late answer to a repeated datagram reaches a later
  request with the same index, which no test in the code could tell.
- A failed send (the socket's timeout is a microsecond) leaves the request waiting
  while its index counts as unused; the two properties on indices say so.

`Store` may put an answer into a buffer that was released between the test and the
store (`nicdrv.c:431`, `:437`). Its state stays `RCVD`, nobody will release it, and
the index is gone for good (`Ownerless`). Nothing in the code bounds how many are
lost this way, and nothing here does: the model goes down to the last index, after
which `ecx_getindex` takes one in use and the two threads share a buffer. TLC reaches
that state. `OneRequestPerIndex` says that it happens only then, when every other
index is in use. That answers are one's own fails earlier: the history variable
`scarce` is set when the indices with an owner, or free to get one, fall below two
for the threads and `Window` for the answers under way. With the code's sixteen
indices and a window of ten, four may be lost before that.

*Fairness.* `WF` on both threads; `SF` on the control loop's turn at the socket,
because the check thread sleeps 50 ms between its passes and so leaves the mutex
free again and again, and on its release, because the timers of waits expire.

### DelayedCommands, LcmBridge and MCSimulators

`DelayedCommands` is the delay line of `LeggedHWSim::writeSim`: every step puts the
joints' commands in front of a buffer, drops what is older than the delay at its
end and applies the oldest left. A reset of the world sets the clock back, and the
first step after it empties the buffer. `LcmBridge` is the exchange between the
simulator and the hardware node, each with a thread that keeps the newest message
by its stamp and one that takes it. Messages get lost, are doubled and overtake
others; both processes are restarted, the simulator loads a model. `MCSimulators`
chooses one of the two robots per behaviour, so that one run checks both.

Of the MuJoCo bridge a reader should know: `recvState_` has no defined content
before the first message; there is no watchdog, the last command stays in force;
`init_cmd` clears the command the model moves by but not the one that waits, so
that a command from before a load may drive the new model.

## 4. Runs

Every run finishes in about three minutes or less. State counts are distinct
states.

| run | bounds | states | shows |
|---|---|---|---|
| controller | 2 joints, fair | 242,725 | stops obeyed in every interleaving and for ever and brought to the motors, split cycles only safer, uninitialised vectors gone after the first solution, no solve without a load, a load gets its solution, the join returns; refinement of `OutputSupervisor` |
| reference | 1.6 horizons of iterations, window of 2 samples, one restart | 175,216 | schedule well formed, horizon covered, swings whole, gait decisions in time, published plans kept |
| queue | 2 slaves, queues of 3, 5 commands, fair | 3,016 | order, exactly once with room, every queued command is sent |
| queue_lost | same | violation | a full queue loses the command |
| master | 2 slaves, 1 try, 2 faults or lost datagrams, fair | 334,012 | check thread and initialisation, no pass ends quietly with a slave not operational, recovery |
| bus | 2 legs of 2 motors around the free channel, 2 cycles | 2,803,315 | which measurements reach the controller together, which cycle's commands the drives hold together |
| bus_foreign | same | violation | another leg's speed and current |
| frames | two calls into a frame | 93,675 | what the drive decodes |
| plan | swings of 4 units, transition stance of 2, an iteration every unit at least, 8 units | 433,008 | swings shown whole, answers whole phases and around now, footholds join and stay, `LegLogic` finds the same phases |
| target | velocities 0 and 3, limit 2, dead time 2, two activations, a reset, a restart of the node, fair | 378,724 | gait in step, no return to an old clock's target, the velocity arrives, targets catch up |
| port | 4 buffers, window 1, 2 sends, indices lost to the last, a failed send, fair | 520,844 | an index shared only without another, own answers while there is room, the control loop's cycle ends |
| simulators | steps of 2, delay 5, time 20, 2 resets; stamps to 7, 2 restarts or loads | 397,010 | the delay kept, no older message, nobody deaf |

*Why the bounds are enough.* Two joints give a joint before and one after any
point at which the loop is interrupted; two slaves, one being recovered while the
other fails, and two faults, what it takes to lose every slave's address or to lose
the datagram that restores one; a queue of three, empty, partly full and full, with more commands
than places. 1.6 horizons are several periods of the trot, so that insertions
fall into every phase of the templates, including those inserted earlier; the
speeds are standing, in the dead band between the thresholds, and fast, and their
averages over two samples lie in every range of `walkGait`. Two cycles are the
smallest number in which old and new measurements can meet, two motors the
smallest in which a decoder stopped in the middle leaves one and in which the
free channel lies between two. A swing of four units with an iteration every unit
lets gaits change before, in and after a swing and the reader fall between any two
writes; eight units are two swings. A limit of 2 reaches 3 in a whole and a
partial step; the second activation and the restart are one more than nothing. Four
buffers with a window of one are the fewest in which an index comes round while
its old answer is still under way, one index is lost without indices being scarce,
and three are lost so that two requests share the fourth. A delay of five with steps
of two never falls on a step. The theorems of section 5 remove the bounds for the
properties they name.

The sessions of `MCTargetTrajectories` keep the stick and goals apart from the
stance switch: they touch disjoint variables except for the observation, which
both have.

`CHECK_DEADLOCK FALSE` is set for `reference`, `plan` and `simulators` only, whose
clocks end at a bound.

## 5. Proofs

| module | theorem | property | argument |
|---|---|---|---|
| LeggedController_proofs | TypeCorrect | TypeOK | inductive by itself |
| | StopCorrect | StopIsObeyed | `StopInv`: joints already commanded in a cycle that began stopped are passive, and the flag, the register or the limit that stopped it is still set |
| | SplitCorrect | SplitIsOrdered | `SplitInv`: no joint was commanded by a rank that a later flag value forbids |
| | SolutionCorrect | SolutionAwaited | `SolutionInv`: readiness seen at the beginning of a cycle implies an evaluated policy |
| | LoadCorrect | SolveNeedsLoad | `LoadInv`: a solve in flight began after a load of this activation |
| | InvariantHolds, ImplementsCorrect | IInv, ImplementsSupervisor | the conjunction; each step maps to a step of the supervisor or a stutter |
| EtherCAT_proofs | InitUndisturbed | NoCheckDuringInit | `inOP` is false while starting, and every pass of the check thread tests it |
| | NeverUnwatched | QuietMeansOperational | slaves the pass is through with were read operational and are not lost, or keep `docheckstate` set |
| | MasterTypeCorrect | TypeOK | the counters: each is tested or reset before it passes its bound |
| | PortExclusive | OneRequestPerIndex | `SharingInv`: a thread takes an index in use only when none is unused, and an index turns unused again only by a release, after which there is but one request |
| | AnswersOwn | AnswerIsOwn | `AnswerInv`: since an index was taken, every other one but one has been taken too, or is free and comes first, or is lost (`Far`), so that while indices are not scarce it does not come round before its frames are gone; `PortInv` counts them |
| Commands_proofs | OrderKept, OnceKept | TypedOrder, OnceIfRoom | every queue is ordered, and lies after what was sent and before what is being handed over; only the console adds to a queue, so the room it saw is still there |
| | DelayHolds | DelayKept | `DelayInv`: the buffer is the unbroken sequence of steps of one run, newest first |
| | NextTaken, NeverOlderHolds | NextIsTaken, NeverOlder | `BridgeInv`: every stamp in use is at most the clock, and along each way stamps only grow |
| Motors_proofs | BusTypeCorrect, AngleCorrect, FrameCorrect, ChannelsCorrect | TypeOK, AngleIsOwn, AngleBringsSpeed, CommandsTogether | angles of the table are clear between slaves; what a leg's drives hold is what was packed for them in one cycle (`LegsTogether`), of the last one if all took it (`LastTaken`); the free channel stays empty |
| | FreshCorrect | CompleteIsFresh | `FreshInv`: the slaves the loop is through with hold this cycle's sample for every motor if all its frames came |
| | CtrlCorrect | CtrlArrives | a scaled value fits its field (`ScaleRange`), a quotient and a remainder give the value back (`Cut`, `CtrlSplit`), truncation loses less than a step (`Scaled`) |
| | RequestsCorrect | RequestsArrive | the same for each layout (`PositionSplit`, `SpeedCut`, `CurTorBits`), a refused request leaves the data of the call before |
| TargetTrajectories_proofs | GaitCorrect | GaitInStep | the gait topic holds what the switch stands for, or is empty and the controller has it |
| | TargetCorrect | NeverBackToOldRun | `ClockInv`: no time is of a later run than the present one, and once a target is measured in this run so are observation, topic and the node's memory |
| ReferenceManager_proofs | SchedulesCorrect, HorizonCorrect | SchedulesWellFormed, HorizonCovered | `ManagerInv`, from `InsertIs`, `TileWellFormed` and `ExtendIs` of `GaitSchedule_proofs` |
| | SwingsWhole | SwingsFullLength | `SwingInv`: every swing kept, published or in the template to come is full; an insertion at an event cuts none (`InsertPhases`) |
| | PlansKept | PlanKept | `PlanInv`: what is kept is what was published, or that with one insertion that is not in the past |
| | GaitsTakeEffect | GaitTakesEffect | `EffectInv`: no phase is longer than the default template, so the event at which a gait begins is near; from it on the schedule only has phases of that gait |
| PlanHandover_proofs | FootholdsMeet | FootholdsJoin | `HandoverInv`: footholds are those of the published plan at the time of its iteration; in each, feet take turns, so a swing is one phase (`SwingAlone`) and the chain moves once per swing (`PhaseSteps`) |
| | PlanIsAround | PlanAroundNow | the same invariant: the times a reader takes are those of one published plan that reaches beyond now (`BuffersInv`); the interval of a phase holds one state of the leg and ends where that changes (`IntervalIs`, `AroundTime`), whatever plan the index came from |
| | StepOffStays | StepOffFixed | the two plans differ behind the swing only, and neither has an earlier swing that would move its start |
| | LegLogicFits | LegLogicAgrees | the runs `LegLogic` collects are the planner's interval and others that end before or begin after it |
| | SwingsShownWhole | SwingsSeenWhole | `SeenInv`, below |

The invariants of the runs are not inductive: `StopIsObeyed` for instance speaks
of the end of a cycle, and its strengthening says what must hold in the middle of
the loop. Type invariants and strengthenings are proved, and not run by TLC.

The theorems about schedules hold for schedules and templates of any length. The
library's induction theorems cannot be used (they take an operator), so the lemmas
of `GaitSchedule_proofs` argue by the smallest counterexample: `Least`, from the
well-foundedness of the naturals, gives the first index at which a claim fails,
and the one before it gives the contradiction. `RisesFar` (times that rise from each
to the next rise altogether), `TileEventIs` and `RepetitionsIs` (what tiling
appends, with quotient and remainder), and the loop of the planner (`ChainIs`,
`ChainStates`) are proved this way; `InsertIs` and `ExtendIs` then say what the
code's two operations leave, keep and append, and everything above them is one
step per action.

`SeenInv` is the invariant behind `SwingsSeenWhole`. It relates three things that are
never compared in the code: the published plan, the schedule kept for the next one,
and what the flags have shown. Plan and kept schedule have the same swings up to a
time at which no foot is in the middle of a swing (`SameUntil`), because a gait
begins at an event or while the robot stands. A leg seen to stand, which the plan
has swinging, has just lifted or is late for good (`SeenDown`). A leg seen to swing
is in a swing that no plan can take back, or in one that just began (`SeenUp`), or
its swing was taken back within an iteration (`TakenBack`). `sure` excludes a reading
during the assignment, after which nothing can be said of the swing under way.

The proofs assume what the modules name: at least one joint
(`NumJointsAssumption`), at least one slave, one try and a maximum of errors below
the period (`MasterAssumption`), positive sizes (the assumptions of `CommandQueue`
and `MotorBus`), requests of integers with the right fields (`CtrlAssumption`) or
within the documented ranges where a function does not limit them itself
(`RequestsAssumption`), a positive limit (`TargetAssumption`), more buffers
than the window and two threads (`PortAssumption`), a
positive step (`DelayAssumption`), and the assumptions on gaits and on the solver
that section 3 explains: `ManagerAssumption`, `SwingAssumption` and
`TimingAssumption` of `ReferenceManager`, `HandoverAssumption`, `GaitAssumption` and
`LagAssumption` of `PlanHandover`. TLC evaluates all on every run; `GaitTakesEffect` speaks of the time before the clock
first starts again. Nothing bounds the number of joints, slaves, commands, cycles, messages, runs or
restarts, the length of a schedule or a template, the horizon, or the size of a
control request.

*Only model-checked.* All liveness (the prover has no fairness or ENABLED
reasoning): `StopsReachMotors`, `LoadGetsSolution`, `JoinReturns`, `QueuedIsSent`,
`Recovers`, `VelocityArrives`, `TargetCatchesUp`, `CycleEnds`; and the two expected
violations, which are counterexamples of TLC. Every other property of the runs is
a theorem.

## 6. Where code and documentation disagree

Each of the first two is a run with the expected violation, and an entry of
`findings`.

- `APP/command.cpp:23`: the wait for room loops while the push *succeeds*: the
  command is lost (`queue_lost`); if the task thread has made room before the
  push, the same command is pushed every second.
- `APP/transmit.cpp:401`: only the angle of the shared table is cleared, a missing
  frame is reported with the other leg's speed and current (`bus_foreign`).

Differences that need no run to see:

- `APP/transmit.cpp:41`, `:47`, `:432`: `degraded_handler` prints "Stopping RT
  process." and stops nothing.
- `APP/transmit.cpp:170`, `:424`: the error counters are set to zero at the end of a
  period before they are compared with the maximum.
- `BridgeHW.cpp:17`, `legged_bridge_hw.cpp:67`: the control loop starts although
  `init` reported failure.
- `SwitchedModelReferenceManager.cpp:212`: "start to flying trot" inserts nothing,
  although `gait.info:61` defines `flying_trot`.
- `LegLogic.h:67`: the phase of a leg that stands through the whole schedule is
  documented as in contact and answered with -1, not in contact.
- `APP/transmit.cpp:239` tests the result of `ec_recover_slave`, which is -1 when the last
  datagram was lost, as a truth value, although `ethercatconfig.c:1486` documents
  success as greater than 0: such a slave is reported as recovered and stays at
  the temporary address (see `Stranded`).
- `ethercatmain.c:774` says that the broadcast shows that "the slaves have reached
  the same state": slaves without an address answer it too.
- `nicdrv.c:564`: the comment of `ecx_srconfirm` has it repeat a datagram that no
  slave served; the loop repeats only when no frame came back.
- `EtherCAT_Init` announces ten tries and makes nine (`APP/transmit.cpp:265`,
  `:277`); `send_motor_ctrl_cmd` documents kd up to 50 and cuts it to 5
  (`APP/motor_control.c:140`, `:166`); `set_motor_acceleration` documents the
  acknowledge mode 3 and refuses it (`:336`, `:347`); `set_motor_cur_tor` documents
  currents up to 3000 and limits those of current control to 2000 (`:287`, `:321`).

## 7. Not modelled

- Numbers: estimator, whole-body control, the optimal control problem, splines,
  inverse kinematics, where a foothold lies. They are real-valued functions
  without a protocol.
- `estContactState`, `earlyContactDetection` and `lateContactDetection` of the
  estimator, and `Gait.cpp`: nothing calls them.
- Within the modelled components: the gains of `dynamicParamCallback`, the
  cycle-time checks of the loop (they print), joint and foot references of the
  reference manager, parsing of console commands, frames that read or change
  identifiers and parameters, the bits of the answers and of the IMU, the contact
  flags of Gazebo (cleared and set in each `readSim`), the clock synchronisation and
  the GUI of the MuJoCo simulator.
- SOEM's mailbox protocols, its first configuration of slaves (`run_ethercat` as a
  whole succeeds or fails) and its redundant port, which is not configured. Of the
  recovery calls, the identity check of a readdressed slave and the order of slaves
  on the cable: a slave that comes back is the one that left.
- `main.cpp:49` joins a thread whose `running` flag nothing clears;
  `mujoco/src/main.cc:451` joins a thread whose loop is `while (true)`;
  `BridgeHW::read` converts twelve entries of a table of ten: all plain from the
  lines and without a protocol for a model checker to explore.

The mapped lines are a small share of the repository's because most of it is not
the robot's own logic: SOEM, MuJoCo's headers and GUI, lodepng and generated
messages are more than two thirds of its lines, and of the rest most is the
real-valued numerics above, constraint and cost classes, and visualisation. What
has states, threads or messages is in the modules.
