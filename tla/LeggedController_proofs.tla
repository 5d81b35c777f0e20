---------------------- MODULE LeggedController_proofs ----------------------
(***************************************************************************)
(* For every number of joints: types, the safety invariants of the         *)
(* controller and its threads, and the implementation of OutputSupervisor. *)
(* All of them follow from the inductive invariant IInv.                   *)
(***************************************************************************)
EXTENDS LeggedController, TLAPS

(* Every variable keeps its type: in particular the joint loop never       *)
(* indexes a joint that does not exist.                                    *)
THEOREM TypeCorrect == Spec => []TypeOK
<1> USE NumJointsAssumption DEF Joint
<1>1. Init => TypeOK
  <2> SUFFICES ASSUME Init PROVE TypeOK
    OBVIOUS
  <2>1. FlagsOK /\ ManagerOK /\ MpcOK /\ HistoryOK
    BY DEF Init, FlagsOK, ManagerOK, MpcOK, HistoryOK
  <2>2. Default \in Command /\ Live \in [hoisted : BOOLEAN, emg : BOOLEAN,
                                        load : BOOLEAN]
    BY DEF Default, Command, Source, Live
  <2>3. cmd \in [Joint -> Command] /\ written \in [Joint -> Command]
    BY <2>2 DEF Init
  <2>4. rtPc = "read" /\ j \in Joint /\ src \in Source
    BY DEF Init, Source
  <2>5. outside \in [Joint -> BOOLEAN] /\ solved \in BOOLEAN
    BY DEF Init
  <2>6. RtOK
    BY <2>2, <2>3, <2>4, <2>5 DEF Init, RtOK
  <2>7. QED
    BY <2>1, <2>6 DEF TypeOK
<1>2. TypeOK /\ [Next]_vars => TypeOK'
  <2> SUFFICES ASSUME TypeOK, [Next]_vars PROVE TypeOK'
    OBVIOUS
  <2> USE DEF TypeOK
  <2>1. ASSUME UNCHANGED flags PROVE FlagsOK'
    BY <2>1 DEF flags, FlagsOK
  <2>2. ASSUME UNCHANGED <<state, subscribed>> PROVE ManagerOK'
    BY <2>2 DEF ManagerOK
  <2>3. ASSUME UNCHANGED mpcVars PROVE MpcOK'
    BY <2>3 DEF mpcVars, MpcOK
  <2>4. ASSUME UNCHANGED rtVars PROVE RtOK'
    BY <2>4 DEF rtVars, RtOK
  <2>5. ASSUME UNCHANGED history PROVE HistoryOK'
    BY <2>5 DEF history, HistoryOK
  <2>6. CASE Read \/ SkipUpdate \/ EvaluatePolicy \/ ChooseReference \/ NoSwitch
             \/ Write
    <3>1. UNCHANGED <<flags, state, subscribed, mpcVars>>
      BY <2>6 DEF Read, SkipUpdate, EvaluatePolicy, ChooseReference, NoSwitch,
                  Write
    <3>2. HistoryOK'
      BY <2>6 DEF Read, SkipUpdate, EvaluatePolicy, ChooseReference, NoSwitch,
                  Write, history, HistoryOK, FlagsOK
    <3>3. Default \in Command /\ Live \in [hoisted : BOOLEAN, emg : BOOLEAN,
                                          load : BOOLEAN]
      BY DEF Default, Command, Source, Live
    <3>4. RtOK'
      <4> USE DEF RtOK, Source
      <4>1. CASE Read
        BY <3>3, <4>1 DEF Read, DefaultCommands
      <4>2. CASE SkipUpdate \/ NoSwitch
        BY <4>2 DEF SkipUpdate, NoSwitch
      <4>3. CASE EvaluatePolicy
        BY <4>3 DEF EvaluatePolicy, FlagsOK
      <4>4. CASE ChooseReference
        BY <4>4 DEF ChooseReference
      <4>5. CASE Write
        BY <3>3, <4>5 DEF Write
      <4>6. QED
        BY <2>6, <4>1, <4>2, <4>3, <4>4, <4>5
    <3>5. QED
      BY <3>1, <3>2, <3>4, <2>1, <2>2, <2>3
  <2>7. CASE CommandJoint
    <3>1. cmd' \in [Joint -> Command]
      BY <2>7 DEF CommandJoint, Command, Source, Damp, Wbc, Hold, RtOK
    <3>2. regs' \in [hoisted : BOOLEAN, emg : BOOLEAN, load : BOOLEAN]
      BY <2>7 DEF CommandJoint, RtOK, FlagsOK
    <3>3. j' \in Joint /\ rtPc' \in {"joint", "switch"}
      BY <2>7 DEF CommandJoint, NextJoint, RtOK
    <3>4. RtOK'
      BY <2>7, <3>1, <3>2, <3>3 DEF CommandJoint, RtOK
    <3>5. FlagsOK'
      BY <2>7 DEF CommandJoint, FlagsOK
    <3>6. QED
      BY <2>7, <3>4, <3>5, <2>2, <2>3, <2>5 DEF CommandJoint
  <2>8. CASE Starting \/ Stopping
    <3>1. FlagsOK'
      BY <2>8 DEF Starting, Stopping, FlagsOK
    <3>2. ManagerOK'
      BY <2>8 DEF Starting, Stopping, ManagerOK
    <3>3. MpcOK'
      BY <2>8 DEF Starting, Stopping, MpcOK, Age, mpcVars
    <3>4. HistoryOK'
      BY <2>8 DEF Starting, Stopping, HistoryOK, history
    <3>5. RtOK'
      BY <2>8 DEF Starting, Stopping, RtOK
    <3>6. QED
      BY <3>1, <3>2, <3>3, <3>4, <3>5
  <2>9. CASE MpcNext
    <3>1. UNCHANGED <<rtVars, history>>
      BY <2>9 DEF MpcNext, MpcTop, MpcGate, AdvanceMpc, MpcMark, MpcFail
    <3>2. FlagsOK'
      BY <2>9 DEF MpcNext, MpcTop, MpcGate, AdvanceMpc, MpcMark, MpcFail,
                  FlagsOK, flags
    <3>3. ManagerOK' /\ MpcOK'
      BY <2>9 DEF MpcNext, MpcTop, MpcGate, AdvanceMpc, MpcMark, MpcFail,
                  ManagerOK, MpcOK
    <3>4. QED
      BY <3>1, <3>2, <3>3, <2>4, <2>5
  <2>10. CASE EnvNext
    <3>1. UNCHANGED <<mpcVars, rtVars>>
      BY <2>10 DEF EnvNext, LoadController, SetWalk, EmergencyStop, Destroy
    <3>2. FlagsOK' /\ ManagerOK'
      BY <2>10 DEF EnvNext, LoadController, SetWalk, EmergencyStop, Destroy,
                   FlagsOK, ManagerOK
    <3>3. HistoryOK'
      BY <2>10 DEF EnvNext, LoadController, SetWalk, EmergencyStop, Destroy,
                   HistoryOK, history
    <3>4. QED
      BY <3>1, <3>2, <3>3, <2>3, <2>4
  <2>11. CASE UNCHANGED vars
    BY <2>11, <2>1, <2>2, <2>3, <2>4, <2>5 DEF vars
  <2>12. QED
    BY <2>6, <2>7, <2>8, <2>9, <2>10, <2>11 DEF Next, RtNext
<1>3. QED
  BY <1>1, <1>2, PTL DEF Spec

-----------------------------------------------------------------------------
(* The other threads never touch the real-time thread's locals, and none   *)
(* of them takes an emergency stop or a load request back.                 *)
LEMMA OtherThreads ==
  ASSUME MpcNext \/ EnvNext
  PROVE  /\ UNCHANGED <<rtVars, seen, readySeen>>
         /\ emergencyStopFlag => emergencyStopFlag'
         /\ loadControllerFlag => loadControllerFlag'
         /\ firstStartMpc => firstStartMpc'
<1>1. CASE MpcNext
  <2>1. UNCHANGED <<rtVars, seen, readySeen>>
    BY <1>1 DEF MpcNext, MpcTop, MpcGate, AdvanceMpc, MpcMark, MpcFail, history
  <2>2. /\ emergencyStopFlag => emergencyStopFlag'
        /\ loadControllerFlag => loadControllerFlag'
        /\ firstStartMpc => firstStartMpc'
    BY <1>1 DEF MpcNext, MpcTop, MpcGate, AdvanceMpc, MpcMark, MpcFail, flags
  <2>3. QED
    BY <2>1, <2>2
<1>2. CASE EnvNext
  <2>1. UNCHANGED <<rtVars, seen, readySeen>>
    BY <1>2 DEF EnvNext, LoadController, SetWalk, EmergencyStop, Destroy,
                history
  <2>2. /\ emergencyStopFlag => emergencyStopFlag'
        /\ loadControllerFlag => loadControllerFlag'
        /\ firstStartMpc => firstStartMpc'
    BY <1>2 DEF EnvNext, LoadController, SetWalk, EmergencyStop, Destroy
  <2>3. QED
    BY <2>1, <2>2
<1>3. QED
  BY <1>1, <1>2

(* What one iteration of the joint loop does to the joints already served: *)
(* nothing; and where it leaves the counter.                               *)
LEMMA JointStep ==
  ASSUME TypeOK, CommandJoint
  PROVE  /\ \A i \in Joint : i # j => cmd'[i] = cmd[i]
         /\ (rtPc' = "joint" /\ j' = j + 1) \/ (rtPc' = "switch" /\ j = NumJoints)
         /\ rtPc = "joint" /\ j \in 1..NumJoints /\ NumJoints \in Nat
<1>1. cmd \in [Joint -> Command] /\ j \in Joint
  BY DEF TypeOK, RtOK
<1>2. \A i \in Joint : i # j => cmd'[i] = cmd[i]
  BY <1>1 DEF CommandJoint
<1>3. (rtPc' = "joint" /\ j' = j + 1) \/ (rtPc' = "switch" /\ j = NumJoints)
  BY DEF CommandJoint, NextJoint
<1>4. QED
  BY <1>1, <1>2, <1>3, NumJointsAssumption DEF CommandJoint, Joint

(* The command an iteration issues, by the flags it sees.                  *)
LEMMA JointCommand ==
  ASSUME TypeOK, CommandJoint
  PROVE  /\ SeesStop => cmd'[j] = Damp
         /\ \/ cmd'[j] = Damp /\ SeesStop'
            \/ cmd'[j] = Wbc(src) /\ ~SeesStop /\ SeesLoad
            \/ cmd'[j] = Hold(src) /\ ~SeesStop /\ ~SeesLoad
         /\ SeesStop => SeesStop'
         /\ SeesLoad' = SeesLoad
         /\ regs'.hoisted = regs.hoisted /\ regs'.load = regs.load
<1> DEFINE stop == SeesStop \/ (~SeesStop /\ SeesLoad /\ outside[j])
<1>1. cmd \in [Joint -> Command] /\ j \in Joint
      /\ regs \in [hoisted : BOOLEAN, emg : BOOLEAN, load : BOOLEAN]
  BY DEF TypeOK, RtOK
<1>2. /\ regs' = [regs EXCEPT !.emg = regs.hoisted /\ stop]
      /\ emergencyStopFlag' =
           (emergencyStopFlag \/ (~SeesStop /\ SeesLoad /\ outside[j]))
      /\ loadControllerFlag' = loadControllerFlag
      /\ cmd' = [cmd EXCEPT ![j] = IF stop THEN Damp
                         ELSE IF SeesLoad THEN Wbc(src) ELSE Hold(src)]
  BY DEF CommandJoint
<1>3. cmd'[j] = IF stop THEN Damp ELSE IF SeesLoad THEN Wbc(src) ELSE Hold(src)
  BY <1>1, <1>2
<1>4. regs'.hoisted = regs.hoisted /\ regs'.load = regs.load
      /\ regs'.emg = (regs.hoisted /\ stop)
  BY <1>1, <1>2
<1>5. SeesLoad' = SeesLoad
  BY <1>2, <1>4 DEF SeesLoad
<1>6. stop => SeesStop'
  BY <1>2, <1>4 DEF SeesStop
<1>7. QED
  BY <1>3, <1>4, <1>5, <1>6

-----------------------------------------------------------------------------
(* A cycle that began with the stop flag set ends with every joint passive, *)
(* and the mid-cycle facts that make this inductive.                       *)
THEOREM StopCorrect == Spec => [](StopInv /\ StopIsObeyed)
<1> DEFINE I == StopInv /\ StopIsObeyed
<1>1. Init => I
  BY DEF Init, StopInv, StopIsObeyed, CommandsReady, InLoop, Live
<1>2. TypeOK /\ I /\ [Next]_vars => I'
  <2> SUFFICES ASSUME TypeOK, I, [Next]_vars PROVE I'
    OBVIOUS
  <2> USE DEF StopInv, StopIsObeyed, CommandsReady, AllPassive, InLoop
  <2>1. CASE Read
    BY <2>1 DEF Read, DefaultCommands, flags
  <2>2. CASE SkipUpdate
    BY <2>2 DEF SkipUpdate, DefaultCommands, Default, Passive, flags, history
  <2>3. CASE EvaluatePolicy
    BY <2>3 DEF EvaluatePolicy, DefaultCommands, flags, history
  <2>4. CASE ChooseReference
    <3>1. j' = 1 /\ rtPc' = "joint" /\ UNCHANGED <<cmd, seen, emergencyStopFlag>>
      BY <2>4 DEF ChooseReference, flags, history
    <3>2. regs'.hoisted \in BOOLEAN /\ regs'.emg = (regs'.hoisted /\ emergencyStopFlag)
      BY <2>4 DEF ChooseReference
    <3>3. ~\E i \in Joint : i \in 1..(j' - 1)
      BY <3>1
    <3>4. QED
      BY <3>1, <3>2, <3>3
  <2>5. CASE CommandJoint
    <3>1. seen' = seen /\ (emergencyStopFlag => emergencyStopFlag')
      BY <2>5 DEF CommandJoint, history
    <3>2. seen => SeesStop
      BY <2>5 DEF CommandJoint, SeesStop
    <3>3. (seen => Passive(cmd'[j])) /\ (SeesStop => SeesStop')
      BY <2>5, <3>2, JointCommand DEF Passive, Damp
    <3>4. \A i \in Joint : seen /\ i \in 1..j => Passive(cmd'[i])
      <4>1. ASSUME NEW i \in Joint, seen, i \in 1..j PROVE Passive(cmd'[i])
        <5>1. CASE i = j
          BY <3>3, <4>1, <5>1
        <5>2. CASE i # j
          <6>1. i \in 1..(j - 1)
            BY <4>1, <5>2, <2>5, JointStep
          <6>2. Passive(cmd[i])
            BY <4>1, <6>1, <2>5, JointStep
          <6>3. QED
            BY <6>2, <5>2, <4>1, <2>5, JointStep DEF Passive
        <5>3. QED
          BY <5>1, <5>2
      <4>2. QED
        BY <4>1
    <3>5. regs'.emg => emergencyStopFlag'
      <4>1. regs'.emg = (regs.hoisted /\ (SeesStop \/ (~SeesStop /\ SeesLoad /\ outside[j])))
        BY <2>5 DEF CommandJoint, TypeOK, RtOK
      <4>2. SeesStop => emergencyStopFlag
        BY <2>5 DEF CommandJoint, SeesStop
      <4>3. QED
        BY <4>1, <4>2, <2>5 DEF CommandJoint
    <3>6. seen /\ regs'.hoisted => regs'.emg
      BY <3>2, <3>3, <2>5, JointCommand DEF SeesStop
    <3>7. CASE rtPc' = "joint" /\ j' = j + 1
      <4>1. \A i \in Joint : i \in 1..(j' - 1) => i \in 1..j
        BY <3>7, <2>5, JointStep
      <4>2. QED
        BY <3>1, <3>4, <3>5, <3>6, <3>7, <4>1 DEF Passive
    <3>8. CASE rtPc' = "switch" /\ j = NumJoints
      <4>1. \A i \in Joint : i \in 1..j
        BY <3>8 DEF Joint
      <4>2. QED
        BY <3>1, <3>4, <3>8, <4>1 DEF Passive
    <3>9. QED
      BY <3>7, <3>8, <2>5, JointStep
  <2>6. CASE NoSwitch \/ Starting \/ Stopping
    <3>1. UNCHANGED <<cmd, seen, emergencyStopFlag>> /\ rtPc = "switch" /\ rtPc' = "write"
      BY <2>6 DEF NoSwitch, Starting, Stopping, flags, history
    <3>2. QED
      BY <3>1 DEF Passive
  <2>7. CASE Write
    BY <2>7 DEF Write, flags, history
  <2>8. CASE MpcNext \/ EnvNext
    <3>1. UNCHANGED <<rtPc, regs, cmd, j, seen>> /\ (emergencyStopFlag => emergencyStopFlag')
      BY <2>8, OtherThreads DEF rtVars
    <3>2. QED
      BY <3>1 DEF Passive, DefaultCommands
  <2>9. CASE UNCHANGED vars
    BY <2>9 DEF vars, flags, rtVars, history, Passive, DefaultCommands
  <2>10. QED
    BY <2>1, <2>2, <2>3, <2>4, <2>5, <2>6, <2>7, <2>8, <2>9 DEF Next, RtNext
<1>3. QED
  BY <1>1, <1>2, TypeCorrect, PTL DEF Spec

-----------------------------------------------------------------------------
(* Flags that change while the joint loop runs never make a later joint of *)
(* the same cycle driven harder than an earlier one.                       *)
THEOREM SplitCorrect == Spec => [](SplitInv /\ SplitIsOrdered)
<1> DEFINE I == SplitInv /\ SplitIsOrdered
<1>1. Init => I
  BY DEF Init, SplitInv, SplitIsOrdered, CommandsReady, InLoop
<1>2. TypeOK /\ StopInv /\ I /\ [Next]_vars => I'
  <2> SUFFICES ASSUME TypeOK, StopInv, I, [Next]_vars PROVE I'
    OBVIOUS
  <2> USE DEF SplitInv, SplitIsOrdered, CommandsReady, InLoop
  <2>1. CASE Read \/ EvaluatePolicy \/ Write
    <3>1. rtPc' \in {"manager", "reference", "read"}
      BY <2>1 DEF Read, EvaluatePolicy, Write
    <3>2. QED
      BY <3>1
  <2>2. CASE SkipUpdate
    <3>1. rtPc' = "switch" /\ cmd' = DefaultCommands
      BY <2>2 DEF SkipUpdate, StopInv
    <3>2. \A i \in Joint : Rank(cmd'[i]) = 2
      BY <3>1 DEF DefaultCommands, Default, Rank, Passive
    <3>3. QED
      BY <3>1, <3>2
  <2>3. CASE ChooseReference
    <3>1. j' = 1 /\ rtPc' = "joint"
      BY <2>3 DEF ChooseReference
    <3>2. ~\E i \in Joint : i \in 1..(j' - 1)
      BY <3>1
    <3>3. QED
      BY <3>1, <3>2
  <2>4. CASE CommandJoint
    <3> DEFINE Done(i) == i \in 1..j
    <3>1. \A i \in Joint : Done(i) => i = j \/ (i # j /\ i \in 1..(j - 1))
      BY <2>4, JointStep
    <3>2. \A i \in Joint : Done(i) /\ Passive(cmd'[i]) => SeesStop'
      <4>1. Passive(cmd'[j]) => SeesStop'
        BY <2>4, JointCommand DEF Passive, Damp, Wbc, Hold
      <4>2. ASSUME NEW i \in Joint, i # j, i \in 1..(j - 1), Passive(cmd'[i])
            PROVE  SeesStop'
        <5>1. Passive(cmd[i]) /\ rtPc = "joint"
          BY <4>2, <2>4, JointStep DEF Passive
        <5>2. SeesStop
          BY <5>1, <4>2
        <5>3. QED
          BY <5>2, <2>4, JointCommand
      <4>3. QED
        BY <4>1, <4>2, <3>1
    <3>3. \A i \in Joint : Done(i) /\ cmd'[i].mode = "wbc" => SeesLoad'
      <4>1. cmd'[j].mode = "wbc" => SeesLoad'
        BY <2>4, JointCommand DEF Damp, Wbc, Hold
      <4>2. ASSUME NEW i \in Joint, i # j, i \in 1..(j - 1),
                   cmd'[i].mode = "wbc"
            PROVE  SeesLoad'
        <5>1. cmd[i].mode = "wbc" /\ rtPc = "joint"
          BY <4>2, <2>4, JointStep
        <5>2. SeesLoad
          BY <5>1, <4>2
        <5>3. QED
          BY <5>2, <2>4, JointCommand
      <4>3. QED
        BY <4>1, <4>2, <3>1
    <3>4. \A a, b \in Joint : a < b /\ Done(b) => Rank(cmd'[a]) <= Rank(cmd'[b])
      <4>1. ASSUME NEW a \in Joint, NEW b \in Joint, a < b, Done(b)
            PROVE  Rank(cmd'[a]) <= Rank(cmd'[b])
        <5>1. a # j /\ a \in 1..(j - 1) /\ cmd'[a] = cmd[a] /\ rtPc = "joint"
          <6>1. a \in Nat /\ b \in Nat /\ a >= 1
            BY NumJointsAssumption DEF Joint
          <6>2. QED
            BY <6>1, <4>1, <2>4, JointStep
        <5>2. CASE b = j
          <6>1. Passive(cmd[a]) => SeesStop
            BY <5>1
          <6>2. cmd[a].mode = "wbc" => SeesLoad
            BY <5>1
          <6>3. Passive(cmd[a]) => Rank(cmd'[b]) = 2
            BY <6>1, <5>2, <2>4, JointCommand DEF Rank, Passive, Damp
          <6>4. cmd[a].mode = "wbc" => Rank(cmd'[b]) \in {1, 2}
            BY <6>2, <5>2, <2>4, JointCommand DEF Rank, Passive, Damp, Wbc
          <6>5. Rank(cmd'[b]) \in {0, 1, 2}
            BY DEF Rank
          <6>6. QED
            BY <5>1, <6>3, <6>4, <6>5 DEF Rank
        <5>3. CASE b # j
          <6>1. b \in 1..(j - 1) /\ cmd'[b] = cmd[b]
            BY <5>3, <4>1, <3>1, <2>4, JointStep
          <6>2. Rank(cmd[a]) <= Rank(cmd[b])
            BY <6>1, <5>1, <4>1
          <6>3. QED
            BY <6>1, <6>2, <5>1
        <5>4. QED
          BY <5>2, <5>3
      <4>2. QED
        BY <4>1
    <3>5. CASE rtPc' = "joint" /\ j' = j + 1
      <4>1. \A i \in Joint : i \in 1..(j' - 1) => Done(i)
        BY <3>5, <2>4, JointStep
      <4>2. QED
        BY <3>2, <3>3, <3>4, <3>5, <4>1
    <3>6. CASE rtPc' = "switch" /\ j = NumJoints
      <4>1. \A i \in Joint : Done(i)
        BY <3>6 DEF Joint
      <4>2. QED
        BY <3>4, <3>6, <4>1
    <3>7. QED
      BY <3>5, <3>6, <2>4, JointStep
  <2>5. CASE NoSwitch \/ Starting \/ Stopping
    <3>1. cmd' = cmd /\ rtPc = "switch" /\ rtPc' = "write"
      BY <2>5 DEF NoSwitch, Starting, Stopping
    <3>2. QED
      BY <3>1
  <2>6. CASE MpcNext \/ EnvNext
    <3>1. UNCHANGED <<rtPc, regs, cmd, j>>
      BY <2>6, OtherThreads DEF rtVars
    <3>2. (SeesStop => SeesStop') /\ (SeesLoad => SeesLoad')
      BY <2>6, <3>1, OtherThreads DEF SeesStop, SeesLoad
    <3>3. QED
      BY <3>1, <3>2 DEF Passive
  <2>7. CASE UNCHANGED vars
    BY <2>7 DEF vars, flags, rtVars, Passive, SeesStop, SeesLoad
  <2>8. QED
    BY <2>1, <2>2, <2>3, <2>4, <2>5, <2>6, <2>7 DEF Next, RtNext
<1>3. QED
  BY <1>1, <1>2, TypeCorrect, StopCorrect, PTL DEF Spec

-----------------------------------------------------------------------------
(* Once a cycle has begun with firstStartMpc_ set no command comes from    *)
(* uninitialised vectors: the flag is raised only after a solution exists. *)
THEOREM SolutionCorrect == Spec => [](SolutionInv /\ SolutionAwaited)
<1> DEFINE I == SolutionInv /\ SolutionAwaited
<1>1. Init => I
  BY DEF Init, SolutionInv, SolutionAwaited, CommandsReady, InLoop
<1>2. TypeOK /\ StopInv /\ I /\ [Next]_vars => I'
  <2> SUFFICES ASSUME TypeOK, StopInv, I, [Next]_vars PROVE I'
    OBVIOUS
  <2> USE DEF SolutionInv, SolutionAwaited, CommandsReady, InLoop
  <2>1. CASE Read
    BY <2>1 DEF Read, flags, mpcVars
  <2>2. CASE SkipUpdate
    <3>1. rtPc' = "switch" /\ cmd' = DefaultCommands
      BY <2>2 DEF SkipUpdate, StopInv
    <3>2. \A i \in Joint : cmd'[i].src = "none"
      BY <3>1 DEF DefaultCommands, Default
    <3>3. QED
      BY <3>1, <3>2, <2>2 DEF SkipUpdate, flags, mpcVars, history
  <2>3. CASE EvaluatePolicy
    BY <2>3 DEF EvaluatePolicy, flags, mpcVars, history
  <2>4. CASE ChooseReference
    <3>1. j' = 1 /\ rtPc' = "joint" /\ src' \in {src, "stance"} /\ rtPc = "reference"
          /\ UNCHANGED <<firstStartMpc, mpcVars, readySeen>>
      BY <2>4 DEF ChooseReference, flags, history
    <3>2. ~\E i \in Joint : i \in 1..(j' - 1)
      BY <3>1
    <3>3. QED
      BY <3>1, <3>2 DEF mpcVars
  <2>5. CASE CommandJoint
    <3>1. UNCHANGED <<firstStartMpc, mpcPc, inFlight, policy, src, readySeen>>
      BY <2>5 DEF CommandJoint, mpcVars, history
    <3>2. readySeen => src # "uninit" /\ cmd'[j].src # "uninit"
      BY <2>5, JointStep, JointCommand DEF Damp, Wbc, Hold
    <3>3. \A i \in Joint : readySeen /\ i \in 1..j => cmd'[i].src # "uninit"
      <4>1. ASSUME NEW i \in Joint, readySeen, i \in 1..j
            PROVE  cmd'[i].src # "uninit"
        <5>1. CASE i = j
          BY <3>2, <4>1, <5>1
        <5>2. CASE i # j
          BY <4>1, <5>2, <2>5, JointStep
        <5>3. QED
          BY <5>1, <5>2
      <4>2. QED
        BY <4>1
    <3>4. CASE rtPc' = "joint" /\ j' = j + 1
      <4>1. \A i \in Joint : i \in 1..(j' - 1) => i \in 1..j
        BY <3>4, <2>5, JointStep
      <4>2. QED
        BY <3>1, <3>2, <3>3, <3>4, <4>1
    <3>5. CASE rtPc' = "switch" /\ j = NumJoints
      <4>1. \A i \in Joint : i \in 1..j
        BY <3>5 DEF Joint
      <4>2. QED
        BY <3>1, <3>2, <3>3, <3>5, <4>1
    <3>6. QED
      BY <3>4, <3>5, <2>5, JointStep
  <2>6. CASE NoSwitch \/ Starting \/ Stopping
    <3>1. UNCHANGED <<cmd, readySeen, firstStartMpc, mpcPc>>
          /\ rtPc = "switch" /\ rtPc' = "write"
      BY <2>6 DEF NoSwitch, Starting, Stopping, flags, mpcVars, history
    <3>2. policy' \in {policy, Age(policy)} /\ inFlight' \in {inFlight, Age(inFlight)}
      BY <2>6 DEF NoSwitch, Starting, Stopping, mpcVars
    <3>3. QED
      BY <3>1, <3>2 DEF Age
  <2>7. CASE Write
    BY <2>7 DEF Write, flags, mpcVars, history
  <2>8. CASE MpcNext
    <3>1. UNCHANGED <<rtPc, src, cmd, j, readySeen>>
      BY <2>8, OtherThreads DEF rtVars
    <3>2. /\ mpcPc' = "solve" => inFlight' # "none"
          /\ mpcPc' = "mark" \/ firstStartMpc' => policy' # "none"
      BY <2>8 DEF MpcNext, MpcTop, MpcGate, AdvanceMpc, MpcMark, MpcFail, flags
    <3>3. readySeen' => firstStartMpc'
      BY <3>1, <2>8, OtherThreads
    <3>4. QED
      BY <3>1, <3>2, <3>3
  <2>9. CASE EnvNext
    <3>1. UNCHANGED <<rtPc, src, cmd, j, readySeen>>
      BY <2>9, OtherThreads DEF rtVars
    <3>2. UNCHANGED <<mpcPc, inFlight, policy, firstStartMpc>>
      BY <2>9 DEF EnvNext, LoadController, SetWalk, EmergencyStop, Destroy, mpcVars
    <3>3. QED
      BY <3>1, <3>2
  <2>10. CASE UNCHANGED vars
    BY <2>10 DEF vars, flags, mpcVars, rtVars, history
  <2>11. QED
    BY <2>1, <2>2, <2>3, <2>4, <2>5, <2>6, <2>7, <2>8, <2>9, <2>10 DEF Next, RtNext
<1>3. QED
  BY <1>1, <1>2, TypeCorrect, StopCorrect, PTL DEF Spec

(* A solution of the current activation was asked for by a                 *)
(* /load_controller of the current activation, and whole-body torque by    *)
(* some /load_controller.                                                  *)
THEOREM LoadCorrect == Spec => [](LoadInv /\ SolveNeedsLoad)
<1> DEFINE I == LoadInv /\ SolveNeedsLoad
<1>1. Init => I
  BY DEF Init, LoadInv, SolveNeedsLoad, Live, Default
<1>2. TypeOK /\ I /\ [Next]_vars => I'
  <2> SUFFICES ASSUME TypeOK, I, [Next]_vars PROVE I'
    OBVIOUS
  <2> USE DEF LoadInv, SolveNeedsLoad
  <2>1. CASE Read
    BY <2>1 DEF Read, DefaultCommands, Default, flags, mpcVars
  <2>2. CASE SkipUpdate \/ EvaluatePolicy \/ NoSwitch
    BY <2>2 DEF SkipUpdate, EvaluatePolicy, NoSwitch, flags, mpcVars, history
  <2>3. CASE ChooseReference
    <3>1. UNCHANGED <<mpcRunning, inFlight, policy, loadedSinceStart,
                      loadControllerFlag, cmd>>
      BY <2>3 DEF ChooseReference, flags, mpcVars, history
    <3>2. PICK h \in BOOLEAN : regs'.load = (h /\ loadControllerFlag)
      BY <2>3 DEF ChooseReference
    <3>3. QED
      BY <3>1, <3>2
  <2>4. CASE CommandJoint
    <3>1. UNCHANGED <<mpcRunning, inFlight, policy, loadedSinceStart, loadControllerFlag>>
      BY <2>4 DEF CommandJoint, mpcVars, history
    <3>2. SeesLoad => loadControllerFlag
      BY DEF SeesLoad
    <3>3. cmd'[j].mode = "wbc" => loadControllerFlag
      BY <3>2, <2>4, JointCommand DEF Damp, Hold
    <3>4. \A i \in Joint : cmd'[i].mode = "wbc" => loadControllerFlag
      BY <3>3, <2>4, JointStep
    <3>5. regs'.load => loadControllerFlag
      BY <2>4, JointCommand
    <3>6. QED
      BY <3>1, <3>4, <3>5
  <2>5. CASE Starting \/ Stopping
    BY <2>5 DEF Starting, Stopping, Age, mpcVars, history
  <2>6. CASE Write
    BY <2>6 DEF Write, Live, flags, mpcVars, history
  <2>7. CASE MpcNext \/ EnvNext
    <3>1. UNCHANGED <<regs, cmd>> /\ (loadControllerFlag => loadControllerFlag')
      BY <2>7, OtherThreads DEF rtVars
    <3>2. CASE MpcNext
      BY <3>1, <3>2 DEF MpcNext, MpcTop, MpcGate, AdvanceMpc, MpcMark, MpcFail,
                        flags, history
    <3>3. CASE EnvNext
      BY <3>1, <3>3 DEF EnvNext, LoadController, SetWalk, EmergencyStop,
                        Destroy, mpcVars, history
    <3>4. QED
      BY <2>7, <3>2, <3>3
  <2>8. CASE UNCHANGED vars
    BY <2>8 DEF vars, flags, mpcVars, rtVars, history
  <2>9. QED
    BY <2>1, <2>2, <2>3, <2>4, <2>5, <2>6, <2>7, <2>8 DEF Next, RtNext
<1>3. QED
  BY <1>1, <1>2, TypeCorrect, PTL DEF Spec

(* The whole inductive invariant that the runs check.                      *)
THEOREM InvariantHolds == Spec => []IInv
BY StopCorrect, SplitCorrect, SolutionCorrect, LoadCorrect, PTL DEF IInv

-----------------------------------------------------------------------------
(* Every step of the threads is a step of OutputSupervisor or leaves it    *)
(* alone: torque only when armed, and passive for ever once tripped.       *)
THEOREM ImplementsCorrect == Spec => ImplementsSupervisor
<1> USE DEF Output!absVars, Output!Joint, Joint
<1>1. Init => Output!AbsInit
  BY DEF Init, Output!AbsInit, OutOf, Passive, Default
<1>2. TypeOK /\ TypeOK' /\ IInv /\ IInv' /\ [Next]_vars
        => [Output!AbsNext]_(Output!absVars)
  <2> SUFFICES ASSUME TypeOK, TypeOK', IInv, IInv', [Next]_vars
               PROVE  [Output!AbsNext]_(Output!absVars)
    OBVIOUS
  <2>1. CASE Read
    <3>1. UNCHANGED <<loadControllerFlag, written>>
      BY <2>1 DEF Read, flags
    <3>2. seen' = seen \/ seen' = TRUE
      BY <2>1 DEF Read, TypeOK, HistoryOK, FlagsOK
    <3>3. QED
      BY <3>1, <3>2 DEF Output!AbsNext, Output!Trip
  <2>2. CASE Write
    <3>1. UNCHANGED <<loadControllerFlag, seen>> /\ written' = cmd /\ CommandsReady
      BY <2>2 DEF Write, flags, history, CommandsReady
    <3>2. [i \in Joint |-> OutOf(cmd[i])] \in [Joint -> Output!OutMode]
      BY DEF TypeOK, RtOK, Command, OutOf, Passive, Output!OutMode
    <3>3. \A i \in Joint : OutOf(cmd[i]) = "wbc" => loadControllerFlag
      BY DEF IInv, LoadInv, OutOf, Passive
    <3>4. seen => \A i \in Joint : OutOf(cmd[i]) = "passive"
      BY <3>1 DEF IInv, StopIsObeyed, AllPassive, OutOf
    <3>5. QED
      BY <3>1, <3>2, <3>3, <3>4 DEF Output!AbsNext, Output!Output,
         Output!AllPassive
  <2>3. CASE LoadController
    BY <2>3 DEF LoadController, rtVars, Output!AbsNext, Output!Arm
  <2>4. CASE SkipUpdate \/ EvaluatePolicy \/ ChooseReference \/ NoSwitch
             \/ Starting \/ Stopping
    BY <2>4 DEF SkipUpdate, EvaluatePolicy, ChooseReference, NoSwitch,
                Starting, Stopping, flags, history
  <2>5. CASE CommandJoint
    BY <2>5 DEF CommandJoint, history
  <2>6. CASE MpcNext
    BY <2>6 DEF MpcNext, MpcTop, MpcGate, AdvanceMpc, MpcMark, MpcFail,
                flags, rtVars, history
  <2>7. CASE SetWalk \/ EmergencyStop \/ Destroy
    BY <2>7 DEF SetWalk, EmergencyStop, Destroy, rtVars, history
  <2>8. CASE UNCHANGED vars
    BY <2>8 DEF vars, flags, rtVars, history
  <2>9. QED
    BY <2>1, <2>2, <2>3, <2>4, <2>5, <2>6, <2>7, <2>8
       DEF Next, RtNext, EnvNext
<1>3. QED
  BY <1>1, <1>2, TypeCorrect, InvariantHolds, PTL
     DEF Spec, ImplementsSupervisor, Output!AbsSpec
=============================================================================
