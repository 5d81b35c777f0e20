--------------------------- MODULE Commands_proofs ---------------------------
(***************************************************************************)
(* Commands on their way to a joint, from the console and in the           *)
(* simulators.                                                             *)
(* For any number of slaves and commands and any capacity: the queues keep *)
(* the typed order, and a command that finds room is queued exactly once.  *)
(* Both follow from an inductive invariant that adds what the console      *)
(* knows about the command it is handing over.                             *)
(* For every step of the simulation and every delay, also one that is no   *)
(* multiple of the step or shorter than it: the joint moves by the oldest  *)
(* command of this run of the simulation that is not older than the delay. *)
(* And for any number of messages, restarts and loads: neither side of the *)
(* MuJoCo bridge goes back to an older message or refuses the next one.    *)
(***************************************************************************)
EXTENDS CommandQueue, DelayedCommands, LcmBridge, TLAPS

-----------------------------------------------------------------------------
(* The console's queues (CommandQueue).                                    *)

(* No queue or slave holds a command that has not been typed.              *)
OnlyTyped ==
  \A s \in Slaves :
    /\ Tx_Message[s] <= typed
    /\ \A i \in 1..Len(messages[s]) : messages[s][i] <= typed

(* Commands not typed yet have left no trace; the one being handed over    *)
(* has room if it was promised room.                                       *)
HandOver ==
  /\ \A c \in Commands : c > typed => copies[c] = 0 /\ c \notin hurried
  /\ console # "reading" => typed \in Commands
  /\ console = "pushing" => RoomFor(target) /\ typed \notin hurried
  /\ console \in {"waiting", "sleeping"} => typed \in hurried

QInv == TypeOK /\ TypedOrder /\ OnlyTyped /\ OnceIfRoom /\ HandOver

-----------------------------------------------------------------------------
(* The types of what the queues hold.                                      *)
LEMMA QueueTypes ==
  ASSUME TypeOK, NEW s \in Slaves
  PROVE  /\ messages[s] \in Seq(Commands) /\ Len(messages[s]) \in Nat
         /\ Tx_Message[s] \in Nat /\ outputs[s] \in Nat /\ typed \in Nat
         /\ \A i \in 1..Len(messages[s]) :
              messages[s][i] \in Commands /\ messages[s][i] \in Nat
<1>1. messages[s] \in Seq(Commands) /\ Tx_Message[s] \in 0..NumCommands
      /\ outputs[s] \in 0..NumCommands /\ typed \in 0..NumCommands
  BY DEF TypeOK
<1>2. Len(messages[s]) \in Nat /\ \A i \in 1..Len(messages[s]) : messages[s][i] \in Commands
  BY <1>1
<1>3. Commands \subseteq Nat /\ 0..NumCommands \subseteq Nat
  BY QueueAssumption DEF Commands
<1> QED BY <1>1, <1>2, <1>3

(* What a pop leaves of a queue.                                           *)
LEMMA PopShape ==
  ASSUME NEW S, NEW q \in Seq(S), q # <<>>
  PROVE  /\ Len(q) \in Nat \ {0} /\ Head(q) = q[1] /\ q[1] \in S
         /\ Tail(q) \in Seq(S) /\ Len(Tail(q)) = Len(q) - 1
         /\ \A i \in 1..Len(Tail(q)) : Tail(q)[i] = q[i + 1]
<1>1. Len(q) \in Nat \ {0}
  OBVIOUS
<1>2. q[1] \in S /\ Head(q) = q[1]
  BY <1>1
<1>3. Tail(q) \in Seq(S) /\ Len(Tail(q)) = Len(q) - 1
  BY <1>1
<1>4. \A i \in 1..Len(Tail(q)) : Tail(q)[i] = q[i + 1]
  BY <1>1
<1> QED BY <1>1, <1>2, <1>3, <1>4

(* What a push leaves in the queues.                                       *)
LEMMA PushShape ==
  ASSUME TypeOK, NEW c \in Commands, TryPush(target, c)
  PROVE  /\ messages' \in [Slaves -> Seq(Commands)]
         /\ \A s \in Slaves :
           /\ Len(messages'[s]) <= Capacity
           /\ \/ messages'[s] = messages[s]
              \/ /\ RoomFor(s)
                 /\ Len(messages'[s]) = Len(messages[s]) + 1
                 /\ messages'[s][Len(messages[s]) + 1] = c
                 /\ \A i \in 1..Len(messages[s]) : messages'[s][i] = messages[s][i]
<1>1. CASE ~RoomFor(target)
  BY <1>1, QueueAssumption DEF TypeOK, TryPush
<1>2. CASE RoomFor(target)
  <2>1. messages' = [messages EXCEPT ![target] = Append(messages[target], c)]
    BY <1>2 DEF TryPush
  <2>2. messages' \in [Slaves -> Seq(Commands)]
    BY <2>1 DEF TypeOK
  <2>3. ASSUME NEW s \in Slaves
        PROVE  /\ Len(messages'[s]) <= Capacity
               /\ \/ messages'[s] = messages[s]
                  \/ /\ RoomFor(s)
                     /\ Len(messages'[s]) = Len(messages[s]) + 1
                     /\ messages'[s][Len(messages[s]) + 1] = c
                     /\ \A i \in 1..Len(messages[s]) :
                          messages'[s][i] = messages[s][i]
    <3>1. messages[s] \in Seq(Commands) /\ Len(messages[s]) <= Capacity
      BY DEF TypeOK
    <3> QED
      BY <1>2, <2>1, <3>1, QueueAssumption DEF TypeOK, RoomFor
  <2> QED BY <2>2, <2>3
<1> QED BY <1>1, <1>2

(* A push of the command typed last keeps the queues in order.             *)
LEMMA PushOrder ==
  ASSUME QInv, typed \in Commands, TryPush(target, typed),
         UNCHANGED <<Tx_Message, outputs, typed>>
  PROVE  TypedOrder' /\ OnlyTyped'
<1>1. \A s \in Slaves :
        /\ Len(messages'[s]) <= Capacity
        /\ \/ messages'[s] = messages[s]
           \/ /\ RoomFor(s)
              /\ Len(messages'[s]) = Len(messages[s]) + 1
              /\ messages'[s][Len(messages[s]) + 1] = typed
              /\ \A i \in 1..Len(messages[s]) : messages'[s][i] = messages[s][i]
  BY PushShape DEF QInv
<1>2. SUFFICES ASSUME NEW s \in Slaves
               PROVE  /\ outputs[s] <= Tx_Message[s] /\ Tx_Message[s] <= typed
                      /\ \A i \in 1..Len(messages'[s]) :
                           /\ Tx_Message[s] <= messages'[s][i]
                           /\ messages'[s][i] <= typed
                           /\ \A k \in 1..i : messages'[s][k] <= messages'[s][i]
  BY DEF TypedOrder, OnlyTyped
<1>3. /\ messages[s] \in Seq(Commands) /\ Len(messages[s]) \in Nat
      /\ Tx_Message[s] \in 0..NumCommands /\ typed \in Nat
      /\ outputs[s] <= Tx_Message[s] /\ Tx_Message[s] <= typed
      /\ \A i \in 1..Len(messages[s]) :
           /\ messages[s][i] \in Nat
           /\ Tx_Message[s] <= messages[s][i] /\ messages[s][i] <= typed
           /\ \A k \in 1..i : messages[s][k] <= messages[s][i]
  <2>1. messages[s] \in Seq(Commands) /\ Tx_Message[s] \in 0..NumCommands
    BY DEF QInv, TypeOK
  <2> QED
    BY <2>1, QueueTypes DEF QInv, TypedOrder, OnlyTyped
<1>4. CASE messages'[s] = messages[s]
  BY <1>3, <1>4
<1>5. CASE messages'[s] # messages[s]
  <2>1. /\ Len(messages'[s]) = Len(messages[s]) + 1
        /\ messages'[s][Len(messages[s]) + 1] = typed
        /\ \A i \in 1..Len(messages[s]) : messages'[s][i] = messages[s][i]
    BY <1>1, <1>5
  <2>2. SUFFICES ASSUME NEW i \in 1..Len(messages'[s])
                 PROVE  /\ Tx_Message[s] <= messages'[s][i]
                        /\ messages'[s][i] <= typed
                        /\ \A k \in 1..i : messages'[s][k] <= messages'[s][i]
    BY <1>3
  <2>3. CASE i \in 1..Len(messages[s])
    <3>1. \A k \in 1..i : messages'[s][k] = messages[s][k]
      BY <1>3, <2>1, <2>3
    <3> QED BY <1>3, <2>1, <2>3, <3>1
  <2>4. CASE i = Len(messages[s]) + 1
    <3>1. \A k \in 1..i : k \in 1..Len(messages[s]) \/ k = i
      BY <1>3, <2>4
    <3> QED BY <1>3, <2>1, <2>4, <3>1, SMTT(30)
  <2> QED BY <1>3, <2>1, <2>3, <2>4
<1> QED BY <1>3, <1>4, <1>5

-----------------------------------------------------------------------------
(* The invariant holds at first and every step keeps it.                   *)
LEMMA Inductive == Spec => []QInv
<1> USE QueueAssumption DEF Slaves, Commands
<1>1. Init => QInv
  BY DEF Init, QInv, TypeOK, TypedOrder, OnlyTyped, OnceIfRoom, HandOver
<1>2. QInv /\ [Next]_vars => QInv'
  <2> SUFFICES ASSUME QInv, [Next]_vars PROVE QInv'
    OBVIOUS
  <2> USE DEF QInv
  <2>1. CASE ReadLine
    <3> USE <2>1 DEF ReadLine
    <3>1. TypeOK'
      <4>1. typed' \in 0..NumCommands /\ typed + 1 \in Commands
        BY QueueAssumption DEF TypeOK, Commands
      <4>2. /\ target' \in Slaves /\ hurried' \subseteq Commands
            /\ console' \in {"pushing", "waiting"}
        BY <4>1 DEF TypeOK
      <4> QED BY <4>1, <4>2 DEF TypeOK
    <3>2. TypedOrder'
      BY DEF TypedOrder
    <3>3. OnlyTyped'
      <4>1. typed' = typed + 1 /\ typed \in Nat
        BY DEF TypeOK
      <4>2. ASSUME NEW s \in Slaves
            PROVE  /\ Tx_Message[s] \in Nat /\ Tx_Message[s] <= typed
                   /\ \A i \in 1..Len(messages[s]) :
                        messages[s][i] \in Nat /\ messages[s][i] <= typed
        BY <4>2, QueueTypes DEF OnlyTyped
      <4> QED BY <4>1, <4>2 DEF OnlyTyped
    <3>4. OnceIfRoom' /\ HandOver'
      BY DEF TypeOK, OnceIfRoom, HandOver, RoomFor
    <3> QED BY <3>1, <3>2, <3>3, <3>4
  <2>2. CASE PushAtOnce
    <3> USE <2>2 DEF PushAtOnce
    <3>1. typed \in Commands /\ RoomFor(target) /\ copies[typed] = 0
          /\ typed \notin hurried
      BY DEF TypeOK, HandOver, OnceIfRoom
    <3>2. copies' = [copies EXCEPT ![typed] = 1]
      BY <3>1 DEF TryPush
    <3>3. messages' \in [Slaves -> Seq(Commands)]
          /\ \A s \in Slaves : Len(messages'[s]) <= Capacity
      BY <3>1, PushShape
    <3>4. TypeOK'
      <4>1. copies' \in [Commands -> 0..2]
        BY <3>1, <3>2 DEF TypeOK
      <4> QED BY <3>3, <4>1 DEF TypeOK
    <3>5. TypedOrder' /\ OnlyTyped'
      BY <3>1, PushOrder
    <3>6. OnceIfRoom' /\ HandOver'
      BY <3>1, <3>2 DEF TypeOK, OnceIfRoom, HandOver
    <3> QED BY <3>4, <3>5, <3>6
  <2>3. CASE PushInLoop
    <3> USE <2>3 DEF PushInLoop
    <3>1. typed \in Commands /\ typed \in hurried
      BY DEF HandOver
    <3>2. /\ copies' \in [Commands -> 0..2]
          /\ \A c \in Commands : c # typed => copies'[c] = copies[c]
      <4>1. copies \in [Commands -> 0..2]
        BY DEF TypeOK
      <4>2. CASE RoomFor(target)
        <5>1. copies' = [copies EXCEPT ![typed] = IF copies[typed] = 0 THEN 1 ELSE 2]
          BY <4>2 DEF TryPush
        <5> QED BY <3>1, <4>1, <5>1
      <4>3. CASE ~RoomFor(target)
        BY <4>1, <4>3 DEF TryPush
      <4> QED BY <4>2, <4>3
    <3>3. messages' \in [Slaves -> Seq(Commands)]
          /\ \A s \in Slaves : Len(messages'[s]) <= Capacity
      BY <3>1, PushShape
    <3>4. TypeOK'
      BY <3>2, <3>3 DEF TypeOK
    <3>5. TypedOrder' /\ OnlyTyped'
      BY <3>1, PushOrder
    <3>6. OnceIfRoom' /\ HandOver'
      BY <3>1, <3>2, SMTT(30) DEF TypeOK, OnceIfRoom, HandOver
    <3> QED BY <3>4, <3>5, <3>6
  <2>4. CASE WakeUp
    BY <2>4 DEF WakeUp, TypeOK, TypedOrder, OnlyTyped, OnceIfRoom, HandOver
  <2>5. CASE EtherCAT_Command_Set
    <3> USE <2>5 DEF EtherCAT_Command_Set
    <3>1. CASE messages[slave] = <<>>
      <4>1. outputs' = [outputs EXCEPT ![slave] = Tx_Message[slave]]
            /\ UNCHANGED <<messages, Tx_Message>>
        BY <3>1
      <4>2. slave' \in Slaves
        BY DEF TypeOK, NextSlave
      <4>3. TypeOK'
        BY <4>1, <4>2 DEF TypeOK
      <4>4. TypedOrder' /\ OnlyTyped'
        <5>1. \A s \in Slaves : outputs'[s] = IF s = slave THEN Tx_Message[s]
                                              ELSE outputs[s]
          BY <4>1 DEF TypeOK
        <5> QED BY <4>1, <5>1, QueueTypes DEF TypedOrder, OnlyTyped
      <4> QED BY <4>1, <4>3, <4>4 DEF OnceIfRoom, HandOver, RoomFor
    <3>2. CASE messages[slave] # <<>>
      <4>1. /\ Tx_Message' = [Tx_Message EXCEPT ![slave] = messages[slave][1]]
            /\ messages' = [messages EXCEPT ![slave] = Tail(messages[slave])]
            /\ outputs' = [outputs EXCEPT ![slave] = messages[slave][1]]
        <5>1. Head(messages[slave]) = messages[slave][1]
          BY <3>2, PopShape DEF TypeOK
        <5>2. Tx_Message' = [Tx_Message EXCEPT ![slave] = Head(messages[slave])]
              /\ messages' = [messages EXCEPT ![slave] = Tail(messages[slave])]
          BY <3>2
        <5>3. Tx_Message'[slave] = Head(messages[slave])
          BY <5>2 DEF TypeOK
        <5> QED BY <5>1, <5>2, <5>3
      <4>2. /\ messages[slave] \in Seq(Commands) /\ Len(messages[slave]) \in Nat \ {0}
            /\ Tail(messages[slave]) \in Seq(Commands)
            /\ Len(Tail(messages[slave])) = Len(messages[slave]) - 1
            /\ \A i \in 1..Len(Tail(messages[slave])) :
                 Tail(messages[slave])[i] = messages[slave][i + 1]
            /\ messages[slave][1] \in Commands
        <5>1. messages[slave] \in Seq(Commands)
          BY DEF TypeOK
        <5> QED BY <3>2, <5>1, PopShape
      <4>3. TypeOK'
        <5>1. messages' \in [Slaves -> Seq(Commands)]
          BY <4>1, <4>2 DEF TypeOK
        <5>2. \A s \in Slaves : Len(messages'[s]) <= Capacity
          BY <4>1, <4>2, SMTT(30) DEF TypeOK
        <5>3. /\ Tx_Message' \in [Slaves -> 0..NumCommands]
              /\ outputs' \in [Slaves -> 0..NumCommands]
          <6>1. messages[slave][1] \in 0..NumCommands
            BY <4>2
          <6> QED BY <4>1, <6>1 DEF TypeOK
        <5>4. slave' \in Slaves
          BY DEF TypeOK, NextSlave
        <5> QED BY <5>1, <5>2, <5>3, <5>4 DEF TypeOK
      <4>4. TypedOrder' /\ OnlyTyped'
        <5>1. SUFFICES ASSUME NEW s \in Slaves
                       PROVE  /\ outputs'[s] <= Tx_Message'[s]
                              /\ Tx_Message'[s] <= typed
                              /\ \A i \in 1..Len(messages'[s]) :
                                   /\ Tx_Message'[s] <= messages'[s][i]
                                   /\ messages'[s][i] <= typed
                                   /\ \A k \in 1..i :
                                        messages'[s][k] <= messages'[s][i]
          BY DEF TypedOrder, OnlyTyped
        <5>2. CASE s # slave
          <6>1. outputs'[s] = outputs[s] /\ Tx_Message'[s] = Tx_Message[s]
                /\ messages'[s] = messages[s]
            BY <4>1, <5>2 DEF TypeOK
          <6> QED BY <6>1 DEF TypedOrder, OnlyTyped
        <5>3. CASE s = slave
          <6>1. outputs'[s] = messages[s][1] /\ Tx_Message'[s] = messages[s][1]
                /\ messages'[s] = Tail(messages[s])
            BY <4>1, <5>3 DEF TypeOK
          <6>2. \A i \in 1..Len(messages[s]) :
                  /\ messages[s][i] \in Nat /\ messages[s][i] <= typed
                  /\ \A k \in 1..i : messages[s][k] <= messages[s][i]
            BY QueueTypes DEF TypedOrder, OnlyTyped
          <6>3. ASSUME NEW i \in 1..Len(messages'[s]), NEW k \in 1..i
                PROVE  /\ i + 1 \in 1..Len(messages[s])
                       /\ 1 \in 1..(i + 1) /\ k + 1 \in 1..(i + 1)
                       /\ messages'[s][i] = messages[s][i + 1]
                       /\ messages'[s][k] = messages[s][k + 1]
            BY <4>2, <5>3, <6>1, SMTT(30)
          <6>4. ASSUME NEW i \in 1..Len(messages'[s])
                PROVE  /\ messages[s][1] <= messages'[s][i]
                       /\ messages'[s][i] <= typed
                       /\ \A k \in 1..i : messages'[s][k] <= messages'[s][i]
            <7>1. i \in 1..i
              BY <4>2, <5>3, <6>1
            <7> QED BY <6>2, <6>3, <7>1
          <6>5. 1 \in 1..Len(messages[s]) /\ messages[s][1] \in Nat
            BY <4>2, <5>3
          <6> QED BY <6>1, <6>2, <6>4, <6>5
        <5> QED BY <5>2, <5>3
      <4>5. OnceIfRoom'
        BY DEF OnceIfRoom
      <4>6. RoomFor(target) => RoomFor(target)'
        BY <4>1, <4>2 DEF TypeOK, RoomFor
      <4> QED BY <4>3, <4>4, <4>5, <4>6 DEF HandOver
    <3> QED BY <3>1, <3>2
  <2>6. CASE UNCHANGED vars
    BY <2>6 DEF vars, TypeOK, TypedOrder, OnlyTyped, OnceIfRoom, HandOver, RoomFor
  <2> QED
    BY <2>1, <2>2, <2>3, <2>4, <2>5, <2>6 DEF Next, SendToQueue
<1> QED BY <1>1, <1>2, PTL DEF Spec

(* Every slave is sent its commands in the typed order, for any number of  *)
(* slaves and commands and any capacity.                                   *)
THEOREM OrderKept == Spec => []TypedOrder
BY Inductive, PTL DEF QInv

(* A command that finds room is queued exactly once.                       *)
THEOREM OnceKept == Spec => []OnceIfRoom
BY Inductive, PTL DEF QInv

-----------------------------------------------------------------------------
(* The delay in Gazebo and the messages of MuJoCo (DelayedCommands,        *)
(* LcmBridge).                                                             *)

DelayTypes ==
  /\ time \in Nat /\ lastWrite = time /\ run \in Nat
  /\ time > 0 => time >= Period
  /\ buffer \in Seq(Command)

(* The commands of this run without a gap, newest first; what is left out  *)
(* at the old end is older than the delay.                                 *)
NoGap(commands, now) ==
  /\ Len(commands) > 0 /\ commands[1].stamp = now
  /\ \A i \in 1..Len(commands) : /\ commands[i].run = run
                                 /\ commands[i].stamp \in Period..now
  /\ \A i \in 1..(Len(commands) - 1) : commands[i + 1].stamp = commands[i].stamp - Period
  /\ commands[Len(commands)].stamp >= now - Delay
  /\ \/ commands[Len(commands)].stamp = Period
     \/ commands[Len(commands)].stamp - Period < now - Delay

DelayInv ==
  /\ DelayTypes
  /\ time > 0 => NoGap(buffer, time) /\ applied = buffer[Len(buffer)]

-----------------------------------------------------------------------------
LEMMA DelayStarts == DelayInit => DelayInv
BY DelayAssumption DEF DelayInit, DelayInv, DelayTypes

LEMMA WriteSimKeeps ==
  ASSUME DelayInv, WriteSim PROVE DelayInv'
<1> DEFINE now  == time + Period
           left == AfterReset(now, now - lastWrite)
           new  == [stamp |-> now, run |-> run]
<1>1. /\ Period \in Nat /\ Period > 0 /\ Delay \in Nat /\ time \in Nat /\ run \in Nat
      /\ now \in Nat /\ now - lastWrite = Period
  BY DelayAssumption DEF DelayInv, DelayTypes
<1>2. PICK n \in 0..Len(left) :
        /\ Left(left, now, n)
        /\ buffer' = <<new>> \o SubSeq(left, 1, n)
        /\ time' = now /\ lastWrite' = now
  BY DEF WriteSim
<1>3. applied' = buffer'[Len(buffer')] /\ run' = run
  BY DEF WriteSim
<1>4. /\ left \in Seq(Command) /\ new \in Command
      /\ time = 0 => left = <<>>
      /\ time > 0 => left = buffer
  BY <1>1 DEF AfterReset, DelayInv, DelayTypes, Command
<1> HIDE DEF now, left, new
<1>5. n \in Nat /\ n <= Len(left) /\ Len(left) \in Nat
  BY <1>2, <1>4
<1>6. SubSeq(left, 1, n) \in Seq(Command) /\ Len(SubSeq(left, 1, n)) = n
      /\ \A i \in 1..n : SubSeq(left, 1, n)[i] = left[i]
  BY <1>4, <1>5
<1>7. /\ buffer' \in Seq(Command) /\ Len(buffer') = n + 1 /\ buffer'[1] = new
      /\ \A i \in 2..(n + 1) : buffer'[i] = left[i - 1]
  BY <1>2, <1>4, <1>5, <1>6
<1>8. DelayTypes'
  BY <1>1, <1>2, <1>3, <1>7 DEF DelayTypes, now
<1>9. new.stamp = now /\ new.run = run
  BY DEF new
<1>10. CASE n = 0
  <2>1. time = 0 \/ Delay < Period
    <3>1. CASE time > 0
      <4>1. Len(left) \in 1..Len(left) /\ 1 \in (n + 1)..Len(left) /\ left[1].stamp = time
        BY <1>4, <1>5, <1>10, <3>1 DEF DelayInv, NoGap
      <4>2. left[1].stamp + Delay < now
        BY <1>2, <4>1 DEF Left
      <4> QED BY <1>1, <4>1, <4>2 DEF now
    <3> QED BY <1>1, <3>1
  <2>2. now = Period \/ now - Period < now - Delay
    BY <1>1, <2>1 DEF now
  <2>3. now \in Period..now /\ now >= now - Delay
    BY <1>1 DEF now
  <2>4. NoGap(buffer, time)'
    BY <1>3, <1>7, <1>9, <1>10, <2>2, <2>3, <1>1, <1>2 DEF NoGap
  <2> QED BY <1>2, <1>3, <1>8, <2>4 DEF DelayInv
<1>11. CASE n > 0
  <2>1. time > 0 /\ left = buffer
    <3>1. time # 0
      BY <1>4, <1>5, <1>11
    <3> QED BY <1>1, <1>4, <3>1
  <2>2. NoGap(left, time)
    BY <2>1 DEF DelayInv
  <2>3. left[n].stamp \in Period..time /\ left[n].run = run
    BY <1>5, <1>11, <2>2 DEF NoGap
  <2>4. left[n].stamp >= now - Delay
    BY <1>1, <1>2, <1>11, <2>3 DEF Left
  <2>5. left[n].stamp = Period \/ left[n].stamp - Period < now - Delay
    <3>1. CASE n = Len(left)
      BY <1>1, <2>2, <2>3, <3>1 DEF NoGap, now
    <3>2. CASE n < Len(left)
      <4>1. left[n + 1].stamp = left[n].stamp - Period
        BY <1>5, <1>11, <2>2, <3>2 DEF NoGap
      <4>2. left[n + 1].stamp + Delay < now
        BY <1>2, <1>5, <3>2 DEF Left
      <4> QED BY <1>1, <2>3, <4>1, <4>2
    <3> QED BY <1>5, <3>1, <3>2
  <2>6. \A i \in 1..(n + 1) : buffer'[i].run = run /\ buffer'[i].stamp \in Period..now
    <3> SUFFICES ASSUME NEW i \in 1..(n + 1)
                 PROVE  buffer'[i].run = run /\ buffer'[i].stamp \in Period..now
      OBVIOUS
    <3>1. CASE i = 1
      BY <1>1, <1>7, <1>9, <3>1 DEF now
    <3>2. CASE i > 1
      <4>1. i - 1 \in 1..Len(left) /\ buffer'[i] = left[i - 1]
        BY <1>5, <1>7, <3>2
      <4>2. left[i - 1].run = run /\ left[i - 1].stamp \in Period..time
        BY <2>2, <4>1 DEF NoGap
      <4> QED BY <1>1, <4>1, <4>2 DEF now
    <3> QED BY <3>1, <3>2
  <2>7. \A i \in 1..n : buffer'[i + 1].stamp = buffer'[i].stamp - Period
    <3> SUFFICES ASSUME NEW i \in 1..n PROVE buffer'[i + 1].stamp = buffer'[i].stamp - Period
      OBVIOUS
    <3>1. buffer'[i + 1] = left[i]
      BY <1>5, <1>7
    <3>2. CASE i = 1
      BY <1>1, <1>7, <1>9, <2>2, <3>1, <3>2 DEF NoGap, now
    <3>3. CASE i > 1
      <4>1. buffer'[i] = left[i - 1] /\ i - 1 \in 1..(Len(left) - 1)
        BY <1>5, <1>7, <3>3
      <4>2. left[i].stamp = left[i - 1].stamp - Period
        BY <2>2, <4>1 DEF NoGap
      <4> QED BY <3>1, <4>1, <4>2
    <3> QED BY <3>2, <3>3
  <2>8. buffer'[n + 1] = left[n]
    BY <1>5, <1>7, <1>11
  <2>9. NoGap(buffer, time)'
    BY <1>3, <1>7, <1>9, <2>4, <2>5, <2>6, <2>7, <2>8, <1>1, <1>2, <1>5, SMTT(30) DEF NoGap
  <2> QED BY <1>2, <1>3, <1>8, <2>9 DEF DelayInv
<1> QED BY <1>5, <1>10, <1>11

LEMMA ResetWorldKeeps ==
  ASSUME DelayInv, ResetWorld PROVE DelayInv'
BY DEF DelayInv, DelayTypes, ResetWorld

(* In every run of the simulation, for every step and every delay, the     *)
(* joint moves by the oldest command of this run that is not older than    *)
(* the delay.                                                              *)
THEOREM DelayHolds == DelaySpec => []DelayKept
<1>1. DelayInit => DelayInv
  BY DelayStarts
<1>2. DelayInv /\ [DelayNext]_dcVars => DelayInv'
  <2> SUFFICES ASSUME DelayInv, [DelayNext]_dcVars PROVE DelayInv'
    OBVIOUS
  <2>1. CASE UNCHANGED dcVars
    BY <2>1 DEF DelayInv, DelayTypes, NoGap, dcVars
  <2> QED BY <2>1, WriteSimKeeps, ResetWorldKeeps DEF DelayNext
<1>3. DelayInv => DelayKept
  <2> SUFFICES ASSUME DelayInv, time > 0 PROVE DelayKept
    BY DEF DelayKept
  <2>1. NoGap(buffer, time) /\ applied = buffer[Len(buffer)] /\ Len(buffer) \in Nat
    BY DEF DelayInv, DelayTypes
  <2>2. Len(buffer) \in 1..Len(buffer)
    BY <2>1 DEF NoGap
  <2> QED BY <2>1, <2>2 DEF NoGap, DelayKept
<1> QED BY <1>1, <1>2, <1>3, PTL DEF DelaySpec

-----------------------------------------------------------------------------
(* The MuJoCo bridge: a receiver holds the newest message it has handled,  *)
(* whoever uses it is behind, and no stamp is ahead of the clock.          *)
BridgeInv ==
  /\ clock \in Nat
  /\ lowCmd \subseteq 1..clock /\ lowState \subseteq 1..clock
  /\ lastCmd \in 0..clock /\ recvCmd_ = lastCmd /\ recvCmd \in 0..lastCmd
  /\ lastState \in 0..clock /\ recvState_ = lastState /\ state \in 0..lastState

LEMMA BridgeStep ==
  ASSUME BridgeInv, [BridgeNext]_lbVars PROVE BridgeInv'
<1> USE DEF BridgeInv, lbSimulator, lbNode
<1>1. CASE HandleLowCmd
  BY <1>1 DEF HandleLowCmd, Newer
<1>2. CASE Iterate
  BY <1>2 DEF Iterate, StateStamp
<1>3. CASE LoadModel
  BY <1>3 DEF LoadModel
<1>4. CASE RestartSimulator
  BY <1>4 DEF RestartSimulator
<1>5. CASE HandleLowState
  BY <1>5 DEF HandleLowState, Newer
<1>6. CASE Read
  BY <1>6 DEF Read
<1>7. CASE Write
  BY <1>7 DEF Write, CmdStamp
<1>8. CASE RestartNode
  BY <1>8 DEF RestartNode
<1>9. CASE UNCHANGED lbVars
  BY <1>9 DEF lbVars
<1> QED BY <1>1, <1>2, <1>3, <1>4, <1>5, <1>6, <1>7, <1>8, <1>9 DEF BridgeNext

LEMMA BridgeInvHolds == BridgeSpec => []BridgeInv
<1>1. BridgeInit => BridgeInv
  BY DEF BridgeInit, BridgeInv
<1> QED BY <1>1, BridgeStep, PTL DEF BridgeSpec

(* After any restarts of either process, and of the time of the            *)
(* simulation, the next message of each is taken by the other (the stamps  *)
(* of main.cc and LeggedMujocoSim.cpp, the comparison of MujocoLcm.cpp).   *)
THEOREM NextTaken == BridgeSpec => []NextIsTaken
<1>1. BridgeInv => NextIsTaken
  BY DEF BridgeInv, NextIsTaken, Newer, CmdStamp, StateStamp
<1> QED BY <1>1, BridgeInvHolds, PTL

(* Neither side goes back to an older message, in whatever order and how   *)
(* often they come (the handlers of MujocoLcm.cpp).                        *)
THEOREM NeverOlderHolds == BridgeSpec => NeverOlder
<1> DEFINE Forward == /\ recvCmd' >= recvCmd \/ recvCmd' = 0
                      /\ state' >= state \/ state' = 0
<1>1. BridgeInv /\ [BridgeNext]_lbVars => [Forward]_lbVars
  <2> SUFFICES ASSUME BridgeInv, BridgeNext PROVE Forward
    OBVIOUS
  <2>1. recvCmd' \in {recvCmd, recvCmd_, 0}
    BY DEF BridgeNext, HandleLowCmd, Iterate, LoadModel, RestartSimulator,
           HandleLowState, Read, Write, RestartNode, lbSimulator
  <2>2. state' \in {state, recvState_, 0}
    BY DEF BridgeNext, HandleLowCmd, Iterate, LoadModel, RestartSimulator,
           HandleLowState, Read, Write, RestartNode, lbNode
  <2> QED BY <2>1, <2>2 DEF BridgeInv
<1> QED BY <1>1, BridgeInvHolds, PTL DEF BridgeSpec, NeverOlder
==============================================================================
