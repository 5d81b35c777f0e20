---------------------------- MODULE CommandQueue ----------------------------
(***************************************************************************)
(* The operator's console of the motor test program (command.cpp, main.cpp *)
(* and the task thread of transmit.cpp). The main thread turns each command *)
(* into a message for one slave and hands it to sendToQueue; the task       *)
(* thread takes at most one message per slave and cycle, copies it to the  *)
(* slave's Tx_Message and sends every Tx_Message again in every cycle.     *)
(* One lock-free single-producer single-consumer queue per slave.          *)
(* Commands are numbered 1, 2, ... in the order they are typed.            *)
(***************************************************************************)
EXTENDS Naturals, Sequences, FiniteSets

CONSTANTS
  NumSlaves,                \* ec_slavecount
  Capacity,                 \* of one queue: 10 in the code
  NumCommands               \* bound on the commands typed

ASSUME QueueAssumption ==
  /\ NumSlaves \in Nat \ {0} /\ Capacity \in Nat \ {0} /\ NumCommands \in Nat

Slaves   == 1..NumSlaves
Commands == 1..NumCommands

VARIABLES
  messages,                 \* messages[s]: queue of slave s, oldest first
  Tx_Message,               \* Tx_Message[s]: command copied last, 0 for none
  outputs,                  \* outputs[s]: what the slave receives
  slave,                    \* slave EtherCAT_Command_Set is at
  console,                  \* where the main thread is in sendToQueue
  typed,                    \* number of commands typed so far
  target,                   \* slave of the command being handed over
  (* history *)
  copies,                   \* copies[c]: pushes of command c, 2 for 2 or more
  hurried                   \* commands that met a full queue

vars == <<messages, Tx_Message, outputs, slave, console, typed, target,
          copies, hurried>>

-----------------------------------------------------------------------------
Init ==
  /\ messages   = [s \in Slaves |-> <<>>]
  /\ Tx_Message = [s \in Slaves |-> 0]
  /\ outputs    = [s \in Slaves |-> 0]
  /\ slave = 1 /\ console = "reading" /\ typed = 0 /\ target = 1
  /\ copies = [c \in Commands |-> 0] /\ hurried = {}

RoomFor(s) == Len(messages[s]) < Capacity      \* write_available()

(* Mutant: the newest command goes to the front of the queue.              *)
TryPushPreempting(s, c) ==
  IF RoomFor(s)
    THEN /\ messages' = [messages EXCEPT ![s] = <<c>> \o @]
         /\ copies' = [copies EXCEPT ![c] = IF @ = 0 THEN 1 ELSE 2]
    ELSE UNCHANGED <<messages, copies>>

(* spsc_queue::push; it returns RoomFor(s).                                *)
TryPush(s, c) ==
  IF RoomFor(s)
    THEN /\ messages' = [messages EXCEPT ![s] = Append(@, c)]
         /\ copies' = [copies EXCEPT ![c] = IF @ = 0 THEN 1 ELSE 2]
    ELSE UNCHANGED <<messages, copies>>

(* A command is read and sendToQueue asks whether there is room.           *)
ReadLine ==
  /\ console = "reading" /\ typed < NumCommands
  /\ typed' = typed + 1
  /\ \E s \in Slaves :
       /\ target' = s
       /\ console' = IF RoomFor(s) THEN "pushing" ELSE "waiting"
       /\ hurried' = IF RoomFor(s) THEN hurried ELSE hurried \cup {typed + 1}
  /\ UNCHANGED <<messages, Tx_Message, outputs, slave, copies>>

(* Mutant: the loop follows the push, as if there were no else.            *)
PushAtOnceFallsThrough ==
  /\ console = "pushing"
  /\ TryPush(target, typed)
  /\ console' = "waiting"
  /\ UNCHANGED <<Tx_Message, outputs, slave, typed, target, hurried>>

(* There was room; what push returns is ignored.                           *)
PushAtOnce ==
  /\ console = "pushing"
  /\ TryPush(target, typed)
  /\ console' = "reading"
  /\ UNCHANGED <<Tx_Message, outputs, slave, typed, target, hurried>>

(* while (push(msg)) sleep(1): the loop goes on while push succeeds.       *)
PushInLoop ==
  /\ console = "waiting"
  /\ TryPush(target, typed)
  /\ console' = IF RoomFor(target) THEN "sleeping" ELSE "reading"
  /\ UNCHANGED <<Tx_Message, outputs, slave, typed, target, hurried>>

WakeUp ==
  /\ console = "sleeping"
  /\ console' = "waiting"
  /\ UNCHANGED <<messages, Tx_Message, outputs, slave, typed, target, copies,
                 hurried>>

(* Mutant: the loop over the slaves stops one short.                       *)
NextSlaveOneShort(s) == IF s >= NumSlaves - 1 THEN 1 ELSE s + 1

NextSlave(s) == IF s = NumSlaves THEN 1 ELSE s + 1

(* EtherCAT_Command_Set for one slave.                                     *)
EtherCAT_Command_Set ==
  /\ IF messages[slave] = <<>>
       THEN UNCHANGED <<messages, Tx_Message>>
       ELSE /\ Tx_Message' = [Tx_Message EXCEPT ![slave] = Head(messages[slave])]
            /\ messages' = [messages EXCEPT ![slave] = Tail(@)]
  /\ outputs' = [outputs EXCEPT ![slave] = Tx_Message'[slave]]
  /\ slave' = NextSlave(slave)
  /\ UNCHANGED <<console, typed, target, copies, hurried>>

SendToQueue == PushAtOnce \/ PushInLoop \/ WakeUp

Next == ReadLine \/ SendToQueue \/ EtherCAT_Command_Set

Spec == Init /\ [][Next]_vars

(* The task thread loops for ever and a call of sendToQueue goes on.       *)
FairSpec == Spec /\ WF_vars(EtherCAT_Command_Set) /\ WF_vars(SendToQueue)

-----------------------------------------------------------------------------
(* Properties.                                                             *)
TypeOK ==
  /\ messages \in [Slaves -> Seq(Commands)]
  /\ \A s \in Slaves : Len(messages[s]) <= Capacity
  /\ Tx_Message \in [Slaves -> 0..NumCommands]
  /\ outputs \in [Slaves -> 0..NumCommands]
  /\ slave \in Slaves /\ target \in Slaves
  /\ console \in {"reading", "pushing", "waiting", "sleeping"}
  /\ typed \in 0..NumCommands
  /\ copies \in [Commands -> 0..2]
  /\ hurried \subseteq Commands

(* Every slave is sent its commands in the order they were typed, whatever *)
(* the queue loses or repeats: the one it receives, the one copied last and *)
(* those in the queue.                                                     *)
TypedOrder ==
  \A s \in Slaves :
    /\ outputs[s] <= Tx_Message[s]
    /\ \A i \in 1..Len(messages[s]) :
         /\ Tx_Message[s] <= messages[s][i]
         /\ \A j \in 1..i : messages[s][j] <= messages[s][i]

(* A command that found room is queued exactly once when sendToQueue       *)
(* returns: nothing fills the queue between the question and the push.     *)
(* Only a command that met a full queue can be lost or repeated.           *)
OnceIfRoom ==
  \A c \in 1..typed : c \notin hurried =>
    copies[c] = IF c = typed /\ console # "reading" THEN 0 ELSE 1

Queued(s, c) == \E i \in 1..Len(messages[s]) : messages[s][i] = c

(* Every message in a queue reaches its slave, also while the console is   *)
(* stuck with another one.                                                 *)
QueuedIsSent ==
  \A s \in Slaves, c \in Commands : Queued(s, c) ~> outputs[s] = c

(* With a full queue the console prints "Queue Fulled, Waiting For Command *)
(* Executing": the command is queued once there is room.                   *)
NothingLost ==
  \A c \in 1..typed : copies[c] > 0 \/ (c = typed /\ console # "reading")
=============================================================================
