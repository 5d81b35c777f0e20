--------------------------- MODULE DelayedCommands ---------------------------
(***************************************************************************)
(* The delay between the controller and the motors in Gazebo               *)
(* (LeggedHWSim::writeSim). Every step of the simulation puts the commands *)
(* of the joints into a buffer, newest first, and applies the oldest that  *)
(* is not older than the delay. The world can be reset: its clock starts   *)
(* again, while the buffers are still full of commands from before.        *)
(* All joints are treated alike; one stands for them. A command is known   *)
(* by its stamp and by the run of the simulation it was given in.          *)
(***************************************************************************)
EXTENDS Integers, Sequences

CONSTANTS
  Period,                   \* step of the simulation: 1 ms
  Delay,                    \* gazebo/delay: 9 ms
  MaxTime,                  \* bound on the clock
  MaxReset                  \* bound on the resets of the world

ASSUME DelayAssumption ==
  /\ Period \in Nat \ {0} /\ Delay \in Nat /\ MaxTime \in Nat /\ MaxReset \in Nat

VARIABLES
  time, lastWrite,          \* the clock, and when the plugin last wrote
  run,                      \* how often the world has been reset
  buffer,                   \* cmdBuffer_ of the joint, newest command first
  applied                   \* the command the joint moves by

dcVars == <<time, lastWrite, run, buffer, applied>>

Command == [stamp : Int, run : Nat]

DelayInit ==
  /\ time = 0 /\ lastWrite = 0 /\ run = 0
  /\ buffer = <<>> /\ applied = [stamp |-> 0, run |-> 0]

-----------------------------------------------------------------------------
(* Mutant: the buffer survives a reset.                                    *)
AfterResetKept(now, period) == buffer

(* At the first step of a run the period is all the time there was.        *)
AfterReset(now, period) == IF now = period THEN <<>> ELSE buffer

(* The n newest commands are left when those at the old end that are       *)
(* older than the delay are gone.                                          *)
Left(commands, now, n) ==
  /\ n > 0 => commands[n].stamp + Delay >= now
  /\ \A i \in (n + 1)..Len(commands) : commands[i].stamp + Delay < now

WriteSim ==
  /\ time < MaxTime
  /\ LET now  == time + Period
         left == AfterReset(now, now - lastWrite)
     IN  \E n \in 0..Len(left) :
           /\ Left(left, now, n)
           /\ buffer' = <<[stamp |-> now, run |-> run]>> \o SubSeq(left, 1, n)
           /\ time' = now /\ lastWrite' = now
  /\ applied' = buffer'[Len(buffer')]
  /\ UNCHANGED run

(* The plugin forgets when it last wrote; nobody tells the robot.          *)
ResetWorld ==
  /\ run < MaxReset /\ run' = run + 1
  /\ time' = 0 /\ lastWrite' = 0
  /\ UNCHANGED <<buffer, applied>>

DelayNext == WriteSim \/ ResetWorld

DelaySpec == DelayInit /\ [][DelayNext]_dcVars

-----------------------------------------------------------------------------
(* From its first step on, in every run of the simulation, the joint moves *)
(* by a command of this run, by none older than the delay, and by the      *)
(* oldest of those: the delay is there, and nothing from before a reset,   *)
(* whose stamps are ahead of the clock, is ever applied.                   *)
DelayKept ==
  time > 0 =>
    /\ applied.run = run
    /\ applied.stamp \in Period..time
    /\ applied.stamp >= time - Delay
    /\ applied.stamp = Period \/ applied.stamp - Period < time - Delay
=============================================================================
