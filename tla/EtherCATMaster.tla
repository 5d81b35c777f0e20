--------------------------- MODULE EtherCATMaster ---------------------------
(***************************************************************************)
(* The EtherCAT side of the hardware node: EtherCAT_Init and its retries,  *)
(* the control loop that receives and sends process data, and the check    *)
(* thread that brings slaves back to OPERATIONAL. Both threads count       *)
(* errors and call degraded_handler, which only prints.                    *)
(*                                                                         *)
(* al[s] is the state slave s is really in, state[s] what ec_slave[s]      *)
(* says of it. SAFE_OP_ERROR is SAFE_OP + ERROR, INIT any lower state, and *)
(* NONE a read that was not answered. A slave that does not answer to its  *)
(* own address is GONE, or back in INIT without one (UNADDRESSED) or with  *)
(* the temporary one ec_recover_slave gives it for a while (TEMP).         *)
(***************************************************************************)
EXTENDS Integers

CONSTANTS
  NumSlaves,                \* SLAVE_NUMBER
  Attempts,                 \* bound of EtherCAT_Init's loop: 10 in the code
  ErrPeriod, ErrMax,        \* K_ETHERCAT_ERR_PERIOD, K_ETHERCAT_ERR_MAX
  MaxFaults                 \* bound on faults of slaves and lost datagrams

ASSUME MasterAssumption ==
  /\ NumSlaves \in Nat \ {0} /\ Attempts \in Nat \ {0, 1}
  /\ ErrPeriod \in Nat /\ ErrMax \in 0..(ErrPeriod - 1) /\ MaxFaults \in Nat

Slave == 1..NumSlaves
Reachable == {"OP", "SAFE_OP", "SAFE_OP_ERROR", "INIT"}
Elsewhere == {"UNADDRESSED", "TEMP"}

VARIABLES
  rt,                       \* where the main, later the control loop's, thread is
  try,                      \* i of EtherCAT_Init's loop
  ec_slavecount, inOP,
  wkcLow,                   \* wkc < expectedWKC
  wkcErrs, wkcIters,        \* wkc_err_count, wkc_err_iteration_count
  check, slave,             \* where the check thread is, and its loop variable
  errs, iters,              \* err_count, err_iteration_count
  docheckstate, state, islost,
  al,
  degraded,                 \* degraded_handler has been called
  faults

rtVars    == <<rt, try, ec_slavecount, inOP>>
wkcVars   == <<wkcLow, wkcErrs, wkcIters>>
checkVars == <<check, slave, errs, iters, docheckstate, islost>>
vars == <<rtVars, wkcVars, checkVars, state, al, degraded, faults>>

Found == 1..ec_slavecount

-----------------------------------------------------------------------------
Init ==
  /\ rt = "starting" /\ try = 1 /\ ec_slavecount = 0 /\ inOP = FALSE
  /\ wkcLow = FALSE /\ wkcErrs = 0 /\ wkcIters = 0
  /\ check = "tick" /\ slave = 1 /\ errs = 0 /\ iters = 0
  /\ docheckstate = FALSE
  /\ state = [s \in Slave |-> "NONE"] /\ islost = [s \in Slave |-> FALSE]
  /\ al = [s \in Slave |-> "INIT"]
  /\ degraded = FALSE /\ faults = 0

(* The list of slaves is cleared, and filled with the n found.             *)
ListIs(n, first) == /\ ec_slavecount' = n
                    /\ state' = [s \in Slave |-> IF s <= n THEN first ELSE "NONE"]

(* run_ethercat reaches OPERATIONAL with the slaves it has found, which a  *)
(* broadcast tells it: what the list says of each of them stays as it was  *)
(* when the slave was configured. wkc is still 0.                          *)
RunSucceeds ==
  /\ rt = "starting" /\ try < Attempts
  /\ \E n \in Slave :
       /\ ListIs(n, "INIT")
       /\ al' = [s \in Slave |-> IF s <= n THEN "OP" ELSE al[s]]
  /\ inOP' = TRUE /\ wkcLow' = TRUE
  /\ rt' = "firstSend"
  /\ UNCHANGED <<try, wkcErrs, wkcIters, checkVars, degraded, faults>>

(* It does not: no socket, nothing found, or not every slave becomes       *)
(* operational, and then each is read.                                     *)
RunFails ==
  /\ rt = "starting" /\ try < Attempts
  /\ \/ UNCHANGED <<ec_slavecount, state, al, wkcLow>>
     \/ \E n \in 0..NumSlaves :
          /\ ListIs(n, "SAFE_OP")
          /\ al' = [s \in Slave |-> IF s <= n THEN "SAFE_OP" ELSE al[s]]
          /\ wkcLow' = (wkcLow \/ n > 0)
  /\ inOP' = FALSE
  /\ try' = try + 1
  /\ UNCHANGED <<rt, wkcErrs, wkcIters, checkVars, degraded, faults>>

(* EtherCAT_Init gives up. Without slaves BridgeHW::init returns false,    *)
(* which nobody looks at: the control loop starts all the same.            *)
GiveUp ==
  /\ rt = "starting" /\ try = Attempts
  /\ rt' = IF ec_slavecount = 0 THEN "read" ELSE "firstSend"
  /\ UNCHANGED <<try, ec_slavecount, inOP, wkcVars, checkVars, state, al,
                 degraded, faults>>

-----------------------------------------------------------------------------
(* The control loop.                                                       *)

(* EtherCAT_Get_State: the working counter is complete if every slave is   *)
(* operational and no frame was lost.                                      *)
GetState ==
  /\ rt \in {"firstReceive", "read"}
  /\ \E dropped \in BOOLEAN :
       LET low == dropped \/ Found = {} \/ \E s \in Found : al[s] # "OP"
       IN /\ wkcLow' = low
          /\ wkcErrs' = IF low THEN wkcErrs + 1 ELSE wkcErrs
  /\ wkcIters' = wkcIters + 1
  /\ rt' = IF rt = "read" THEN "write" ELSE "read"
  /\ UNCHANGED <<try, ec_slavecount, inOP, checkVars, state, al, degraded,
                 faults>>

(* The count both threads look at: forgotten at the end of a period.       *)
Counted(count, iterations) == IF iterations > ErrPeriod THEN 0 ELSE count

(* EtherCAT_Send_Command.                                                  *)
SendCommand ==
  /\ rt \in {"firstSend", "write"}
  /\ wkcErrs'  = Counted(wkcErrs, wkcIters)
  /\ wkcIters' = Counted(wkcIters, wkcIters)
  /\ degraded' = (degraded \/ wkcErrs' > ErrMax)
  /\ rt' = IF rt = "write" THEN "read" ELSE "firstReceive"
  /\ UNCHANGED <<try, ec_slavecount, inOP, wkcLow, checkVars, state, al, faults>>

-----------------------------------------------------------------------------
(* The check thread, ecatcheck.                                            *)

(* A slave fails, or a datagram of the check thread is lost, or its answer,*)
(* as often as SOEM sends it.                                              *)
OneMoreFault == faults < MaxFaults /\ faults' = faults + 1

(* Read at its own address, a slave tells its state.                       *)
Seen(s) == IF al[s] \in Reachable THEN al[s] ELSE "NONE"

(* One broadcast may do for all: it is answered without an address too,    *)
(* and believed when every slave answers, in one state and without error.  *)
AllLow == \A s \in Found : al[s] \in {"INIT"} \cup Elsewhere
Broadcast(s) == IF AllLow THEN "INIT" ELSE Seen(s)

(* ec_readstate: the slaves are asked one by one if the broadcast is lost. *)
ReadState ==
  \E lost \in {"nothing", "broadcast", "all"} :
    /\ IF lost = "nothing" THEN UNCHANGED faults ELSE OneMoreFault
    /\ state' = [s \in Slave |->
                   IF s \notin Found THEN state[s]
                   ELSE IF lost = "nothing" THEN Broadcast(s)
                   ELSE IF lost = "broadcast" THEN Seen(s) ELSE "NONE"]

(* Mutants: the working counter is not looked at; the check does not wait  *)
(* for OPERATIONAL.                                                        *)
NeedsCheckLatched  == inOP /\ docheckstate
NeedsCheckAnytime  == wkcLow \/ docheckstate

NeedsCheck == inOP /\ (wkcLow \/ docheckstate)

(* The head of the loop.                                                   *)
Tick ==
  /\ check = "tick"
  /\ errs' = Counted(errs, iters)
  /\ IF errs' > ErrMax
       THEN /\ check' = "ended" /\ degraded' = TRUE
            /\ iters' = Counted(iters, iters)
            /\ UNCHANGED <<slave, docheckstate, state, faults>>
       ELSE /\ iters' = Counted(iters, iters) + 1
            /\ UNCHANGED degraded
            /\ IF NeedsCheck /\ Found # {}
                 THEN /\ docheckstate' = FALSE
                      /\ ReadState
                      /\ check' = "check" /\ slave' = 1
                 ELSE UNCHANGED <<docheckstate, state, check, slave, faults>>
  /\ UNCHANGED <<rtVars, wkcVars, islost, al>>

(* Slaves are written to when they still answer.                           *)
Becomes(s, new) == al' = [al EXCEPT ![s] = IF al[s] \in Reachable THEN new ELSE al[s]]

(* The four branches for a slave that was not operational when read.       *)
AcknowledgeError ==
  /\ state[slave] = "SAFE_OP_ERROR"
  /\ state' = [state EXCEPT ![slave] = "ACK"]
  /\ \E new \in {"SAFE_OP", "SAFE_OP_ERROR"} : Becomes(slave, new)
  /\ errs' = errs + 1
  /\ UNCHANGED <<islost, faults>>

RequestOperational ==
  /\ state[slave] = "SAFE_OP"
  /\ state' = [state EXCEPT ![slave] = "OP"]
  /\ \E new \in {"OP", "SAFE_OP", "SAFE_OP_ERROR"} : Becomes(slave, new)
  /\ errs' = errs + 1
  /\ UNCHANGED <<islost, faults>>

(* ec_reconfig_slave takes the slave from INIT to SAFE_OP, or ends on the  *)
(* way and returns the state reached.                                      *)
Reconfigured(s) ==
  /\ state[s] = "INIT" /\ al[s] \in Reachable
  /\ \E reached \in {"SAFE_OP", "SAFE_OP_ERROR", "INIT"} :
       /\ state' = [state EXCEPT ![s] = reached]
       /\ al' = [al EXCEPT ![s] = reached]
  /\ islost' = [islost EXCEPT ![s] = FALSE]
  /\ UNCHANGED <<errs, faults>>

(* The slave is not there, or its first request is lost: 0. Or it goes     *)
(* away halfway: 0 too, and known.                                         *)
NotReconfigured ==
  /\ state[slave] = "INIT"
  /\ \/ al[slave] \notin Reachable /\ UNCHANGED <<state, al, faults>>
     \/ OneMoreFault /\ UNCHANGED <<state, al>>
     \/ /\ al[slave] \in Reachable /\ OneMoreFault
        /\ state' = [state EXCEPT ![slave] = "NONE"]
        /\ al' = [al EXCEPT ![slave] = "GONE"]
  /\ UNCHANGED <<islost, errs>>

CheckAgain ==
  /\ state[slave] = "NONE"
  /\ UNCHANGED al
  /\ IF islost[slave]
       THEN UNCHANGED <<state, islost, errs, faults>>
       ELSE \E seen \in {Seen(slave), "NONE"} :
              /\ IF seen = Seen(slave) THEN UNCHANGED faults ELSE OneMoreFault
              /\ state' = [state EXCEPT ![slave] = seen]
              /\ islost' = [islost EXCEPT ![slave] = (seen = "NONE")]
              /\ errs' = IF seen = "NONE" THEN errs + 1 ELSE errs

(* Mutant: a slave that does not answer is not looked at again.            *)
StaysOnWatchIfAnswering(s) == docheckstate' = (docheckstate \/ state[s] # "NONE")

StaysOnWatch(s) == docheckstate' = TRUE

CheckSlave ==
  /\ check = "check"
  /\ check' = "recover"
  /\ \/ /\ state[slave] = "OP"
        /\ UNCHANGED <<state, al, islost, errs, docheckstate, faults>>
     \/ /\ AcknowledgeError \/ RequestOperational \/ Reconfigured(slave)
           \/ NotReconfigured \/ CheckAgain
        /\ StaysOnWatch(slave)
  /\ UNCHANGED <<rtVars, wkcVars, slave, iters, degraded>>

(* ec_recover_slave: slave s gets the temporary address, which is taken    *)
(* from any other, and with it a new one, or what is left of it.           *)
Readdressed(s, new) ==
  al' = [r \in Slave |-> IF r = s THEN new
                         ELSE IF al[r] = "TEMP" THEN "UNADDRESSED" ELSE al[r]]

(* It finds a slave that has kept its address, or gives it that again.     *)
Recovered(s) ==
  /\ islost[s] /\ state[s] = "NONE" /\ al[s] \in Reachable \cup {"UNADDRESSED"}
  /\ IF al[s] = "UNADDRESSED" THEN Readdressed(s, "INIT") ELSE UNCHANGED al
  /\ islost' = [islost EXCEPT ![s] = FALSE]
  /\ UNCHANGED faults

(* A datagram is lost: the slave keeps no address, or, when it is the last *)
(* one, the temporary address, and EC_NOFRAME is taken for success.        *)
RecoveryInterrupted(s) ==
  /\ islost[s] /\ state[s] = "NONE" /\ al[s] = "UNADDRESSED" /\ OneMoreFault
  /\ \/ Readdressed(s, "UNADDRESSED") /\ UNCHANGED islost
     \/ Readdressed(s, "TEMP") /\ islost' = [islost EXCEPT ![s] = FALSE]

(* No slave at that position, or one with another address.                 *)
NotRecovered(s) ==
  /\ islost[s] /\ state[s] = "NONE"
  /\ \/ al[s] \in {"GONE", "TEMP"} /\ UNCHANGED faults
     \/ OneMoreFault
  /\ UNCHANGED <<al, islost>>

NextSlave ==
  IF slave < ec_slavecount THEN slave' = slave + 1 /\ check' = "check"
                           ELSE slave' = 1 /\ check' = "tick"

RecoverSlave ==
  /\ check = "recover"
  /\ \/ Recovered(slave) \/ RecoveryInterrupted(slave) \/ NotRecovered(slave)
     \/ /\ islost[slave] /\ state[slave] # "NONE"
        /\ islost' = [islost EXCEPT ![slave] = FALSE]
        /\ UNCHANGED <<al, faults>>
     \/ /\ ~islost[slave]
        /\ UNCHANGED <<al, islost, faults>>
  /\ NextSlave
  /\ UNCHANGED <<rtVars, wkcVars, errs, iters, docheckstate, state, degraded>>

-----------------------------------------------------------------------------
(* What happens to slaves. One that loses power loses its address, one off *)
(* the bus for a while keeps it, and leaves operation with an error.       *)
Fault ==
  /\ inOP /\ OneMoreFault
  /\ \E s \in Found :
       \/ al[s] = "OP" /\ al' = [al EXCEPT ![s] = "SAFE_OP_ERROR"]
       \/ al[s] = "OP" /\ al' = [al EXCEPT ![s] = "SAFE_OP"]
       \/ al[s] \in Reachable /\ al' = [al EXCEPT ![s] = "GONE"]
       \/ al[s] = "TEMP" /\ al' = [al EXCEPT ![s] = "UNADDRESSED"]
  /\ UNCHANGED <<rtVars, wkcVars, checkVars, state, degraded>>

ComesBack(s) ==
  /\ al[s] = "GONE"
  /\ \E new \in {"UNADDRESSED", "SAFE_OP_ERROR", "INIT"} : al' = [al EXCEPT ![s] = new]
  /\ UNCHANGED <<rtVars, wkcVars, checkVars, state, degraded, faults>>

ControlLoop == RunSucceeds \/ RunFails \/ GiveUp \/ GetState \/ SendCommand
CheckThread == Tick \/ CheckSlave \/ RecoverSlave

Next == ControlLoop \/ CheckThread \/ Fault \/ \E s \in Slave : ComesBack(s)

Spec == Init /\ [][Next]_vars

(* Both threads run on, slaves come back, and what the check thread asks   *)
(* of a slave that is there, over and over, is done at last.               *)
FairSpec ==
  /\ Spec
  /\ WF_vars(ControlLoop) /\ WF_vars(CheckThread)
  /\ \A s \in Slave :
       /\ WF_vars(ComesBack(s))
       /\ SF_vars(CheckSlave /\ slave = s /\ Reconfigured(s) /\ al'[s] = "SAFE_OP")

-----------------------------------------------------------------------------
(* Properties.                                                             *)
TypeOK ==
  /\ rt \in {"starting", "firstSend", "firstReceive", "read", "write"}
  /\ try \in 1..Attempts /\ ec_slavecount \in 0..NumSlaves
  /\ inOP \in BOOLEAN /\ wkcLow \in BOOLEAN /\ degraded \in BOOLEAN
  /\ wkcErrs \in 0..wkcIters /\ wkcIters \in 0..(ErrPeriod + 2)
  /\ check \in {"tick", "check", "recover", "ended"} /\ slave \in Slave
  /\ iters \in 0..(ErrPeriod + 1) /\ errs \in 0..(ErrMax + NumSlaves)
  /\ docheckstate \in BOOLEAN /\ islost \in [Slave -> BOOLEAN]
  /\ state \in [Slave -> Reachable \cup {"NONE", "ACK"}]
  /\ al \in [Slave -> Reachable \cup Elsewhere \cup {"GONE"}]
  /\ faults \in 0..MaxFaults

(* The check thread is created before the bus is initialised, but touches  *)
(* no slave while run_ethercat still configures them.                      *)
NoCheckDuringInit == rt = "starting" => check \notin {"check", "recover"}

(* A pass of the check thread that does not bind it to look again ends     *)
(* with every slave read as operational and none marked lost, whatever the *)
(* slaves did while it went from one to the next.                          *)
QuietMeansOperational ==
  [][check = "recover" /\ check' = "tick" /\ ~docheckstate' =>
       \A s \in Found : state'[s] = "OP" /\ ~islost'[s]]_vars

Operational == \A s \in Found : al[s] = "OP"

(* The check thread cannot help: a broadcast answered by slaves that have  *)
(* all lost their address never marks one lost, and a slave left at the    *)
(* temporary address is looked for at its own.                             *)
Stranded ==
  \/ \A s \in Found : al[s] = "UNADDRESSED"
  \/ \E s \in Found : al[s] = "TEMP"

(* Once the bus has been operational, the check thread makes it so again   *)
(* after every fault and every lost datagram, one slave after the other    *)
(* and whatever order they fail in, unless it has given up or slaves are   *)
(* stranded.                                                               *)
Recovers == inOP ~> (Operational \/ check = "ended" \/ Stranded)
=============================================================================
