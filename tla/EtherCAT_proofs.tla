--------------------------- MODULE EtherCAT_proofs ---------------------------
(***************************************************************************)
(* For any number of slaves, attempts, faults and error limits: the check  *)
(* thread keeps off slaves that are being configured, and a pass ends its  *)
(* watch only when it has read every slave as operational.                 *)
(* For any number of buffers, as long as send() succeeds: the control loop *)
(* and the check thread use one index only when every other is in use,     *)
(* however many indices late answers have cost, and until these are too    *)
(* many what a thread copies is the answer to its own datagram.            *)
(***************************************************************************)
EXTENDS EtherCATMaster, EtherCATPort, FiniteSetTheorems, TLAPS

-----------------------------------------------------------------------------
(* The master and its check thread (EtherCATMaster).                       *)

Settled(s) == state[s] = "OP" /\ ~islost[s]

(* What watching (NeverUnwatched) needs of the types.                       *)
CheckOK ==
  /\ ec_slavecount \in 0..NumSlaves
  /\ check \in {"tick", "check", "recover", "ended"}
  /\ check \in {"check", "recover"} => slave \in Found
  /\ slave \in Slave
  /\ state \in [Slave -> Reachable \cup {"NONE", "ACK"}]
  /\ islost \in [Slave -> BOOLEAN]
  /\ docheckstate \in BOOLEAN

(* Before the bus is operational the check thread has done nothing.        *)
Untouched ==
  /\ rt = "starting" => ~inOP
  /\ ~inOP => /\ check \in {"tick", "ended"} /\ ~docheckstate
              /\ \A s \in Slave : ~islost[s]

(* In a pass that has not yet decided to look again, the slaves already    *)
(* visited are settled.                                                    *)
Quiet ==
  inOP /\ ~docheckstate =>
    /\ check = "check"   => \A s \in Found : s < slave => Settled(s)
    /\ check = "recover" => /\ \A s \in Found : s < slave => Settled(s)
                            /\ state[slave] = "OP"

MInv == CheckOK /\ Untouched /\ Quiet

-----------------------------------------------------------------------------
LEMMA FoundSlaves ==
  ASSUME CheckOK PROVE Found \subseteq Slave
BY MasterAssumption DEF CheckOK, Found, Slave

(* Only the check thread disturbs what MInv says of a running bus.         *)
LEMMA CheckThreadAlone ==
  ASSUME MInv, UNCHANGED <<ec_slavecount, inOP, checkVars, state>>,
         rt' = "starting" => rt = "starting"
  PROVE  MInv'
BY DEF MInv, CheckOK, Untouched, Quiet, Settled, Found, checkVars

LEMMA Starting ==
  ASSUME MInv, RunSucceeds \/ RunFails \/ GiveUp
  PROVE  MInv'
<1>1. rt = "starting" /\ ~inOP /\ UNCHANGED checkVars
  BY DEF MInv, Untouched, RunSucceeds, RunFails, GiveUp
<1>2. /\ check \in {"tick", "ended"} /\ check' = check /\ ~docheckstate'
      /\ \A s \in Slave : ~islost'[s]
  BY <1>1 DEF MInv, Untouched, checkVars
<1>3. ec_slavecount' \in 0..NumSlaves
  BY MasterAssumption DEF MInv, CheckOK, RunSucceeds, RunFails, GiveUp, ListIs, Slave
<1>4. state' \in [Slave -> Reachable \cup {"NONE", "ACK"}]
  BY DEF MInv, CheckOK, RunSucceeds, RunFails, GiveUp, ListIs, Reachable
<1>5. CheckOK'
  BY <1>1, <1>2, <1>3, <1>4 DEF MInv, CheckOK, checkVars
<1>6. rt' = "starting" => ~inOP'
  BY <1>1 DEF RunSucceeds, RunFails, GiveUp
<1> QED BY <1>2, <1>5, <1>6 DEF MInv, Untouched, Quiet

LEMMA TickStep ==
  ASSUME MInv, Tick
  PROVE  MInv'
<1> USE DEF MInv, Tick
<1>1. CASE UNCHANGED <<docheckstate, state, check, slave>>
  BY <1>1 DEF CheckOK, Untouched, Quiet, Settled, Found, rtVars
<1>2. CASE check' = "ended" /\ UNCHANGED <<slave, docheckstate, state>>
  BY <1>2 DEF CheckOK, Untouched, Quiet, Settled, Found, rtVars
<1>3. CASE NeedsCheck /\ Found # {} /\ docheckstate' = FALSE /\ check' = "check"
           /\ slave' = 1 /\ ReadState
  <2>1. inOP /\ 1 \in Found /\ 1 \in Slave /\ Found' = Found
    BY <1>3, MasterAssumption DEF NeedsCheck, CheckOK, Found, Slave, rtVars
  <2>2. \A s \in Found : ~(s < 1)
    BY MasterAssumption DEF CheckOK, Found
  <2>3. state' \in [Slave -> Reachable \cup {"NONE", "ACK"}]
    BY <1>3 DEF CheckOK, ReadState, Broadcast, Seen, Reachable
  <2> QED
    BY <1>3, <2>1, <2>2, <2>3 DEF CheckOK, Untouched, Quiet, rtVars
<1> QED BY <1>1, <1>2, <1>3

LEMMA CheckStep ==
  ASSUME MInv, CheckSlave
  PROVE  MInv'
<1> USE DEF MInv
<1>1. /\ check = "check" /\ check' = "recover" /\ slave' = slave /\ inOP
      /\ Found' = Found /\ UNCHANGED rtVars /\ slave \in Found /\ slave \in Slave
  BY FoundSlaves DEF CheckSlave, CheckOK, Untouched, Found, rtVars
<1>2. CASE state[slave] = "OP" /\ UNCHANGED <<state, al, islost, errs, docheckstate, faults>>
  BY <1>1, <1>2 DEF CheckOK, Untouched, Quiet, Settled, rtVars
<1>3. CASE /\ AcknowledgeError \/ RequestOperational \/ Reconfigured(slave)
                \/ NotReconfigured \/ CheckAgain
           /\ docheckstate' = TRUE
  <2>1. /\ state' \in [Slave -> Reachable \cup {"NONE", "ACK"}]
        /\ islost' \in [Slave -> BOOLEAN]
    BY <1>1, <1>3 DEF CheckOK, AcknowledgeError, RequestOperational, Reconfigured,
                      NotReconfigured, CheckAgain, Seen, Reachable
  <2> QED
    BY <1>1, <1>3, <2>1 DEF CheckOK, Untouched, Quiet, rtVars
<1> QED BY <1>2, <1>3 DEF CheckSlave, StaysOnWatch

LEMMA RecoverStep ==
  ASSUME MInv, RecoverSlave
  PROVE  /\ MInv'
         /\ check' = "tick" /\ ~docheckstate' => \A s \in Found : Settled(s)'
<1> USE DEF MInv
<1>1. /\ check = "recover" /\ inOP /\ Found' = Found /\ UNCHANGED <<rtVars, state>>
      /\ docheckstate' = docheckstate /\ slave \in Found /\ slave \in Slave
  BY FoundSlaves DEF RecoverSlave, CheckOK, Untouched, Found, rtVars
<1>2. /\ islost' \in [Slave -> BOOLEAN]
      /\ \A s \in Slave : s # slave => islost'[s] = islost[s]
      /\ state[slave] = "OP" => ~islost'[slave]
  BY <1>1 DEF RecoverSlave, Recovered, RecoveryInterrupted, NotRecovered, CheckOK
<1>3. ASSUME ~docheckstate, NEW s \in Found, s <= slave
      PROVE  Settled(s)'
  <2>1. s \in Slave /\ state' = state
    BY <1>1, FoundSlaves
  <2>2. CASE s = slave
    BY <1>1, <1>2, <1>3, <2>1, <2>2 DEF Quiet, Settled
  <2>3. CASE s < slave
    BY <1>1, <1>2, <1>3, <2>1, <2>3 DEF Quiet, Settled
  <2> QED BY <1>3, <2>2, <2>3, MasterAssumption DEF CheckOK, Found, Slave
<1>4. CASE slave < ec_slavecount
  <2>1. slave' = slave + 1 /\ check' = "check"
    BY <1>4 DEF RecoverSlave, NextSlave
  <2>2. slave' \in Found /\ slave' \in Slave
    BY <1>1, <1>4, <2>1, MasterAssumption DEF CheckOK, Found, Slave
  <2>3. \A s \in Found : s < slave' => s <= slave
    BY <1>1, <2>1, MasterAssumption DEF CheckOK, Found, Slave
  <2> QED
    BY <1>1, <1>2, <1>3, <2>1, <2>2, <2>3 DEF CheckOK, Untouched, Quiet, rtVars
<1>5. CASE ~(slave < ec_slavecount)
  <2>1. slave' = 1 /\ check' = "tick"
    BY <1>5 DEF RecoverSlave, NextSlave
  <2>2. 1 \in Slave /\ \A s \in Found : s <= slave
    BY <1>1, <1>5, MasterAssumption DEF CheckOK, Found, Slave
  <2> QED
    BY <1>1, <1>2, <1>3, <2>1, <2>2 DEF CheckOK, Untouched, Quiet, rtVars
<1> QED BY <1>4, <1>5

-----------------------------------------------------------------------------
LEMMA Inductive == Spec => []MInv
<1>1. Init => MInv
  <2> SUFFICES ASSUME Init PROVE MInv
    OBVIOUS
  <2>1. 1 \in Slave /\ 0 \in 0..NumSlaves
    BY MasterAssumption DEF Slave
  <2>2. CheckOK
    BY <2>1 DEF Init, CheckOK, Reachable
  <2> QED BY <2>2 DEF Init, MInv, Untouched, Quiet
<1>2. MInv /\ [Next]_vars => MInv'
  <2> SUFFICES ASSUME MInv, [Next]_vars PROVE MInv'
    OBVIOUS
  <2>1. CASE GetState \/ SendCommand
    BY <2>1, CheckThreadAlone DEF GetState, SendCommand
  <2>2. CASE Fault \/ \E s \in Slave : ComesBack(s)
    BY <2>2, CheckThreadAlone DEF Fault, ComesBack, rtVars
  <2>3. CASE UNCHANGED vars
    BY <2>3, CheckThreadAlone DEF vars, rtVars
  <2> QED
    BY <2>1, <2>2, <2>3, Starting, TickStep, CheckStep, RecoverStep
    DEF Next, ControlLoop, CheckThread
<1> QED BY <1>1, <1>2, PTL DEF Spec

(* However initialisation is retried, the check thread, which is created   *)
(* first, never reads or writes a slave while run_ethercat configures it.  *)
THEOREM InitUndisturbed == Spec => []NoCheckDuringInit
<1>1. MInv => NoCheckDuringInit
  BY DEF MInv, Untouched, NoCheckDuringInit
<1> QED BY <1>1, Inductive, PTL

(* The check thread ends its watch only with a pass that has read every    *)
(* slave as operational, whatever slaves do during that pass.              *)
THEOREM NeverUnwatched == Spec => QuietMeansOperational
<1>1. MInv /\ [Next]_vars =>
        [check = "recover" /\ check' = "tick" /\ ~docheckstate' =>
           \A s \in Found : state'[s] = "OP" /\ ~islost'[s]]_vars
  <2> SUFFICES ASSUME MInv, [Next]_vars, check = "recover", check' = "tick", ~docheckstate'
               PROVE  \A s \in Found : Settled(s)'
    BY DEF Settled
  <2>1. RecoverSlave
    BY DEF Next, ControlLoop, CheckThread, RunSucceeds, RunFails, GiveUp, GetState, SendCommand,
           Tick, CheckSlave, Fault, ComesBack, checkVars, vars
  <2> QED BY <2>1, RecoverStep
<1> QED BY <1>1, Inductive, PTL DEF Spec, QuietMeansOperational
-----------------------------------------------------------------------------
(* The counters. A pass of the check thread adds at most one error per     *)
(* slave, and the control loop's count is looked at once per iteration, so *)
(* what is forgotten at the end of a period keeps them bounded for ever.   *)
Counters ==
  /\ wkcErrs \in Nat /\ wkcIters \in Nat /\ wkcErrs <= wkcIters
  /\ rt \in {"starting", "firstSend", "firstReceive"} => wkcIters = 0
  /\ rt = "read"  => wkcIters <= ErrPeriod
  /\ rt = "write" => wkcIters <= ErrPeriod + 1
  /\ errs \in Nat /\ iters \in 0..(ErrPeriod + 1)
  /\ check = "check"   => errs + 1 <= ErrMax + slave
  /\ check = "recover" => errs <= ErrMax + slave
  /\ errs <= ErrMax + NumSlaves

Others ==
  /\ rt \in {"starting", "firstSend", "firstReceive", "read", "write"}
  /\ try \in 1..Attempts
  /\ inOP \in BOOLEAN /\ wkcLow \in BOOLEAN /\ degraded \in BOOLEAN
  /\ al \in [Slave -> Reachable \cup Elsewhere \cup {"GONE"}]
  /\ faults \in 0..MaxFaults

LEMMA OthersKept ==
  ASSUME CheckOK, Others, Next PROVE Others'
<1> USE DEF Others
<1>0. ASSUME UNCHANGED faults \/ OneMoreFault PROVE faults' \in 0..MaxFaults
  BY <1>0, MasterAssumption DEF OneMoreFault
<1>1. CASE RunSucceeds \/ RunFails \/ GiveUp
  <2>1. al' \in [Slave -> Reachable \cup Elsewhere \cup {"GONE"}]
    BY <1>1 DEF RunSucceeds, RunFails, GiveUp, Reachable
  <2>2. try' \in 1..Attempts
    BY <1>1, MasterAssumption DEF RunSucceeds, RunFails, GiveUp
  <2>3. inOP' \in BOOLEAN /\ wkcLow' \in BOOLEAN /\ degraded' \in BOOLEAN
    BY <1>1 DEF RunSucceeds, RunFails, GiveUp, wkcVars
  <2> QED
    BY <1>1, <2>1, <2>2, <2>3 DEF RunSucceeds, RunFails, GiveUp
<1>2. CASE GetState \/ SendCommand
  BY <1>2 DEF GetState, SendCommand, checkVars
<1>3. CASE Tick
  <2>1. UNCHANGED faults \/ OneMoreFault
    BY <1>3 DEF Tick, ReadState
  <2> QED BY <1>0, <1>3, <2>1 DEF Tick, rtVars, wkcVars
<1>4. CASE CheckSlave
  <2>1. al' \in [Slave -> Reachable \cup Elsewhere \cup {"GONE"}]
    BY <1>4 DEF CheckSlave, AcknowledgeError, RequestOperational, Reconfigured,
                NotReconfigured, CheckAgain, Becomes, CheckOK, Reachable
  <2>2. UNCHANGED faults \/ OneMoreFault
    BY <1>4 DEF CheckSlave, AcknowledgeError, RequestOperational, Reconfigured,
                NotReconfigured, CheckAgain
  <2> QED BY <1>0, <1>4, <2>1, <2>2 DEF CheckSlave, rtVars, wkcVars
<1>5. CASE RecoverSlave
  <2>1. al' \in [Slave -> Reachable \cup Elsewhere \cup {"GONE"}]
    BY <1>5 DEF RecoverSlave, Recovered, RecoveryInterrupted, NotRecovered,
                Readdressed, CheckOK, Reachable, Elsewhere
  <2>2. UNCHANGED faults \/ OneMoreFault
    BY <1>5 DEF RecoverSlave, Recovered, RecoveryInterrupted, NotRecovered
  <2> QED BY <1>0, <1>5, <2>1, <2>2 DEF RecoverSlave, rtVars, wkcVars
<1>6. CASE Fault
  <2>1. al' \in [Slave -> Reachable \cup Elsewhere \cup {"GONE"}]
    BY <1>6 DEF Fault, Reachable, Elsewhere
  <2>2. faults' \in 0..MaxFaults
    BY <1>0, <1>6 DEF Fault
  <2> QED BY <1>6, <2>1, <2>2 DEF Fault, rtVars, wkcVars, checkVars
<1>7. CASE \E s \in Slave : ComesBack(s)
  BY <1>7 DEF ComesBack, rtVars, wkcVars, checkVars, Reachable, Elsewhere
<1> QED
  BY <1>1, <1>2, <1>3, <1>4, <1>5, <1>6, <1>7 DEF Next, ControlLoop, CheckThread

LEMMA CountersKept ==
  ASSUME CheckOK, Others, Counters, Next PROVE Counters'
<1> USE MasterAssumption
<1>0. /\ NumSlaves \in Nat /\ ErrPeriod \in Nat /\ ErrMax \in Nat /\ ErrPeriod >= 1
      /\ slave \in Nat /\ slave >= 1 /\ slave <= NumSlaves
      /\ ec_slavecount \in Nat /\ ec_slavecount <= NumSlaves
      /\ wkcErrs \in Nat /\ wkcIters \in Nat /\ errs \in Nat /\ iters \in Nat
  BY DEF CheckOK, Counters, Slave
<1>1. CASE RunSucceeds \/ RunFails \/ GiveUp
  BY <1>0, <1>1 DEF Counters, RunSucceeds, RunFails, GiveUp, wkcVars, checkVars
<1>2. CASE GetState
  BY <1>0, <1>2 DEF Counters, GetState, checkVars
<1>3. CASE SendCommand
  BY <1>0, <1>3 DEF Counters, SendCommand, Counted, checkVars
<1>4. CASE Tick
  <2>1. errs' \in Nat /\ errs' <= errs /\ iters' \in 0..(ErrPeriod + 1)
    BY <1>0, <1>4 DEF Counters, Tick, Counted
  <2>2. /\ check' # "recover"
        /\ check' = "check" => slave' = 1 /\ errs' <= ErrMax
    BY <1>0, <1>4, <2>1 DEF Tick
  <2> QED
    BY <1>0, <1>4, <2>1, <2>2 DEF Counters, Tick, rtVars, wkcVars
<1>5. CASE CheckSlave
  <2>1. errs' = errs \/ errs' = errs + 1
    BY <1>5 DEF CheckSlave, AcknowledgeError, RequestOperational, Reconfigured,
                NotReconfigured, CheckAgain
  <2> QED
    BY <1>0, <1>5, <2>1 DEF Counters, CheckSlave, rtVars, wkcVars
<1>6. CASE RecoverSlave
  BY <1>0, <1>6 DEF Counters, RecoverSlave, NextSlave, rtVars, wkcVars
<1>7. CASE Fault \/ \E s \in Slave : ComesBack(s)
  BY <1>7 DEF Counters, Fault, ComesBack, rtVars, wkcVars, checkVars
<1> QED
  BY <1>1, <1>2, <1>3, <1>4, <1>5, <1>6, <1>7 DEF Next, ControlLoop, CheckThread

(* Types, and the bounds of both error counters, of either thread: a       *)
(* count stays below the period plus two, whatever fails and when.         *)
THEOREM MasterTypeCorrect == Spec => []TypeOK
<1>1. Init => Counters /\ Others
  <2> SUFFICES ASSUME Init PROVE Counters /\ Others
    OBVIOUS
  <2>1. Counters
    BY MasterAssumption DEF Init, Counters
  <2>2. 1 \in 1..Attempts /\ 0 \in 0..MaxFaults
    BY MasterAssumption
  <2>3. al \in [Slave -> Reachable \cup Elsewhere \cup {"GONE"}]
    BY DEF Init, Reachable
  <2> QED BY <2>1, <2>2, <2>3 DEF Init, Others
<1>2. MInv /\ (Counters /\ Others) /\ [Next]_vars => (Counters /\ Others)'
  <2> SUFFICES ASSUME MInv, Counters, Others, [Next]_vars PROVE (Counters /\ Others)'
    OBVIOUS
  <2>1. CASE Next
    BY <2>1, OthersKept, CountersKept DEF MInv
  <2>2. CASE UNCHANGED vars
    BY <2>2 DEF vars, rtVars, wkcVars, checkVars, Counters, Others
  <2> QED BY <2>1, <2>2
<1>3. MInv /\ Counters /\ Others => TypeOK
  <2> SUFFICES ASSUME MInv, Counters, Others PROVE TypeOK
    OBVIOUS
  <2>1. wkcIters \in 0..(ErrPeriod + 2) /\ wkcErrs \in 0..wkcIters
    BY MasterAssumption DEF Counters, Others
  <2>2. errs \in 0..(ErrMax + NumSlaves) /\ iters \in 0..(ErrPeriod + 1)
    BY MasterAssumption DEF Counters
  <2> QED BY <2>1, <2>2 DEF MInv, CheckOK, Others, TypeOK
<1> QED BY <1>1, <1>2, <1>3, Inductive, PTL DEF Spec

-----------------------------------------------------------------------------
(* The port both threads send through (EtherCATPort).                      *)

Frame  == [idx : Index, of : Thread \cup {"old"}, copy : Nat, age : Nat]
Answer == [idx : Index, of : Thread \cup {"old"}]

PortTypes ==
  /\ pc \in [Thread -> {"free", "send", "wait", "read", "store", "again", "copy"}]
  /\ idx \in [Thread -> Index]
  /\ sends \in [Thread -> Nat] /\ since \in [Thread -> Nat]
  /\ rxbufstat \in [Index -> {"EMPTY", "ALLOC", "TX", "RCVD", "COMPLETE"}]
  /\ rxbuf \in [Index -> Thread \cup {"old"}] /\ lastidx \in Index
  /\ storing \subseteq Answer /\ wire \subseteq Frame
  /\ sendFailed \in BOOLEAN /\ scarce \in BOOLEAN

(* As long as indices are not scarce a request whose send has not failed   *)
(* keeps its index from being unused, and has it for itself.               *)
InUse ==
  ~sendFailed /\ ~scarce => \A t \in Thread : Busy(t) => rxbufstat[idx[t]] # "EMPTY"

Alone ==
  ~sendFailed /\ ~scarce => (Busy("rt") /\ Busy("check") => idx["rt"] # idx["check"])

FewLost == ~scarce => Cardinality(Ownerless) + Window + 2 <= MaxBuf

PortInv == PortTypes /\ InUse /\ Alone /\ FewLost

-----------------------------------------------------------------------------
LEMMA IndexFinite ==
  IsFiniteSet(Index) /\ Cardinality(Index) = MaxBuf
<1>1. 0 \in Int /\ MaxBuf - 1 \in Int /\ 0 <= MaxBuf - 1
  BY PortAssumption
<1> QED BY <1>1, FS_Interval, PortAssumption DEF Index

LEMMA TriedIsIndex ==
  ASSUME lastidx \in Index, NEW k \in Index PROVE Tried(k) \in Index
<1>1. lastidx + 1 + k \in Nat /\ MaxBuf \in Nat \ {0}
  BY PortAssumption DEF Index
<1>2. (lastidx + 1 + k) % MaxBuf \in 0..(MaxBuf - 1)
  BY <1>1
<1> QED BY <1>2 DEF Tried, Index

(* The fewer indices are without an owner, the better.                     *)
LEMMA FewerLost ==
  ASSUME FewLost, Ownerless' \subseteq Ownerless, scarce' = scarce PROVE FewLost'
<1>1. IsFiniteSet(Ownerless)
  BY IndexFinite, FS_Subset DEF Ownerless
<1>2. Cardinality(Ownerless') <= Cardinality(Ownerless)
  BY <1>1, FS_Subset
<1>3. IsFiniteSet(Ownerless') /\ Cardinality(Ownerless') \in Int /\ Cardinality(Ownerless) \in Int
  BY <1>1, FS_Subset, FS_CardinalityType
<1> QED BY <1>2, <1>3, PortAssumption DEF FewLost

(* While one thread has no request and indices are not scarce, some index  *)
(* is unused.                                                              *)
LEMMA SomeUnused ==
  ASSUME PortTypes, FewLost, ~scarce, NEW t \in Thread, ~Busy(t)
  PROVE  \E i \in Index : rxbufstat[i] = "EMPTY"
<1> SUFFICES ASSUME \A i \in Index : rxbufstat[i] # "EMPTY" PROVE FALSE
  OBVIOUS
<1>1. PICK u : Thread = {t, u}
  BY DEF Thread
<1>2. Held \subseteq {idx[u]}
  BY <1>1 DEF Held
<1>3. Index \ {idx[u]} \subseteq Ownerless
  BY <1>2 DEF Ownerless
<1>4. IsFiniteSet(Ownerless)
  BY IndexFinite, FS_Subset DEF Ownerless
<1>5. Cardinality(Index \ {idx[u]}) <= Cardinality(Ownerless)
  BY <1>3, <1>4, FS_Subset
<1>6. IsFiniteSet(Index \ {idx[u]}) /\ Cardinality(Index \ {idx[u]}) >= MaxBuf - 1
  <2>1. /\ IsFiniteSet(Index \ {idx[u]})
        /\ Cardinality(Index \ {idx[u]}) = IF idx[u] \in Index THEN Cardinality(Index) - 1
                                                             ELSE Cardinality(Index)
    BY IndexFinite, FS_RemoveElement
  <2> QED BY <2>1, IndexFinite, PortAssumption
<1>7. Cardinality(Ownerless) \in Nat /\ Cardinality(Index \ {idx[u]}) \in Nat
  BY <1>4, <1>6, FS_CardinalityType
<1> QED BY <1>5, <1>6, <1>7, PortAssumption DEF FewLost

-----------------------------------------------------------------------------
LEMMA PortStarts == PortInit => PortInv
<1> SUFFICES ASSUME PortInit PROVE PortInv
  OBVIOUS
<1>1. 0 \in Index
  BY PortAssumption DEF Index
<1>2. PortTypes
  BY <1>1 DEF PortInit, PortTypes
<1>3. InUse /\ Alone
  BY DEF PortInit, InUse, Alone, Busy, Thread
<1>4. Ownerless = {}
  BY DEF PortInit, Ownerless
<1>5. FewLost
  BY <1>4, FS_EmptySet, PortAssumption DEF FewLost
<1> QED BY <1>2, <1>3, <1>5 DEF PortInv

LEMMA GetIndexKeeps ==
  ASSUME PortInv, NEW t \in Thread, GetIndex(t) PROVE PortInv'
<1> USE DEF PortInv
<1>1. PICK i \in Index :
        /\ Taken(i) /\ rxbufstat' = [rxbufstat EXCEPT ![i] = "ALLOC"]
        /\ lastidx' = i /\ idx' = [idx EXCEPT ![t] = i]
  BY DEF GetIndex, Status
<1>2. ~Busy(t) /\ pc' = [pc EXCEPT ![t] = "send"]
  BY DEF GetIndex, Goto, Busy
<1>3. ~scarce => rxbufstat[i] = "EMPTY"
  <2> SUFFICES ASSUME ~scarce PROVE rxbufstat[i] = "EMPTY"
    OBVIOUS
  <2>1. PICK j \in Index : rxbufstat[j] = "EMPTY"
    BY <1>2, SomeUnused
  <2> QED BY <1>1, <2>1 DEF Taken
<1>4. \A u \in Thread : u # t /\ ~sendFailed /\ ~scarce /\ Busy(u) => idx[u] # i
  BY <1>3 DEF InUse
<1>5. PortTypes'
  <2>1. Aged(wire) \subseteq Frame
    <3> SUFFICES ASSUME NEW f \in wire PROVE [f EXCEPT !.age = @ + 1] \in Frame
      BY DEF Aged
    <3>1. f \in Frame
      BY DEF PortTypes
    <3> QED BY <3>1 DEF Frame
  <2>2. since' \in [Thread -> Nat]
    BY PortAssumption DEF GetIndex, PortTypes, Older
  <2>3. /\ UNCHANGED <<sends, rxbuf, storing, sendFailed, scarce>>
        /\ wire' = Aged(wire)
    BY DEF GetIndex
  <2> QED BY <1>1, <1>2, <2>1, <2>2, <2>3 DEF PortTypes
<1>6. InUse'
  BY <1>1, <1>2, <1>4 DEF InUse, PortTypes, Busy, GetIndex
<1>7. Alone'
  BY <1>1, <1>2, <1>4 DEF Alone, PortTypes, Busy, GetIndex, Thread
<1>8. Ownerless' \subseteq Ownerless
  <2>1. Held' = Held \cup {i}
    BY <1>1, <1>2 DEF Held, Busy, PortTypes
  <2>2. \A j \in Index \ {i} : rxbufstat'[j] = rxbufstat[j]
    BY <1>1 DEF PortTypes
  <2>3. storing' = storing
    BY DEF GetIndex
  <2> QED BY <2>1, <2>2, <2>3 DEF Ownerless
<1>9. FewLost'
  BY <1>8, FewerLost DEF GetIndex
<1> QED BY <1>5, <1>6, <1>7, <1>9

(* A step of a thread that keeps its request and changes at most what is   *)
(* at one index, which was in use or held, and not to unused.              *)
LEMMA StaysInUse ==
  ASSUME PortInv, NEW i \in Index, NEW stat \in {"TX", "RCVD", "COMPLETE"},
         PortTypes', idx' = idx, \A u \in Thread : Busy(u)' = Busy(u),
         rxbufstat' = [rxbufstat EXCEPT ![i] = stat],
         i \in Held \/ i \in Ownerless,
         \A f \in storing' : f \in storing \/ f.idx \in Held \/ f.idx \in Ownerless,
         sendFailed' = sendFailed, scarce' = scarce
  PROVE  PortInv'
<1> USE DEF PortInv
<1>1. Held' = Held
  BY DEF Held
<1>2. InUse'
  BY DEF InUse, PortTypes
<1>3. Alone'
  BY DEF Alone, Thread
<1>4. Ownerless' \subseteq Ownerless
  BY <1>1 DEF Ownerless, PortTypes
<1> QED BY <1>2, <1>3, <1>4, FewerLost

(* The same with the indices left as they are.                             *)
LEMMA SameUse ==
  ASSUME PortInv, PortTypes', idx' = idx, \A u \in Thread : Busy(u)' = Busy(u),
         rxbufstat' = rxbufstat,
         \A f \in storing' : f \in storing \/ f.idx \in Held \/ f.idx \in Ownerless,
         sendFailed' = sendFailed, scarce' = scarce
  PROVE  PortInv'
<1> USE DEF PortInv
<1>1. Held' = Held
  BY DEF Held
<1>2. InUse' /\ Alone'
  BY DEF InUse, Alone, Thread
<1>3. Ownerless' \subseteq Ownerless
  BY <1>1 DEF Ownerless
<1> QED BY <1>2, <1>3, FewerLost

LEMMA OutFrameKeeps ==
  ASSUME PortInv, NEW t \in Thread, OutFrame(t) PROVE PortInv'
<1> USE DEF PortInv
<1>1. Busy(t) /\ \A u \in Thread : Busy(u)' = Busy(u)
  BY DEF OutFrame, Goto, Busy, PortTypes
<1>2. idx' = idx /\ storing' = storing /\ idx[t] \in Index /\ idx[t] \in Held
      /\ scarce' = scarce
  BY <1>1 DEF OutFrame, PortTypes, Held
<1>3. PortTypes'
  <2>1. Sent(t) \subseteq Frame
    BY DEF Sent, Frame, PortTypes
  <2>2. pc' = [pc EXCEPT ![t] = "wait"] /\ sends' = [sends EXCEPT ![t] = sends[t] + 1]
        /\ UNCHANGED <<idx, since, rxbuf, lastidx, storing, scarce>>
    BY DEF OutFrame, Goto, PortTypes
  <2>3. rxbufstat' \in [Index -> {"EMPTY", "ALLOC", "TX", "RCVD", "COMPLETE"}]
    BY DEF OutFrame, Status, PortTypes
  <2>4. wire' \subseteq Frame /\ sendFailed' \in BOOLEAN
    BY <2>1 DEF OutFrame, PortTypes
  <2> QED BY <2>2, <2>3, <2>4 DEF PortTypes
<1>4. CASE rxbufstat' = [rxbufstat EXCEPT ![idx[t]] = "TX"] /\ sendFailed' = sendFailed
  BY <1>1, <1>2, <1>3, <1>4, StaysInUse
<1>5. CASE sendFailed' /\ rxbufstat' = [rxbufstat EXCEPT ![idx[t]] = "EMPTY"]
  <2>1. Held' = Held
    BY <1>1, <1>2 DEF Held
  <2>2. Ownerless' \subseteq Ownerless
    BY <1>2, <1>5, <2>1 DEF Ownerless, PortTypes
  <2>3. InUse' /\ Alone'
    BY <1>5 DEF InUse, Alone
  <2> QED BY <1>2, <1>3, <2>2, <2>3, FewerLost
<1> QED BY <1>4, <1>5 DEF OutFrame, Status

LEMMA LookInBufferKeeps ==
  ASSUME PortInv, NEW t \in Thread, LookInBuffer(t) PROVE PortInv'
<1> USE DEF PortInv
<1>1. Busy(t) /\ \A u \in Thread : Busy(u)' = Busy(u)
  BY DEF LookInBuffer, Goto, Busy, PortTypes
<1>2. idx' = idx /\ storing' = storing /\ sendFailed' = sendFailed /\ scarce' = scarce
      /\ idx[t] \in Index /\ idx[t] \in Held
  BY <1>1 DEF LookInBuffer, PortTypes, Held
<1>3. PortTypes'
  BY DEF LookInBuffer, PortTypes, Status, Goto
<1>4. CASE rxbufstat' = [rxbufstat EXCEPT ![idx[t]] = "COMPLETE"]
  BY <1>1, <1>2, <1>3, <1>4, StaysInUse
<1>5. CASE rxbufstat' = rxbufstat
  BY <1>1, <1>2, <1>3, <1>5, SameUse
<1> QED BY <1>4, <1>5 DEF LookInBuffer, Status

LEMMA ReadSocketKeeps ==
  ASSUME PortInv, NEW t \in Thread, ReadSocket(t) PROVE PortInv'
<1> USE DEF PortInv
<1>1. Busy(t) /\ \A u \in Thread : Busy(u)' = Busy(u)
  BY DEF ReadSocket, Goto, Busy, PortTypes
<1>2. idx' = idx /\ sendFailed' = sendFailed /\ idx[t] \in Index /\ idx[t] \in Held
      /\ scarce' = scarce
  BY <1>1 DEF ReadSocket, PortTypes, Held
<1>3. \A f \in wire : f \in Frame /\ f.idx \in Index
  BY DEF PortTypes, Frame
<1>4. PortTypes'
  <2>1. \A f \in wire : [idx |-> f.idx, of |-> f.of] \in Answer
    BY <1>3 DEF Frame, Answer
  <2>2. pc' \in [Thread -> {"free", "send", "wait", "read", "store", "again", "copy"}]
    BY DEF ReadSocket, Goto, PortTypes
  <2>3. rxbufstat' \in [Index -> {"EMPTY", "ALLOC", "TX", "RCVD", "COMPLETE"}]
    BY <1>3 DEF ReadSocket, Status, PortTypes
  <2>4. storing' \subseteq Answer /\ wire' \subseteq Frame
    BY <2>1 DEF ReadSocket, PortTypes
  <2>5. rxbuf' \in [Index -> Thread \cup {"old"}]
    BY <1>3 DEF ReadSocket, PortTypes, Frame
  <2> QED BY <1>2, <2>2, <2>3, <2>4, <2>5 DEF ReadSocket, PortTypes
<1>5. CASE rxbufstat' = [rxbufstat EXCEPT ![idx[t]] = "COMPLETE"] /\ storing' = storing
  BY <1>1, <1>2, <1>4, <1>5, StaysInUse
<1>6. CASE rxbufstat' = rxbufstat /\ storing' = storing
  BY <1>1, <1>2, <1>4, <1>6, SameUse
<1>7. CASE /\ rxbufstat' = rxbufstat
           /\ \E f \in wire : Awaited(f.idx) /\ storing' = {[idx |-> f.idx, of |-> f.of]}
  <2>1. PICK f \in wire : Awaited(f.idx) /\ storing' = {[idx |-> f.idx, of |-> f.of]}
    BY <1>7
  <2>2. f.idx \in Held \/ f.idx \in Ownerless
    BY <1>3, <2>1 DEF Awaited, Ownerless
  <2> QED BY <1>1, <1>2, <1>4, <1>7, <2>1, <2>2, SameUse
<1> QED
  <2>1. CASE UNCHANGED <<rxbufstat, storing>>
    BY <1>6, <2>1
  <2>2. CASE \E f \in wire : /\ f.idx = idx[t] /\ Status(f.idx, "COMPLETE")
                            /\ UNCHANGED storing
    BY <1>5, <2>2 DEF Status
  <2>3. CASE \E f \in wire : /\ Awaited(f.idx) /\ UNCHANGED rxbufstat
                            /\ storing' = {[idx |-> f.idx, of |-> f.of]}
    BY <1>7, <2>3
  <2> QED BY <2>1, <2>2, <2>3 DEF ReadSocket

LEMMA StoreKeeps ==
  ASSUME PortInv, NEW t \in Thread, Store(t) PROVE PortInv'
<1> USE DEF PortInv
<1>1. \A u \in Thread : Busy(u)' = Busy(u)
  BY DEF Store, Goto, Busy, PortTypes
<1>2. PICK f \in storing : rxbufstat' = [rxbufstat EXCEPT ![f.idx] = "RCVD"]
  BY DEF Store, Status
<1>3. f.idx \in Index /\ (f.idx \in Held \/ f.idx \in Ownerless)
  BY DEF PortTypes, Answer, Ownerless
<1>4. idx' = idx /\ storing' = {} /\ sendFailed' = sendFailed /\ scarce' = scarce
  BY DEF Store
<1>5. PortTypes'
  <2>1. pc' \in [Thread -> {"free", "send", "wait", "read", "store", "again", "copy"}]
    BY DEF Store, Goto, PortTypes
  <2>2. rxbufstat' \in [Index -> {"EMPTY", "ALLOC", "TX", "RCVD", "COMPLETE"}]
    BY <1>2, <1>3 DEF PortTypes
  <2>3. rxbuf' \in [Index -> Thread \cup {"old"}]
    BY DEF Store, PortTypes, Answer
  <2> QED BY <1>4, <2>1, <2>2, <2>3 DEF Store, PortTypes
<1> QED BY <1>1, <1>2, <1>3, <1>4, <1>5, StaysInUse

LEMMA ReleaseKeeps ==
  ASSUME PortInv, NEW t \in Thread, Release(t) PROVE PortInv'
<1> USE DEF PortInv
<1>1. Busy(t) /\ pc' = [pc EXCEPT ![t] = "free"]
  BY DEF Release, Goto, Busy
<1>2. 0 \in Index
  BY PortAssumption DEF Index
<1>3. PortTypes'
  <2>1. Outdated(wire, t) \subseteq Frame
    <3> SUFFICES ASSUME NEW f \in wire PROVE [f EXCEPT !.of = "old"] \in Frame /\ f \in Frame
      BY DEF Outdated
    <3>1. f \in Frame
      BY DEF PortTypes
    <3> QED BY <3>1 DEF Frame
  <2>2. Outdated(storing, t) \subseteq Answer
    <3> SUFFICES ASSUME NEW f \in storing PROVE [f EXCEPT !.of = "old"] \in Answer /\ f \in Answer
      BY DEF Outdated
    <3>1. f \in Answer
      BY DEF PortTypes
    <3> QED BY <3>1 DEF Answer
  <2>3. rxbufstat' \in [Index -> {"EMPTY", "ALLOC", "TX", "RCVD", "COMPLETE"}]
    BY DEF Release, Status, PortTypes
  <2> QED BY <1>1, <1>2, <2>1, <2>2, <2>3 DEF Release, PortTypes
<1>4. InUse'
  <2> SUFFICES ASSUME ~sendFailed', ~scarce', NEW u \in Thread, Busy(u)'
               PROVE  rxbufstat'[idx'[u]] # "EMPTY"
    BY DEF InUse
  <2>1. u # t /\ Busy(u) /\ ~sendFailed /\ ~scarce /\ idx'[u] = idx[u]
    BY <1>1 DEF Busy, Release, PortTypes
  <2>2. idx[u] # idx[t]
    BY <1>1, <2>1 DEF Alone, Thread
  <2>3. rxbufstat'[idx[u]] = rxbufstat[idx[u]]
    BY <2>2 DEF Release, Status, PortTypes
  <2> QED BY <2>1, <2>3 DEF InUse
<1>5. Alone'
  BY <1>1 DEF Alone, Busy, PortTypes, Thread
<1>6. FewLost'
  <2> SUFFICES ASSUME ~scarce' PROVE Cardinality(Ownerless') + Window + 2 <= MaxBuf
    BY DEF FewLost
  <2>1. Cardinality(Index \ Ownerless') >= Window + 2
    <3>1. Index \ Ownerless' \in SUBSET Index
      OBVIOUS
    <3>2. Cardinality(Index \ Ownerless') \in Nat
      BY <3>1, IndexFinite, FS_Subset, FS_CardinalityType
    <3>3. scarce' = (scarce \/ Cardinality(Index \ Ownerless') < Window + 2)
      BY DEF Release
    <3>4. ~(Cardinality(Index \ Ownerless') < Window + 2)
      BY <3>3, Zenon
    <3> QED BY <3>2, <3>4, PortAssumption
  <2>2. Index \cap Ownerless' = Ownerless' /\ Ownerless' \in SUBSET Index
    BY DEF Ownerless
  <2>3. Cardinality(Index \ Ownerless') = MaxBuf - Cardinality(Ownerless')
    BY <2>2, IndexFinite, FS_Difference
  <2>4. Cardinality(Ownerless') \in Nat
    BY <2>2, IndexFinite, FS_Subset, FS_CardinalityType
  <2> QED BY <2>1, <2>3, <2>4, PortAssumption
<1> QED BY <1>3, <1>4, <1>5, <1>6

-----------------------------------------------------------------------------
LEMMA Stutters ==
  ASSUME PortInv, UNCHANGED portVars PROVE PortInv'
BY DEF PortInv, PortTypes, InUse, Alone, FewLost, Ownerless, Held, Busy,
       portVars, owner

LEMMA StepKeeps ==
  ASSUME PortInv, NEW t \in Thread, Step(t) PROVE PortInv'
BY GetIndexKeeps, OutFrameKeeps, LookInBufferKeeps, ReadSocketKeeps, StoreKeeps,
   ReleaseKeeps DEF Step

(* The control loop and the check thread never use one index, and with it  *)
(* one buffer, at a time unless all the others are in use, as long as      *)
(* send() succeeds: for every number of buffers, however many indices late *)
(* answers have cost. An index in use that counts as unused is one whose   *)
(* sharer has released it.                                                 *)
OthersInUse(i) == \A j \in Index \ {i} : rxbufstat[j] # "EMPTY"

Sharing ==
  ~sendFailed => \A t \in Thread :
    Busy(t) /\ rxbufstat[idx[t]] = "EMPTY" =>
      /\ OthersInUse(idx[t])
      /\ \A u \in Thread : Busy(u) => idx[u] = idx[t]

Shared == ~sendFailed => \A t, u \in Thread :
  t # u /\ Busy(t) /\ Busy(u) /\ idx[t] = idx[u] => OthersInUse(idx[t])

SharingInv == PortTypes /\ Sharing /\ Shared

LEMMA SharingStarts == PortInit => SharingInv
BY PortStarts DEF PortInv, SharingInv, Sharing, Shared, PortInit, Busy

LEMMA GetIndexShares ==
  ASSUME SharingInv, PortTypes', NEW t \in Thread, GetIndex(t) PROVE SharingInv'
<1> USE DEF SharingInv
<1>1. PICK i \in Index :
        /\ Taken(i) /\ rxbufstat' = [rxbufstat EXCEPT ![i] = "ALLOC"]
        /\ idx' = [idx EXCEPT ![t] = i]
  BY DEF GetIndex, Status
<1>2. /\ idx'[t] = i /\ rxbufstat'[i] = "ALLOC" /\ sendFailed' = sendFailed
      /\ \A j \in Index : rxbufstat[j] # "EMPTY" => rxbufstat'[j] # "EMPTY"
      /\ \A j \in Index \ {i} : rxbufstat'[j] = rxbufstat[j]
  BY <1>1 DEF PortTypes, GetIndex
<1>3. \A u \in Thread : u # t => idx'[u] = idx[u] /\ Busy(u)' = Busy(u) /\ idx[u] \in Index
  BY <1>1 DEF PortTypes, GetIndex, Goto, Busy
<1>4. rxbufstat[i] = "EMPTY" \/ \A j \in Index : rxbufstat[j] # "EMPTY"
  BY <1>1 DEF Taken
<1>5. ASSUME NEW u \in Thread, u # t, Busy(u), ~sendFailed
      PROVE  /\ rxbufstat'[idx[u]] # "EMPTY"
             /\ idx[u] = i => OthersInUse(i)'
  <2>1. CASE idx[u] = i
    <3>1. OthersInUse(i)
      BY <1>4, <1>5, <2>1 DEF Sharing, OthersInUse
    <3> QED BY <1>2, <2>1, <3>1 DEF OthersInUse
  <2>2. CASE idx[u] # i
    <3>1. rxbufstat[idx[u]] # "EMPTY"
      BY <1>3, <1>4, <1>5, <2>2 DEF Sharing, OthersInUse
    <3> QED BY <1>2, <1>3, <1>5, <2>2, <3>1
  <2> QED BY <2>1, <2>2
<1>6. Sharing'
  BY <1>2, <1>3, <1>5 DEF Sharing
<1>7. Shared'
  <2> SUFFICES ASSUME ~sendFailed, NEW v \in Thread, NEW u \in Thread, v # u,
                      Busy(v)', Busy(u)', idx'[v] = idx'[u]
               PROVE  OthersInUse(idx[v])'
    BY <1>2 DEF Shared
  <2>1. v = t \/ u = t
    BY DEF Thread
  <2> QED BY <1>2, <1>3, <1>5, <2>1
<1> QED BY <1>6, <1>7

(* A step of a thread that keeps its request and leaves no index unused.   *)
LEMMA KeepsSharing ==
  ASSUME SharingInv, PortTypes', idx' = idx, \A u \in Thread : Busy(u)' = Busy(u),
         \A j \in Index : rxbufstat[j] # "EMPTY" => rxbufstat'[j] # "EMPTY",
         sendFailed' = sendFailed
  PROVE  SharingInv'
<1> USE DEF SharingInv
<1>1. \A i \in Index : OthersInUse(i) => OthersInUse(i)'
  BY DEF OthersInUse
<1>2. \A t \in Thread : idx[t] \in Index
  BY DEF PortTypes
<1> QED BY <1>1, <1>2 DEF Sharing, Shared

LEMMA ReleaseShares ==
  ASSUME SharingInv, PortTypes', NEW t \in Thread, Release(t) PROVE SharingInv'
<1> USE DEF SharingInv
<1>1. /\ Busy(t) /\ ~Busy(t)' /\ sendFailed' = sendFailed /\ idx[t] \in Index
      /\ \A j \in Index \ {idx[t]} : rxbufstat'[j] = rxbufstat[j]
  BY DEF Release, Goto, Status, Busy, PortTypes
<1>2. \A u \in Thread : u # t => idx'[u] = idx[u] /\ Busy(u)' = Busy(u) /\ idx[u] \in Index
  BY DEF Release, Goto, Busy, PortTypes
<1>3. Shared'
  BY <1>1 DEF Shared, Thread
<1>4. Sharing'
  <2> SUFFICES ASSUME ~sendFailed, NEW u \in Thread, Busy(u)', rxbufstat'[idx'[u]] = "EMPTY"
               PROVE  /\ OthersInUse(idx[u])' /\ \A v \in Thread : Busy(v)' => v = u
    BY <1>1 DEF Sharing
  <2>1. u # t /\ Busy(u) /\ idx'[u] = idx[u] /\ \A v \in Thread : v = u \/ v = t
    BY <1>1, <1>2 DEF Thread
  <2>2. idx[u] = idx[t]
    BY <1>1, <1>2, <2>1 DEF Sharing
  <2>3. OthersInUse(idx[u])
    BY <1>1, <2>1, <2>2 DEF Shared
  <2> QED BY <1>1, <2>1, <2>2, <2>3 DEF OthersInUse
<1> QED BY <1>3, <1>4

LEMMA StepShares ==
  ASSUME SharingInv, PortTypes', NEW t \in Thread, Step(t) PROVE SharingInv'
<1>1. CASE GetIndex(t)
  BY <1>1, GetIndexShares
<1>2. CASE Release(t)
  BY <1>2, ReleaseShares
<1>3. CASE OutFrame(t) /\ sendFailed' # sendFailed
  BY <1>3 DEF OutFrame, SharingInv, Sharing, Shared
<1>4. CASE OutFrame(t) /\ sendFailed' = sendFailed
  <2>1. rxbufstat' = [rxbufstat EXCEPT ![idx[t]] = "TX"] /\ idx' = idx
        /\ \A u \in Thread : Busy(u)' = Busy(u)
    BY <1>4 DEF OutFrame, Status, Goto, Busy, SharingInv, PortTypes
  <2> QED BY <1>4, <2>1, KeepsSharing DEF SharingInv, PortTypes
<1>5. CASE LookInBuffer(t) \/ ReadSocket(t) \/ Store(t)
  <2>1. idx' = idx /\ sendFailed' = sendFailed /\ \A u \in Thread : Busy(u)' = Busy(u)
    BY <1>5 DEF LookInBuffer, ReadSocket, Store, Goto, Busy, SharingInv, PortTypes
  <2>2. rxbufstat' = rxbufstat
        \/ \E i, stat : stat # "EMPTY" /\ rxbufstat' = [rxbufstat EXCEPT ![i] = stat]
    BY <1>5 DEF LookInBuffer, ReadSocket, Store, Status
  <2>3. \A j \in Index : rxbufstat[j] # "EMPTY" => rxbufstat'[j] # "EMPTY"
    BY <2>2 DEF SharingInv, PortTypes
  <2> QED BY <2>1, <2>3, KeepsSharing
<1> QED BY <1>1, <1>2, <1>3, <1>4, <1>5 DEF Step

(* Two requests share an index, and with it a buffer, only when every      *)
(* other index is in use.                                                  *)
THEOREM PortExclusive == PortSpec => []OneRequestPerIndex
<1>1. PortInit => PortInv /\ SharingInv
  BY PortStarts, SharingStarts
<1>2. PortInv /\ SharingInv /\ [PortNext]_portVars => (PortInv /\ SharingInv)'
  <2> SUFFICES ASSUME PortInv, SharingInv, [PortNext]_portVars PROVE PortInv' /\ SharingInv'
    OBVIOUS
  <2>1. PortInv'
    BY StepKeeps, Stutters DEF PortNext, LoopRequest, CheckRequest, Thread
  <2>2. PortTypes'
    BY <2>1 DEF PortInv
  <2>3. CASE UNCHANGED portVars
    BY <2>1, <2>2, <2>3, KeepsSharing DEF portVars, owner, Busy
  <2>4. CASE PortNext
    <3>1. PICK t \in Thread : Step(t)
      BY <2>4 DEF PortNext, LoopRequest, CheckRequest, Thread
    <3> QED BY <2>1, <2>2, <3>1, StepShares
  <2> QED BY <2>1, <2>3, <2>4
<1>3. SharingInv => OneRequestPerIndex
  BY DEF SharingInv, Shared, OneRequestPerIndex, OthersInUse, Thread
<1> QED BY <1>1, <1>2, <1>3, PTL DEF PortSpec

-----------------------------------------------------------------------------
(* Answers. A frame that outlives its request must be read, or given up,   *)
(* before its index comes round again. Place(j) is how many indices are    *)
(* tried before j when the next one is taken.                              *)
Place(j) == IF j > lastidx THEN j - lastidx - 1 ELSE j - lastidx - 1 + MaxBuf

Free         == (Index \ Held) \ Ownerless
FreeAhead(i) == {j \in Free : Place(j) < Place(i)}

(* Of the indices other than i, all but one have been taken in the n       *)
(* takings since i was, or are free and come before it, or are lost. The   *)
(* one is the other thread's, if it was taken before i.                    *)
Far(i, n) == n + Cardinality(FreeAhead(i)) + Cardinality(Ownerless \ {i}) >= MaxBuf - 2

(* A frame is old and its index not in use, or belongs to its request.     *)
OwnerOf(f) == \/ f.of = "old" /\ f.idx \notin Held
              \/ f.of \in Thread /\ Busy(f.of) /\ idx[f.of] = f.idx

Requests ==
  \A t \in Thread, i \in Index, n \in 0..Window :
    Busy(t) /\ idx[t] = i /\ since[t] = n => Far(i, n)

Frames == \A f \in wire : f.age <= Window /\ Far(f.idx, f.age) /\ OwnerOf(f)

Mutex ==
  /\ \A t, u \in Thread : (pc[t] = "store" /\ pc[u] = "store") => t = u
  /\ \A f, g \in storing : f = g
  /\ \A t \in Thread : pc[t] = "store" => storing # {}
  /\ storing # {} => \E t \in Thread : pc[t] = "store"

(* An answer read for the other thread: its request may end before it is   *)
(* stored, and another one begin, but not with this index.                 *)
Pending ==
  \A f \in storing :
    /\ OwnerOf(f)
    /\ f.of \in Thread => /\ Far(f.idx, Window) /\ rxbufstat[f.idx] = "TX"
                          /\ pc[f.of] \in {"wait", "again", "read"}
    /\ f.of = "old" => \A u \in Thread : pc[u] # "store" =>
         \/ pc[u] = "free" /\ FreeAhead(f.idx) # {}
         \/ pc[u] \in {"send", "wait", "read"} /\ rxbufstat[idx[u]] # "RCVD"

Released == \A j \in Index \ Held : rxbufstat[j] \in {"EMPTY", "RCVD"}

Results ==
  \A t \in Thread :
    /\ pc[t] = "send" => rxbufstat[idx[t]] = "ALLOC"
    /\ pc[t] = "copy" => rxbufstat[idx[t]] = "COMPLETE" /\ rxbuf[idx[t]] = t
    /\ Busy(t) /\ rxbufstat[idx[t]] = "RCVD" => rxbuf[idx[t]] = t

Answers == Requests /\ Frames /\ Mutex /\ Pending /\ Released /\ Results

AnswerInv == ~sendFailed /\ ~scarce => Answers

-----------------------------------------------------------------------------
LEMMA PlaceOfTried ==
  ASSUME lastidx \in Index, NEW k \in Index
  PROVE  Tried(k) \in Index /\ Place(Tried(k)) = k
<1> DEFINE x == lastidx + 1 + k
<1>1. /\ MaxBuf \in Nat \ {0} /\ lastidx \in 0..(MaxBuf - 1) /\ k \in 0..(MaxBuf - 1)
      /\ x \in Nat /\ x < 2 * MaxBuf
  BY PortAssumption DEF Index
<1>2. Tried(k) = IF x < MaxBuf THEN x ELSE x - MaxBuf
  <2>1. x \div MaxBuf \in Int /\ x % MaxBuf \in 0..(MaxBuf - 1)
        /\ x = MaxBuf * (x \div MaxBuf) + (x % MaxBuf)
    BY <1>1
  <2>2. x \div MaxBuf = 0 \/ x \div MaxBuf = 1
    BY <1>1, <2>1
  <2> QED BY <1>1, <2>1, <2>2 DEF Tried
<1> QED BY <1>1, <1>2 DEF Place, Index

LEMMA PlaceIsIndex ==
  ASSUME lastidx \in Index, NEW j \in Index
  PROVE  Place(j) \in Index /\ Tried(Place(j)) = j
<1>1. Place(j) \in Index
  BY PortAssumption DEF Place, Index
<1>2. Tried(Place(j)) \in Index /\ Place(Tried(Place(j))) = Place(j)
  BY <1>1, PlaceOfTried
<1> QED BY <1>1, <1>2, PortAssumption DEF Place, Index

(* Cardinalities of sets of indices.                                       *)
LEMMA IndexSets ==
  ASSUME NEW S \in SUBSET Index
  PROVE  IsFiniteSet(S) /\ Cardinality(S) \in Nat
BY IndexFinite, FS_Subset, FS_CardinalityType

LEMMA MoreIndices ==
  ASSUME NEW S \in SUBSET Index, NEW T \in SUBSET S
  PROVE  Cardinality(T) <= Cardinality(S)
BY IndexSets, FS_Subset

LEMMA OneLess ==
  ASSUME NEW S \in SUBSET Index, NEW i, NEW T \in SUBSET Index, S \ {i} \subseteq T
  PROVE  Cardinality(T) >= Cardinality(S) - 1
<1>1. Cardinality(S \ {i}) <= Cardinality(T)
  BY MoreIndices
<1>2. Cardinality(S \ {i}) = IF i \in S THEN Cardinality(S) - 1 ELSE Cardinality(S)
  BY IndexSets, FS_RemoveElement
<1>3. Cardinality(S) \in Nat /\ Cardinality(T) \in Nat /\ Cardinality(S \ {i}) \in Nat
  BY IndexSets
<1> QED BY <1>1, <1>2, <1>3

LEMMA FarSets ==
  ASSUME NEW i
  PROVE  /\ FreeAhead(i) \in SUBSET Index /\ Ownerless \ {i} \in SUBSET Index
         /\ Cardinality(FreeAhead(i)) \in Nat /\ Cardinality(Ownerless \ {i}) \in Nat
<1>1. FreeAhead(i) \in SUBSET Index /\ Ownerless \ {i} \in SUBSET Index
  BY DEF FreeAhead, Free, Ownerless
<1> QED BY <1>1, IndexSets

(* No index is taken, and none becomes free that was in use or lost.       *)
LEMMA StaysFar ==
  ASSUME lastidx' = lastidx, Held' \cup Ownerless' \subseteq Held \cup Ownerless,
         Ownerless \subseteq Ownerless', NEW i \in Index
  PROVE  /\ FreeAhead(i) \subseteq FreeAhead(i)'
         /\ \A n \in Nat : Far(i, n) => Far(i, n)'
<1>1. FreeAhead(i) \subseteq FreeAhead(i)'
  BY DEF FreeAhead, Free, Place
<1>2. /\ FreeAhead(i) \in SUBSET Index /\ FreeAhead(i)' \in SUBSET Index
      /\ Ownerless \ {i} \in SUBSET Index /\ Ownerless' \ {i} \in SUBSET Index
  BY DEF FreeAhead, Free, Ownerless
<1>3. /\ Cardinality(FreeAhead(i)) <= Cardinality(FreeAhead(i)')
      /\ Cardinality(Ownerless \ {i}) <= Cardinality(Ownerless' \ {i})
  BY <1>1, <1>2, MoreIndices
<1>4. /\ Cardinality(FreeAhead(i)) \in Nat /\ Cardinality(FreeAhead(i)') \in Nat
      /\ Cardinality(Ownerless \ {i}) \in Nat /\ Cardinality(Ownerless' \ {i}) \in Nat
  BY <1>2, IndexSets
<1> QED BY <1>1, <1>3, <1>4, PortAssumption DEF Far

(* What is left of the way to an index: something, unless as many indices  *)
(* have been taken as frames live.                                         *)
LEMMA WayLeft ==
  ASSUME NEW lost \in SUBSET Index, Cardinality(lost) + Window + 2 <= MaxBuf,
         NEW ahead \in SUBSET Index, NEW i, NEW n \in Nat,
         n + Cardinality(ahead) + Cardinality(lost \ {i}) >= MaxBuf - 2,
         n < Window \/ (i \in lost /\ n = Window)
  PROVE  ahead # {}
<1>1. /\ Cardinality(ahead) \in Nat /\ Cardinality(lost \ {i}) \in Nat
      /\ Cardinality(lost) \in Nat /\ IsFiniteSet(lost)
  BY IndexSets
<1>2. Cardinality(lost \ {i}) = IF i \in lost THEN Cardinality(lost) - 1
                                ELSE Cardinality(lost)
  BY <1>1, FS_RemoveElement
<1>3. ahead = {} => Cardinality(ahead) = 0
  BY FS_EmptySet
<1> QED BY <1>1, <1>2, <1>3, PortAssumption

LEMMA StillAhead ==
  ASSUME PortInv, NEW i \in Index, NEW n \in Nat, Far(i, n), n < Window,
         ~scarce
  PROVE  FreeAhead(i) # {}
BY FarSets, WayLeft DEF Far, PortInv, FewLost, Ownerless

LEMMA LostStillAhead ==
  ASSUME PortInv', NEW i \in Index, i \in Ownerless', Far(i, Window)',
         ~scarce'
  PROVE  FreeAhead(i)' # {}
<1>1. /\ FreeAhead(i)' \in SUBSET Index /\ Ownerless' \in SUBSET Index
      /\ Cardinality(Ownerless') + Window + 2 <= MaxBuf /\ Window \in Nat
  BY PortAssumption DEF PortInv, FewLost, Ownerless, FreeAhead, Free
<1>2. Window + Cardinality(FreeAhead(i)') + Cardinality(Ownerless' \ {i}) >= MaxBuf - 2
  BY DEF Far
<1> QED BY <1>1, <1>2, WayLeft

-----------------------------------------------------------------------------
(* Taking an index.                                                        *)

(* It is unused, nothing is pending for it, and nothing unused comes       *)
(* before it.                                                              *)
LEMMA TakenIsFree ==
  ASSUME PortInv, Pending, NEW t \in Thread, pc[t] = "free",
         NEW i \in Index, Taken(i), ~sendFailed, ~scarce
  PROVE  /\ i \in Free
         /\ \A j \in Free : j # i => Place(j) > Place(i)
<1> USE DEF PortInv
<1>1. PICK e \in Index : rxbufstat[e] = "EMPTY"
  BY SomeUnused DEF Busy
<1>2. PICK k \in Index :
        /\ i = Tried(k) /\ rxbufstat[i] = "EMPTY"
        /\ \A j \in 0..(k - 1) : rxbufstat[Tried(j)] # "EMPTY"
  BY <1>1 DEF Taken
<1>3. lastidx \in Index /\ Place(i) = k
  BY <1>2, PlaceOfTried DEF PortTypes
<1>4. \A j \in Index : rxbufstat[j] = "EMPTY" /\ j # i => Place(j) > Place(i)
  <2> SUFFICES ASSUME NEW j \in Index, rxbufstat[j] = "EMPTY", j # i
               PROVE  Place(j) > Place(i)
    OBVIOUS
  <2>1. Place(j) \in Index /\ Tried(Place(j)) = j
    BY <1>3, PlaceIsIndex
  <2>2. Place(j) \notin 0..(k - 1) /\ Place(j) # k
    BY <1>2, <2>1
  <2> QED BY <1>3, <2>1, <2>2, PortAssumption DEF Index
<1>5. i \notin Held
  BY <1>2 DEF Held, InUse
<1>6. \A f \in storing : f.idx # i
  <2> SUFFICES ASSUME NEW f \in storing, f.idx = i PROVE FALSE
    OBVIOUS
  <2>1. f.of = "old"
    BY <1>5 DEF Pending, OwnerOf, Held
  <2>2. FreeAhead(i) # {}
    BY <2>1 DEF Pending
  <2>3. PICK j \in Free : Place(j) < Place(i)
    BY <2>2 DEF FreeAhead
  <2>4. j \in Index /\ rxbufstat[j] = "EMPTY"
    BY DEF Free, Ownerless
  <2>5. Place(j) \in Index /\ Place(i) \in Index
    BY <1>3, <2>4, PlaceIsIndex
  <2>6. j # i => Place(j) > Place(i)
    BY <1>4, <2>4
  <2> QED BY <2>3, <2>5, <2>6, PortAssumption DEF Index
<1>7. i \in Free
  BY <1>2, <1>5, <1>6 DEF Free, Ownerless
<1>8. \A j \in Free : j \in Index /\ rxbufstat[j] = "EMPTY"
  BY DEF Free, Ownerless
<1> QED BY <1>4, <1>7, <1>8

(* The index taken is the farthest, all others are nearer by one at most.  *)
LEMMA TakingAdvances ==
  ASSUME PortInv, NEW i \in Free, \A j \in Free : j # i => Place(j) > Place(i),
         lastidx' = i, Held' = Held \cup {i}, Ownerless' = Ownerless, ~scarce
  PROVE  /\ \A j \in Index, n \in Nat : Far(j, n) /\ n < Window => j # i /\ Far(j, n + 1)'
         /\ \A u \in Thread : Held \subseteq {idx[u]} => Far(i, 0)'
<1>1. i \in Index /\ lastidx \in Index /\ i \notin Ownerless
  BY DEF PortInv, PortTypes, Free
<1>2. Free' = Free \ {i}
  BY DEF Free
<1>3. \A j \in Index : FreeAhead(j) \in SUBSET Index /\ FreeAhead(j)' \in SUBSET Index
  BY DEF FreeAhead, Free
<1>4. ASSUME NEW j \in Index, NEW n \in Nat, Far(j, n), n < Window
      PROVE  j # i /\ Far(j, n + 1)'
  <2>1. PICK k \in Free : Place(k) < Place(j)
    BY <1>4, StillAhead DEF FreeAhead
  <2>2. /\ k \in Index /\ Place(k) \in Int /\ Place(i) \in Int /\ Place(j) \in Int
    BY <1>1, <2>1, PlaceIsIndex, PortAssumption DEF Free, Index
  <2>3. Place(j) > Place(i) /\ j # i
    BY <2>1, <2>2
  <2>4. FreeAhead(j) \ {i} \subseteq FreeAhead(j)'
    <3> SUFFICES ASSUME NEW m \in Free, Place(m) < Place(j), m # i
                 PROVE  Place(m)' < Place(j)'
      BY <1>2 DEF FreeAhead
    <3>1. m \in Index /\ Place(m) > Place(i)
      BY DEF Free
    <3> QED BY <1>1, <2>3, <3>1, PortAssumption DEF Place, Index
  <2>5. Cardinality(FreeAhead(j)') >= Cardinality(FreeAhead(j)) - 1
    BY <1>3, <2>4, OneLess
  <2>6. /\ Cardinality(FreeAhead(j)) \in Nat /\ Cardinality(FreeAhead(j)') \in Nat
        /\ Cardinality(Ownerless \ {j}) \in Nat
    BY <1>3, FarSets, IndexSets
  <2>7. n + 1 + Cardinality(FreeAhead(j)') + Cardinality(Ownerless \ {j}) >= MaxBuf - 2
    BY <1>4, <2>5, <2>6, PortAssumption DEF Far
  <2> QED BY <2>3, <2>7 DEF Far
<1>5. ASSUME NEW u \in Thread, Held \subseteq {idx[u]} PROVE Far(i, 0)'
  <2>1. Free' \subseteq FreeAhead(i)'
    <3> SUFFICES ASSUME NEW m \in Free, m # i PROVE Place(m)' < Place(i)'
      BY <1>2 DEF FreeAhead
    <3>1. m \in Index
      BY DEF Free
    <3> QED BY <1>1, <3>1, PortAssumption DEF Place, Index
  <2>2. Index \ Ownerless \in SUBSET Index /\ (Index \ Ownerless) \ {idx[u]} \in SUBSET Index
        /\ Ownerless \in SUBSET Index
    BY DEF Ownerless
  <2>3. ((Index \ Ownerless) \ {idx[u]}) \ {i} \subseteq FreeAhead(i)'
    BY <1>2, <1>5, <2>1 DEF Free
  <2>4. Cardinality(FreeAhead(i)') >= Cardinality((Index \ Ownerless) \ {idx[u]}) - 1
    BY <1>1, <1>3, <2>2, <2>3, OneLess
  <2>5. Cardinality((Index \ Ownerless) \ {idx[u]}) >= Cardinality(Index \ Ownerless) - 1
    BY <2>2, OneLess
  <2>6. Cardinality(Index \ Ownerless) = MaxBuf - Cardinality(Ownerless)
    <3>1. Index \cap Ownerless = Ownerless
      BY <2>2
    <3> QED BY <3>1, IndexFinite, FS_Difference
  <2>7. Ownerless \ {i} = Ownerless
    BY <1>1
  <2>8. /\ Cardinality(FreeAhead(i)') \in Nat /\ Cardinality(Ownerless) \in Nat
        /\ Cardinality(Index \ Ownerless) \in Nat
        /\ Cardinality((Index \ Ownerless) \ {idx[u]}) \in Nat
    BY <1>1, <1>3, <2>2, IndexSets
  <2>9. 0 + Cardinality(FreeAhead(i)') + Cardinality(Ownerless) >= MaxBuf - 2
    BY <2>4, <2>5, <2>6, <2>8, PortAssumption
  <2> QED BY <2>7, <2>9 DEF Far
<1> QED BY <1>4, <1>5

-----------------------------------------------------------------------------
(* The steps. There are two threads, and if an answer is pending, one of   *)
(* them is about to store it.                                              *)
LEMMA StorerAndOther ==
  ASSUME Mutex, storing # {}, NEW t \in Thread, pc[t] # "store"
  PROVE  /\ \A u \in Thread : u # t => pc[u] = "store"
         /\ \A f \in storing : storing = {f}
BY DEF Mutex, Thread

LEMMA GetIndexAnswers ==
  ASSUME PortInv, Answers, ~sendFailed, ~scarce, NEW t \in Thread, GetIndex(t)
  PROVE  Answers'
<1> USE DEF PortInv, Answers
<1>1. PICK i \in Index :
        /\ Taken(i) /\ rxbufstat' = [rxbufstat EXCEPT ![i] = "ALLOC"]
        /\ lastidx' = i /\ idx' = [idx EXCEPT ![t] = i]
  BY DEF GetIndex, Status
<1>2. /\ pc[t] = "free" /\ pc' = [pc EXCEPT ![t] = "send"] /\ wire' = Aged(wire)
      /\ UNCHANGED <<rxbuf, storing>>
      /\ since' = [u \in Thread |-> IF u # t /\ Busy(u) THEN Older(since[u]) ELSE 0]
  BY DEF GetIndex, Goto
<1>3. i \in Free /\ \A j \in Free : j # i => Place(j) > Place(i)
  BY <1>1, <1>2, TakenIsFree
<1>4. i \notin Held /\ i \notin Ownerless /\ \A f \in storing : f.idx # i
  BY <1>3 DEF Free, Ownerless
<1>5. Held' = Held \cup {i}
  BY <1>1, <1>2 DEF Held, Busy, PortTypes
<1>6. Ownerless' = Ownerless
  BY <1>1, <1>2, <1>4, <1>5 DEF Ownerless, PortTypes
<1>7. \A j \in Index, n \in Nat : Far(j, n) /\ n < Window => j # i /\ Far(j, n + 1)'
  BY <1>1, <1>3, <1>5, <1>6, TakingAdvances
<1>8. Far(i, 0)'
  <2>1. PICK u \in Thread : Thread = {t, u}
    BY DEF Thread
  <2>2. Held \subseteq {idx[u]}
    BY <1>2, <2>1 DEF Held, Busy
  <2> QED BY <1>1, <1>3, <1>5, <1>6, <2>2, TakingAdvances
<1>9. \A u \in Thread : u # t => /\ pc'[u] = pc[u] /\ idx'[u] = idx[u]
                                 /\ Busy(u)' = Busy(u) /\ idx[u] \in Index
                                 /\ Busy(u) => idx[u] # i
  BY <1>1, <1>2, <1>4 DEF PortTypes, Busy, Held
<1>10. pc'[t] = "send" /\ idx'[t] = i /\ Busy(t)' /\ rxbufstat'[i] = "ALLOC"
       /\ \A j \in Index : j # i => rxbufstat'[j] = rxbufstat[j]
  BY <1>1, <1>2 DEF PortTypes, Busy
<1>11. Requests'
  <2> SUFFICES ASSUME NEW u \in Thread, NEW j \in Index, NEW n \in 0..Window,
                      Busy(u)', idx'[u] = j, since'[u] = n
               PROVE  Far(j, n)'
    BY DEF Requests
  <2>1. CASE u = t
    <3>1. j = i /\ n = 0
      BY <1>2, <1>10, <2>1
    <3> QED BY <1>8, <3>1
  <2>2. CASE u # t
    <3>1. Busy(u) /\ idx[u] = j /\ since[u] \in Nat /\ n = Older(since[u])
      BY <1>2, <1>9, <2>2 DEF PortTypes
    <3>2. since[u] \in 0..Window /\ since[u] < Window /\ n = since[u] + 1
      BY <3>1, PortAssumption DEF Older
    <3>3. PICK m \in Nat : m = since[u]
      BY <3>1
    <3>4. Far(j, m)
      BY <3>1, <3>2, <3>3 DEF Requests
    <3> QED BY <1>7, <3>2, <3>3, <3>4
  <2> QED BY <2>1, <2>2
<1>12. Frames'
  <2> SUFFICES ASSUME NEW f \in wire'
               PROVE  f.age <= Window /\ Far(f.idx, f.age)' /\ OwnerOf(f)'
    BY DEF Frames
  <2>1. PICK g \in wire : g.age < Window /\ f = [g EXCEPT !.age = @ + 1]
    BY <1>2 DEF Aged
  <2>2. g \in Frame /\ f.idx = g.idx /\ f.of = g.of /\ f.age = g.age + 1
    BY <2>1 DEF PortTypes, Frame
  <2>3. g.idx \in Index /\ g.age \in Nat /\ Far(g.idx, g.age) /\ OwnerOf(g)
    BY <2>2 DEF Frame, Frames
  <2>4. g.idx # i /\ Far(g.idx, g.age + 1)'
    BY <1>7, <2>1, <2>3
  <2>5. OwnerOf(f)'
    BY <1>2, <1>5, <1>9, <2>2, <2>3, <2>4 DEF OwnerOf, Busy
  <2> QED BY <2>1, <2>2, <2>3, <2>4, <2>5, PortAssumption
<1>13. Mutex'
  BY <1>2, <1>9, <1>10 DEF Mutex
<1>14. Pending'
  <2> SUFFICES ASSUME NEW f \in storing
               PROVE  /\ OwnerOf(f)' /\ f.of = "old"
                      /\ \A u \in Thread : pc'[u] # "store" =>
                           pc'[u] = "send" /\ rxbufstat'[idx'[u]] # "RCVD"
    BY <1>2 DEF Pending, Thread
  <2>1. \A u \in Thread : u # t => pc[u] = "store"
    BY <1>2, StorerAndOther
  <2>2. OwnerOf(f) /\ f.of \notin Thread
    BY <1>2, <2>1 DEF Pending
  <2>3. OwnerOf(f)' /\ f.of = "old"
    BY <1>4, <1>5, <2>2 DEF OwnerOf
  <2> QED BY <1>9, <1>10, <2>1, <2>3
<1>15. Released'
  BY <1>5, <1>10 DEF Released
<1>16. Results'
  <2> SUFFICES ASSUME NEW u \in Thread, u # t
               PROVE  /\ pc'[u] = pc[u] /\ idx'[u] = idx[u] /\ Busy(u)' = Busy(u)
                      /\ Busy(u) => rxbufstat'[idx[u]] = rxbufstat[idx[u]]
    BY <1>2, <1>10 DEF Results, Busy
  <2> QED BY <1>9, <1>10
<1> QED BY <1>11, <1>12, <1>13, <1>14, <1>15, <1>16

(* Steps that take no index.                                               *)
LEMMA FarKept ==
  ASSUME PortTypes, lastidx' = lastidx, Held' \cup Ownerless' \subseteq Held \cup Ownerless,
         Ownerless \subseteq Ownerless', Requests, Frames,
         \A u \in Thread : Busy(u)' => Busy(u) /\ idx'[u] = idx[u] /\ since'[u] = since[u]
  PROVE  /\ Requests'
         /\ \A f \in wire : Far(f.idx, f.age)'
<1>1. \A j \in Index, n \in Nat : Far(j, n) => Far(j, n)'
  BY StaysFar
<1>2. Requests'
  <2> SUFFICES ASSUME NEW u \in Thread, NEW j \in Index, NEW n \in 0..Window,
                      Busy(u)', idx'[u] = j, since'[u] = n
               PROVE  Far(j, n)'
    BY DEF Requests
  <2>1. Far(j, n) /\ n \in Nat
    BY PortAssumption DEF Requests
  <2> QED BY <1>1, <2>1
<1>3. \A f \in wire : f.idx \in Index /\ f.age \in Nat
  BY DEF PortTypes, Frame
<1> QED BY <1>1, <1>2, <1>3 DEF Frames

(* The indices in use stay the same, no index is taken, and what happens   *)
(* to a buffer happens to one of them.                                     *)
LEMMA SameHeld ==
  ASSUME PortInv, lastidx' = lastidx, idx' = idx, since' = since, storing' = storing,
         \A u \in Thread : Busy(u)' = Busy(u), Requests, Frames,
         \A j \in Index \ Held : rxbufstat'[j] = rxbufstat[j]
  PROVE  /\ Requests' /\ Held' = Held
         /\ \A f \in wire : Far(f.idx, f.age)' /\ OwnerOf(f)'
         /\ \A i \in Index, n \in Nat : Far(i, n) => Far(i, n)'
         /\ \A i \in Index : FreeAhead(i) # {} => FreeAhead(i)' # {}
         /\ \A f \in storing : OwnerOf(f) => OwnerOf(f)'
<1>1. Held' = Held
  BY DEF Held
<1>2. Ownerless' = Ownerless
  BY <1>1 DEF Ownerless
<1>3. Requests' /\ \A f \in wire : Far(f.idx, f.age)'
  BY <1>1, <1>2, FarKept DEF PortInv
<1>4. \A i \in Index : /\ FreeAhead(i) \subseteq FreeAhead(i)'
                       /\ \A n \in Nat : Far(i, n) => Far(i, n)'
  BY <1>1, <1>2, StaysFar
<1>5. \A f : OwnerOf(f) => OwnerOf(f)'
  BY <1>1 DEF OwnerOf
<1> QED BY <1>1, <1>3, <1>4, <1>5 DEF Frames

LEMMA OutFrameAnswers ==
  ASSUME PortInv, Answers, ~sendFailed', ~scarce, NEW t \in Thread, OutFrame(t)
  PROVE  Answers'
<1> USE DEF PortInv, Answers
<1>1. /\ rxbufstat' = [rxbufstat EXCEPT ![idx[t]] = "TX"] /\ wire' = wire \cup Sent(t)
      /\ pc' = [pc EXCEPT ![t] = "wait"] /\ pc[t] \in {"send", "again"} /\ ~sendFailed
      /\ UNCHANGED <<idx, since, rxbuf, lastidx, storing>>
  BY DEF OutFrame, Status, Goto
<1>2. Busy(t) /\ \A u \in Thread : Busy(u)' = Busy(u)
  BY <1>1 DEF Busy, PortTypes
<1>3. idx[t] \in Index /\ idx[t] \in Held /\ rxbufstat'[idx[t]] = "TX"
      /\ \A j \in Index : j # idx[t] => rxbufstat'[j] = rxbufstat[j]
  BY <1>1, <1>2 DEF PortTypes, Held
<1>4. \A u \in Thread : u # t => /\ pc'[u] = pc[u] /\ idx[u] \in Index
                                 /\ Busy(u) => rxbufstat'[idx[u]] = rxbufstat[idx[u]]
  BY <1>1, <1>2, <1>3 DEF PortTypes, Alone, Thread
<1>5. pc'[t] = "wait"
  BY <1>1 DEF PortTypes
<1>6. /\ Requests' /\ Held' = Held
      /\ \A f \in wire : Far(f.idx, f.age)' /\ OwnerOf(f)'
      /\ \A i \in Index : FreeAhead(i) # {} => FreeAhead(i)' # {}
      /\ \A i \in Index, n \in Nat : Far(i, n) => Far(i, n)'
      /\ \A f \in storing : OwnerOf(f) => OwnerOf(f)'
  BY <1>1, <1>2, <1>3, SameHeld
<1>7. Frames'
  <2> SUFFICES ASSUME NEW f \in Sent(t) PROVE f.age <= Window /\ Far(f.idx, f.age)' /\ OwnerOf(f)'
    BY <1>1, <1>6 DEF Frames
  <2>1. since[t] \in Nat /\ since[t] <= Window /\ f.idx = idx[t] /\ f.of = t /\ f.age = since[t]
    BY PortAssumption DEF Sent, PortTypes
  <2>2. PICK n \in 0..Window : n = since[t]
    BY <2>1, PortAssumption
  <2>3. Far(idx[t], n)'
    BY <1>1, <1>2, <1>3, <1>6, <2>2 DEF Requests
  <2> QED BY <1>1, <1>2, <2>1, <2>2, <2>3 DEF OwnerOf
<1>8. Mutex'
  BY <1>1, <1>4, <1>5 DEF Mutex
<1>9. Pending'
  <2> SUFFICES ASSUME NEW f \in storing
               PROVE  /\ OwnerOf(f)'
                      /\ f.of \in Thread => /\ Far(f.idx, Window)' /\ rxbufstat'[f.idx] = "TX"
                                            /\ pc'[f.of] \in {"wait", "again", "read"}
                      /\ f.of = "old" => \A u \in Thread : pc'[u] # "store" =>
                           \/ pc'[u] = "free" /\ FreeAhead(f.idx)' # {}
                           \/ /\ pc'[u] \in {"send", "wait", "read"}
                              /\ rxbufstat'[idx'[u]] # "RCVD"
    BY <1>1 DEF Pending
  <2>1. OwnerOf(f)' /\ OwnerOf(f) /\ f.idx \in Index
    BY <1>6 DEF Pending, PortTypes, Answer
  <2>2. \A u \in Thread : u # t => pc[u] = "store"
    BY <1>1, StorerAndOther
  <2>3. ASSUME f.of \in Thread
        PROVE  /\ Far(f.idx, Window)' /\ rxbufstat'[f.idx] = "TX"
               /\ pc'[f.of] \in {"wait", "again", "read"}
    <3>1. f.of = t
      BY <2>2, <2>3 DEF Pending
    <3>2. idx[t] = f.idx
      BY <2>1, <3>1 DEF OwnerOf, Thread
    <3> QED BY <1>3, <1>5, <1>6, <2>1, <2>3, <3>1, <3>2, PortAssumption DEF Pending
  <2> QED BY <1>1, <1>3, <1>4, <1>5, <2>1, <2>2, <2>3
<1>10. Released'
  BY <1>3, <1>6 DEF Released
<1>11. Results'
  BY <1>1, <1>2, <1>3, <1>4, <1>5 DEF Results, Busy
<1> QED BY <1>6, <1>7, <1>8, <1>9, <1>10, <1>11

LEMMA LookInBufferAnswers ==
  ASSUME PortInv, Answers, ~sendFailed, ~scarce, NEW t \in Thread, LookInBuffer(t)
  PROVE  Answers'
<1> USE DEF PortInv, Answers
<1>1. pc[t] \in {"wait", "again"} /\ UNCHANGED <<idx, since, rxbuf, lastidx, storing, wire>>
  BY DEF LookInBuffer
<1>2. Busy(t) /\ \A u \in Thread : Busy(u)' = Busy(u)
  BY DEF LookInBuffer, Goto, Busy, PortTypes
<1>3. idx[t] \in Index /\ idx[t] \in Held
      /\ \A j \in Index : j # idx[t] => rxbufstat'[j] = rxbufstat[j]
  BY <1>1, <1>2 DEF PortTypes, Held, LookInBuffer, Status
<1>4. \A u \in Thread : u # t => /\ pc'[u] = pc[u] /\ idx[u] \in Index
                                 /\ Busy(u) => rxbufstat'[idx[u]] = rxbufstat[idx[u]]
  BY <1>2, <1>3 DEF PortTypes, Alone, Thread, LookInBuffer, Goto
<1>5. \/ /\ rxbufstat[idx[t]] = "RCVD" /\ rxbufstat'[idx[t]] = "COMPLETE"
         /\ pc'[t] = "copy"
      \/ /\ rxbufstat[idx[t]] # "RCVD" /\ rxbufstat' = rxbufstat /\ pc'[t] = "read"
  BY <1>3 DEF PortTypes, LookInBuffer, Status, Goto
<1>6. /\ Requests' /\ Held' = Held
      /\ \A f \in wire : Far(f.idx, f.age)' /\ OwnerOf(f)'
      /\ \A i \in Index : FreeAhead(i) # {} => FreeAhead(i)' # {}
      /\ \A i \in Index, n \in Nat : Far(i, n) => Far(i, n)'
      /\ \A f \in storing : OwnerOf(f) => OwnerOf(f)'
  BY <1>1, <1>2, <1>3, SameHeld
<1>7. Frames'
  BY <1>1, <1>6 DEF Frames
<1>8. Mutex'
  BY <1>1, <1>4, <1>5 DEF Mutex
<1>9. Pending'
  <2> SUFFICES ASSUME NEW f \in storing
               PROVE  /\ OwnerOf(f)'
                      /\ f.of \in Thread => /\ Far(f.idx, Window)' /\ rxbufstat'[f.idx] = "TX"
                                            /\ pc'[f.of] \in {"wait", "again", "read"}
                      /\ f.of = "old" => \A u \in Thread : pc'[u] # "store" =>
                           \/ pc'[u] = "free" /\ FreeAhead(f.idx)' # {}
                           \/ /\ pc'[u] \in {"send", "wait", "read"}
                              /\ rxbufstat'[idx'[u]] # "RCVD"
    BY <1>1 DEF Pending
  <2>1. OwnerOf(f)' /\ OwnerOf(f) /\ f.idx \in Index
    BY <1>6 DEF Pending, PortTypes, Answer
  <2>2. \A u \in Thread : u # t => pc[u] = "store"
    BY <1>1, StorerAndOther
  <2>3. ASSUME f.of \in Thread
        PROVE  /\ Far(f.idx, Window)' /\ rxbufstat'[f.idx] = "TX"
               /\ pc'[f.of] \in {"wait", "again", "read"}
    <3>1. f.of = t /\ rxbufstat[f.idx] = "TX"
      BY <2>2, <2>3 DEF Pending
    <3>2. idx[t] = f.idx
      BY <2>1, <3>1 DEF OwnerOf, Thread
    <3> QED BY <1>5, <1>6, <2>1, <2>3, <3>1, <3>2, PortAssumption DEF Pending
  <2>4. f.of = "old" => rxbufstat[idx[t]] # "RCVD"
    BY <1>1 DEF Pending
  <2> QED BY <1>1, <1>4, <1>5, <2>1, <2>2, <2>3, <2>4
<1>10. Released'
  BY <1>3, <1>6 DEF Released
<1>11. Results'
  <2>1. ASSUME NEW u \in Thread, u # t
        PROVE  /\ pc'[u] = pc[u] /\ idx'[u] = idx[u] /\ Busy(u)' = Busy(u)
               /\ Busy(u) => rxbufstat'[idx[u]] = rxbufstat[idx[u]]
    BY <1>1, <1>2, <1>4, <2>1
  <2>2. idx'[t] = idx[t] /\ rxbuf' = rxbuf
        /\ (rxbufstat[idx[t]] = "RCVD" => rxbuf[idx[t]] = t)
    BY <1>1, <1>2 DEF Results
  <2> QED BY <1>5, <2>1, <2>2 DEF Results, Busy
<1> QED BY <1>6, <1>7, <1>8, <1>9, <1>10, <1>11

(* Nothing is pending while a thread reads; an answer it reads for another *)
(* request is one the other thread waits for.                              *)
LEMMA ReadSocketAnswers ==
  ASSUME PortInv, Answers, ~sendFailed, ~scarce, NEW t \in Thread, ReadSocket(t)
  PROVE  Answers'
<1> USE DEF PortInv, Answers
<1>1. /\ pc[t] = "read" /\ storing = {} /\ UNCHANGED <<idx, since, lastidx>>
      /\ Busy(t) /\ idx[t] \in Index /\ idx[t] \in Held
  BY DEF ReadSocket, Busy, PortTypes, Held
<1>2. \A u \in Thread : Busy(u)' = Busy(u) /\ (u # t => pc'[u] = pc[u])
  BY <1>1 DEF ReadSocket, Goto, Busy, PortTypes
<1>3. \A u \in Thread : pc[u] # "store"
  BY <1>1 DEF Mutex
<1>4. \A u \in Thread : u # t /\ Busy(u) => idx[u] # idx[t]
  BY <1>1 DEF Alone, Thread
<1>5. \A j \in Index : j # idx[t] => rxbufstat'[j] = rxbufstat[j] /\ rxbuf'[j] = rxbuf[j]
  BY <1>1 DEF ReadSocket, Status, PortTypes
<1>6. Held' = Held
  BY <1>1, <1>2 DEF Held
<1>7. PICK u \in Thread : Thread = {t, u}
  BY DEF Thread
<1>8. CASE UNCHANGED <<rxbufstat, rxbuf, storing, wire>> /\ pc'[t] = "again"
  <2>1. /\ Requests' /\ \A f \in wire : Far(f.idx, f.age)' /\ OwnerOf(f)'
    BY <1>1, <1>2, <1>8, SameHeld
  <2>2. Frames' /\ Mutex' /\ Pending' /\ Released'
    BY <1>1, <1>2, <1>3, <1>6, <1>8, <2>1 DEF Frames, Mutex, Pending, Released
  <2>3. Results'
    BY <1>1, <1>2, <1>8 DEF Results
  <2> QED BY <2>1, <2>2, <2>3
<1>9. ASSUME NEW f \in wire, wire' = wire \ {f}, f.idx = idx[t],
              rxbuf' = [rxbuf EXCEPT ![f.idx] = f.of],
              rxbufstat' = [rxbufstat EXCEPT ![f.idx] = "COMPLETE"],
              pc'[t] = "copy", storing' = storing
       PROVE  Answers'
  <2>1. /\ Requests' /\ \A g \in wire : Far(g.idx, g.age)' /\ OwnerOf(g)'
    BY <1>1, <1>2, <1>5, <1>9, SameHeld
  <2>2. Frames' /\ Mutex' /\ Pending' /\ Released'
    BY <1>1, <1>2, <1>3, <1>5, <1>6, <1>9, <2>1 DEF Frames, Mutex, Pending, Released
  <2>3. f.of = t
    <3>1. OwnerOf(f)
      BY DEF Frames
    <3> QED BY <1>1, <1>4, <1>9, <3>1 DEF OwnerOf
  <2>4. rxbuf'[idx[t]] = t /\ rxbufstat'[idx[t]] = "COMPLETE"
    BY <1>1, <1>9, <2>3 DEF PortTypes
  <2>5. \A v \in Thread : v # t /\ Busy(v) =>
          idx[v] \in Index /\ rxbufstat'[idx[v]] = rxbufstat[idx[v]] /\ rxbuf'[idx[v]] = rxbuf[idx[v]]
    BY <1>4, <1>5 DEF PortTypes
  <2>6. Results'
    BY <1>1, <1>2, <1>9, <2>4, <2>5 DEF Results, Busy
  <2> QED BY <2>1, <2>2, <2>6
<1>10. ASSUME NEW f \in wire, wire' = wire \ {f}, f.idx # idx[t], rxbufstat[f.idx] = "TX",
              UNCHANGED <<rxbuf, rxbufstat>>,
              storing' = {[idx |-> f.idx, of |-> f.of]}, pc'[t] = "store"
       PROVE  Answers'
  <2>1. f \in Frame /\ f.idx \in Index /\ f.age \in Nat /\ f.age <= Window
        /\ Far(f.idx, f.age) /\ OwnerOf(f)
    BY DEF PortTypes, Frame, Frames
  <2>2. f.idx \in Held /\ f.idx \notin Ownerless
    BY <1>10, <2>1 DEF Released, Ownerless
  <2>3. f.of = u /\ u # t /\ Busy(u) /\ idx[u] = f.idx
    <3>1. f.of \in Thread /\ Busy(f.of) /\ idx[f.of] = f.idx
      BY <2>1, <2>2 DEF OwnerOf
    <3> QED BY <1>7, <1>10, <3>1
  <2>4. pc[u] \in {"wait", "again", "read"}
    BY <1>3, <1>10, <2>3 DEF Results, PortTypes, Busy
  <2>5. Ownerless' = Ownerless
    BY <1>1, <1>6, <1>10, <2>2 DEF Ownerless
  <2>6. Requests' /\ \A g \in wire : Far(g.idx, g.age)'
    BY <1>1, <1>2, <1>6, <2>5, FarKept
  <2>7. \A g : OwnerOf(g) => OwnerOf(g)'
    BY <1>1, <1>2, <1>6 DEF OwnerOf
  <2>8. Far(f.idx, Window)'
    <3>1. Far(f.idx, f.age)' 
      BY <2>6
    <3>2. FreeAhead(f.idx)' \in SUBSET Index /\ Ownerless' \ {f.idx} \in SUBSET Index
      BY DEF FreeAhead, Free, Ownerless
    <3>3. Cardinality(FreeAhead(f.idx)') \in Nat /\ Cardinality(Ownerless' \ {f.idx}) \in Nat
      BY <3>2, IndexSets
    <3> QED BY <2>1, <3>1, <3>3, PortAssumption DEF Far
  <2>9. Frames' /\ Mutex' /\ Released'
    BY <1>2, <1>3, <1>6, <1>10, <2>6, <2>7 DEF Frames, Mutex, Released
  <2>10. Pending'
    <3> DEFINE g == [idx |-> f.idx, of |-> f.of]
    <3>1. OwnerOf(g)'
      BY <2>1, <2>7 DEF OwnerOf
    <3>2. g.of = u /\ g.idx = f.idx /\ u # "old" /\ storing' = {g}
      BY <1>10, <2>3 DEF Thread
    <3>3. pc'[u] = pc[u]
      BY <1>2, <2>3
    <3> HIDE DEF g
    <3> QED BY <1>10, <2>4, <2>8, <3>1, <3>2, <3>3 DEF Pending
  <2>11. Results'
    BY <1>1, <1>2, <1>10 DEF Results
  <2> QED BY <2>6, <2>9, <2>10, <2>11
<1>11. ASSUME NEW f \in wire, wire' = wire \ {f},
              UNCHANGED <<rxbuf, rxbufstat, storing>>, pc'[t] = "again"
       PROVE  Answers'
  <2>1. /\ Requests' /\ \A g \in wire : Far(g.idx, g.age)' /\ OwnerOf(g)'
    BY <1>1, <1>2, <1>11, SameHeld
  <2>2. Frames' /\ Mutex' /\ Pending' /\ Released'
    BY <1>1, <1>2, <1>3, <1>6, <1>11, <2>1 DEF Frames, Mutex, Pending, Released
  <2>3. Results'
    BY <1>1, <1>2, <1>11 DEF Results
  <2> QED BY <2>1, <2>2, <2>3
<1> QED
  <2>1. \A place : Goto(t, place) => pc'[t] = place
    BY DEF Goto, PortTypes
  <2> QED BY <1>8, <1>9, <1>10, <1>11, <2>1 DEF ReadSocket, Awaited, Status

LEMMA StoreAnswers ==
  ASSUME PortInv, Answers, ~sendFailed, ~scarce, NEW t \in Thread, Store(t)
  PROVE  Answers'
<1> USE DEF PortInv, Answers
<1>1. PICK f \in storing : /\ rxbuf' = [rxbuf EXCEPT ![f.idx] = f.of]
                           /\ rxbufstat' = [rxbufstat EXCEPT ![f.idx] = "RCVD"]
  BY DEF Store, Status
<1>2. /\ pc[t] = "store" /\ pc' = [pc EXCEPT ![t] = "again"] /\ storing' = {}
      /\ UNCHANGED <<idx, since, lastidx, wire>>
  BY DEF Store, Goto
<1>3. storing = {f} /\ f.idx \in Index /\ f.of \in Thread \cup {"old"} /\ OwnerOf(f)
  BY DEF Mutex, Pending, PortTypes, Answer
<1>4. \A u \in Thread : Busy(u)' = Busy(u) /\ (u # t => pc'[u] = pc[u])
  BY <1>2 DEF Busy, PortTypes
<1>5. /\ rxbufstat'[f.idx] = "RCVD" /\ rxbuf'[f.idx] = f.of
      /\ \A j \in Index : j # f.idx => rxbufstat'[j] = rxbufstat[j] /\ rxbuf'[j] = rxbuf[j]
  BY <1>1, <1>3 DEF PortTypes
<1>6. Held' = Held
  BY <1>2, <1>4 DEF Held
<1>7. Ownerless' = Ownerless
  BY <1>2, <1>3, <1>5, <1>6 DEF Ownerless
<1>8. Requests' /\ \A g \in wire : Far(g.idx, g.age)'
  BY <1>2, <1>4, <1>6, <1>7, FarKept
<1>9. Frames'
  BY <1>2, <1>4, <1>6, <1>8 DEF Frames, OwnerOf
<1>10. \A u \in Thread : pc'[u] # "store"
  BY <1>2, <1>4 DEF Mutex, PortTypes
<1>11. Mutex' /\ Pending'
  BY <1>2, <1>10 DEF Mutex, Pending
<1>12. Released'
  BY <1>5, <1>6 DEF Released
<1>13. Results'
  <2> SUFFICES ASSUME NEW u \in Thread, Busy(u)
               PROVE  /\ pc'[u] = "send" => rxbufstat'[idx[u]] = "ALLOC"
                      /\ pc'[u] = "copy" => rxbufstat'[idx[u]] = "COMPLETE" /\ rxbuf'[idx[u]] = u
                      /\ rxbufstat'[idx[u]] = "RCVD" => rxbuf'[idx[u]] = u
    BY <1>2, <1>4 DEF Results, Busy
  <2>1. idx[u] \in Index
    BY DEF PortTypes
  <2>2. CASE idx[u] = f.idx
    <3>1. f.of \in Thread /\ Busy(f.of) /\ idx[f.of] = idx[u]
      BY <1>3, <2>2 DEF OwnerOf, Held
    <3>2. f.of = u
      BY <3>1 DEF Alone, Thread
    <3>3. pc[u] \in {"wait", "again", "read"} /\ u # t
      BY <1>2, <3>1, <3>2 DEF Pending
    <3> QED BY <1>4, <1>5, <2>2, <3>2, <3>3
  <2>3. CASE idx[u] # f.idx
    <3>1. pc'[u] = pc[u] \/ pc'[u] = "again"
      BY <1>2, <1>4 DEF PortTypes
    <3>2. rxbufstat'[idx[u]] = rxbufstat[idx[u]] /\ rxbuf'[idx[u]] = rxbuf[idx[u]]
      BY <1>5, <2>1, <2>3
    <3> QED BY <3>1, <3>2 DEF Results
  <2> QED BY <2>2, <2>3
<1> QED BY <1>8, <1>9, <1>11, <1>12, <1>13

(* The index of a request that ends while its answer is stored is lost,    *)
(* and far enough behind not to be taken before.                           *)
LEMMA ReleaseAnswers ==
  ASSUME PortInv, PortInv', Answers, ~sendFailed, ~scarce', NEW t \in Thread, Release(t)
  PROVE  Answers'
<1> USE DEF Answers
<1>1. /\ pc[t] \in {"copy", "again"} /\ pc' = [pc EXCEPT ![t] = "free"]
      /\ rxbufstat' = [rxbufstat EXCEPT ![idx[t]] = "EMPTY"]
      /\ idx' = [idx EXCEPT ![t] = 0] /\ since' = [since EXCEPT ![t] = 0]
      /\ rxbuf' = [i \in Index |-> IF rxbuf[i] = t THEN "old" ELSE rxbuf[i]]
      /\ lastidx' = lastidx /\ ~scarce
  BY DEF Release, Goto, Status
<1>2. /\ Busy(t) /\ ~Busy(t)' /\ idx[t] \in Index /\ idx[t] \in Held
      /\ pc'[t] = "free" /\ rxbufstat'[idx[t]] = "EMPTY" /\ PortTypes
  BY <1>1 DEF Busy, PortInv, PortTypes, Held
<1>3. \A u \in Thread : u # t => /\ pc'[u] = pc[u] /\ idx'[u] = idx[u] /\ since'[u] = since[u]
                                 /\ Busy(u)' = Busy(u) /\ idx[u] \in Index
                                 /\ Busy(u) => idx[u] # idx[t]
  BY <1>1, <1>2 DEF Busy, PortInv, PortTypes, Alone, Thread
<1>4. \A j \in Index : j # idx[t] => rxbufstat'[j] = rxbufstat[j]
  BY <1>1, <1>2 DEF PortTypes
<1>5. Held' = Held \ {idx[t]}
  BY <1>2, <1>3 DEF Held
<1>6. \A f : OwnerOf(f) => OwnerOf(IF f.of = t THEN [f EXCEPT !.of = "old"] ELSE f)'
  <2> SUFFICES ASSUME NEW f, OwnerOf(f)
               PROVE  OwnerOf(IF f.of = t THEN [f EXCEPT !.of = "old"] ELSE f)'
    OBVIOUS
  <2>1. CASE f.of = t
    <3>1. f.idx = idx[t] /\ f.idx \notin Held'
      BY <1>5, <2>1 DEF OwnerOf, Thread
    <3> QED BY <2>1, <3>1 DEF OwnerOf
  <2>2. CASE f.of # t
    BY <1>3, <1>5, <2>2 DEF OwnerOf
  <2> QED BY <2>1, <2>2
<1>7. \A f \in storing' : \E g \in storing :
        f = (IF g.of = t THEN [g EXCEPT !.of = "old"] ELSE g) /\ f.idx = g.idx /\ g \in Answer
  BY <1>2 DEF Release, Outdated, PortTypes, Answer
<1>8. \A g \in storing : \E f \in storing' : f.idx = g.idx
  <2> SUFFICES ASSUME NEW g \in storing PROVE \E f \in storing' : f.idx = g.idx
    OBVIOUS
  <2> DEFINE f == IF g.of = t THEN [g EXCEPT !.of = "old"] ELSE g
  <2>1. f \in storing'
    BY DEF Release, Outdated
  <2>2. f.idx = g.idx
    BY <1>2 DEF PortTypes, Answer
  <2> QED BY <2>1, <2>2
<1>9. Held' \cup Ownerless' \subseteq Held \cup Ownerless /\ Ownerless \subseteq Ownerless'
  BY <1>2, <1>4, <1>5, <1>7, <1>8 DEF Ownerless
<1>10. Requests' /\ \A f \in wire : Far(f.idx, f.age)'
  BY <1>1, <1>2, <1>3, <1>9, FarKept
<1>11. Frames'
  <2> SUFFICES ASSUME NEW f \in wire'
               PROVE  f.age <= Window /\ Far(f.idx, f.age)' /\ OwnerOf(f)'
    BY DEF Frames
  <2>1. PICK g \in wire : f = IF g.of = t THEN [g EXCEPT !.of = "old"] ELSE g
    BY DEF Release, Outdated
  <2>2. g \in Frame
    BY <1>2 DEF PortTypes
  <2>3. f.idx = g.idx /\ f.age = g.age
    BY <2>1, <2>2 DEF Frame
  <2> QED BY <1>6, <1>10, <2>1, <2>3 DEF Frames
<1>12. \A f, g \in storing' : f = g
  BY <1>7 DEF Mutex
<1>13. Mutex'
  <2>1. storing # {} <=> storing' # {}
    BY <1>7, <1>8
  <2> QED BY <1>1, <1>2, <1>3, <1>12, <2>1 DEF Mutex
<1>14. Pending'
  <2> SUFFICES ASSUME NEW f \in storing'
               PROVE  /\ OwnerOf(f)' /\ f.of = "old"
                      /\ \A u \in Thread : pc'[u] # "store" =>
                           pc'[u] = "free" /\ FreeAhead(f.idx)' # {}
    BY DEF Pending, Thread
  <2>1. PICK g \in storing : /\ f = (IF g.of = t THEN [g EXCEPT !.of = "old"] ELSE g)
                             /\ f.idx = g.idx /\ g \in Answer
    BY <1>7
  <2>2. OwnerOf(g) /\ OwnerOf(f)' /\ g.idx \in Index
    BY <1>6, <2>1 DEF Pending, Answer
  <2>3. \A u \in Thread : u # t => pc[u] = "store"
    BY <1>1, StorerAndOther
  <2>4. g.of # "old"
    BY <1>1 DEF Pending
  <2>5. g.of = t /\ Far(g.idx, Window)
    BY <2>1, <2>3, <2>4 DEF Pending, Answer
  <2>6. f.of = "old" /\ g.idx = idx[t]
    BY <2>1, <2>2, <2>5 DEF Answer, OwnerOf, Thread
  <2>7. Far(f.idx, Window)'
    BY <1>1, <1>9, <2>1, <2>2, <2>5, StaysFar, PortAssumption
  <2>8. f.idx \in Ownerless'
    <3>1. f.idx \in Index \ Held'
      BY <1>5, <2>1, <2>2, <2>6
    <3> QED BY <3>1 DEF Ownerless
  <2>9. FreeAhead(f.idx)' # {}
    BY <2>1, <2>2, <2>7, <2>8, LostStillAhead
  <2> QED BY <1>2, <1>3, <2>2, <2>3, <2>6, <2>9
<1>15. Released'
  BY <1>2, <1>4, <1>5 DEF Released
<1>16. Results'
  <2> SUFFICES ASSUME NEW u \in Thread, u # t, Busy(u)
               PROVE  /\ rxbufstat'[idx[u]] = rxbufstat[idx[u]]
                      /\ rxbuf[idx[u]] = u => rxbuf'[idx[u]] = u
    BY <1>2, <1>3 DEF Results, Busy
  <2> QED BY <1>1, <1>3, <1>4
<1> QED BY <1>10, <1>11, <1>13, <1>14, <1>15, <1>16

-----------------------------------------------------------------------------
LEMMA AnswerStarts == PortInit => AnswerInv
<1> SUFFICES ASSUME PortInit PROVE Answers
  BY DEF AnswerInv
<1>1. \A t \in Thread : pc[t] = "free" /\ ~Busy(t)
  BY DEF PortInit, Busy
<1> QED BY <1>1 DEF PortInit, Answers, Requests, Frames, Mutex, Pending, Released, Results, Busy

LEMMA AnswerStutters ==
  ASSUME AnswerInv, UNCHANGED portVars PROVE AnswerInv'
<1> SUFFICES ASSUME Answers PROVE Answers'
  BY DEF AnswerInv, portVars
<1>1. UNCHANGED <<pc, idx, since, rxbufstat, rxbuf, lastidx, storing, wire>>
  BY DEF portVars, owner
<1>2. Held' = Held /\ \A u \in Thread : Busy(u)' = Busy(u)
  BY <1>1 DEF Held, Busy
<1>3. Ownerless' = Ownerless
  BY <1>1, <1>2 DEF Ownerless
<1>4. \A i : FreeAhead(i)' = FreeAhead(i)
  BY <1>1, <1>2, <1>3 DEF FreeAhead, Free, Place
<1>5. \A i, n : Far(i, n)' = Far(i, n)
  BY <1>3, <1>4 DEF Far
<1>6. \A f : OwnerOf(f)' = OwnerOf(f)
  BY <1>1, <1>2 DEF OwnerOf
<1>7. Requests' /\ Frames' /\ Mutex' /\ Released' /\ Results'
  BY <1>1, <1>2, <1>5, <1>6 DEF Answers, Requests, Frames, Mutex, Released, Results
<1>8. Pending'
  BY <1>1, <1>4, <1>5, <1>6 DEF Answers, Pending
<1> QED BY <1>7, <1>8 DEF Answers

LEMMA AnswerStep ==
  ASSUME PortInv, PortInv', AnswerInv, NEW t \in Thread, Step(t) PROVE AnswerInv'
<1> SUFFICES ASSUME ~sendFailed', ~scarce' PROVE Answers'
  BY DEF AnswerInv
<1>1. ~sendFailed
  BY DEF Step, GetIndex, OutFrame, LookInBuffer, ReadSocket, Store, Release
<1>2. ~scarce
  <2>1. scarce' = scarce \/ scarce' = (scarce \/ Cardinality(Index \ Ownerless') < Window + 2)
    BY DEF Step, GetIndex, OutFrame, LookInBuffer, ReadSocket, Store, Release
  <2> QED BY <2>1, Zenon
<1>3. Answers
  BY <1>1, <1>2 DEF AnswerInv
<1> QED BY <1>1, <1>2, <1>3, GetIndexAnswers, OutFrameAnswers, LookInBufferAnswers, ReadSocketAnswers,
           StoreAnswers, ReleaseAnswers DEF Step

(* What a thread copies out of its buffer is the answer to its own         *)
(* datagram, never a late one to an earlier datagram of the same index, as *)
(* long as the indices lost to late answers have always left room for the  *)
(* two requests and the takings a frame outlives (scarce): for every       *)
(* number of buffers and every life of a frame.                            *)
THEOREM AnswersOwn == PortSpec => []AnswerIsOwn
<1>1. PortInit => PortInv /\ AnswerInv
  BY PortStarts, AnswerStarts
<1>2. PortInv /\ AnswerInv /\ [PortNext]_portVars => (PortInv /\ AnswerInv)'
  <2> SUFFICES ASSUME PortInv, AnswerInv, [PortNext]_portVars PROVE PortInv' /\ AnswerInv'
    OBVIOUS
  <2>1. CASE UNCHANGED portVars
    BY <2>1, Stutters, AnswerStutters
  <2>2. CASE PortNext
    <3>1. PICK t \in Thread : Step(t)
      BY <2>2 DEF PortNext, LoopRequest, CheckRequest, Thread
    <3>2. PortInv'
      BY <3>1, StepKeeps
    <3> QED BY <3>1, <3>2, AnswerStep
  <2> QED BY <2>1, <2>2
<1>3. AnswerInv => AnswerIsOwn
  BY DEF AnswerInv, Answers, Results, AnswerIsOwn
<1> QED BY <1>1, <1>2, <1>3, PTL DEF PortSpec
==============================================================================
