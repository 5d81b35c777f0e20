----------------------------- MODULE EtherCATPort -----------------------------
(***************************************************************************)
(* The network port under the EtherCAT master, shared by the control loop  *)
(* ("rt") and the check thread. A datagram takes an index and the buffer   *)
(* that belongs to it; whoever reads the socket puts an answer into the    *)
(* buffer its index names, under rx_mutex, and the thread that waits finds *)
(* it there. The control loop sends one frame of process data and looks    *)
(* for it in its next cycle; the check thread sends a datagram, waits and  *)
(* repeats it until its time is up. Frames get lost and overtake others.   *)
(*                                                                         *)
(* Of an answer only the request it belongs to is kept: the one a thread   *)
(* has under way, or an "old" one that has ended. The redundant second     *)
(* port is not configured.                                                 *)
(***************************************************************************)
EXTENDS Integers, FiniteSets

CONSTANTS
  MaxBuf,                   \* EC_MAXBUF: 16
  Window,                   \* bound: answers to a request are back or lost
                            \* before more indices than this are taken
  MaxSends                  \* bound: how often srconfirm sends in its time

ASSUME PortAssumption ==
  /\ MaxBuf \in Nat /\ Window \in Nat /\ MaxSends \in Nat \ {0}
  /\ Window + 2 <= MaxBuf

Thread == {"rt", "check"}
Index  == 0..(MaxBuf - 1)

VARIABLES
  pc,                       \* where each thread is
  idx,                      \* the index of its request
  sends,                    \* how often it has sent it
  since,                    \* indices taken since, counted to Window + 1
  rxbufstat,                \* "EMPTY", "ALLOC", "TX", "RCVD" or "COMPLETE"
  rxbuf,                    \* whose answer the buffer holds
  lastidx,
  storing,                  \* the frame read by the holder of rx_mutex, as a
                            \* set; the mutex is free if it is empty
  wire,                     \* frames under way; one never read is lost
  sendFailed,               \* send() has failed, which it does once (bound)
  scarce                    \* history: too few indices had an owner or could
                            \* get one to last while an answer is under way

owner == <<pc, idx, sends, since>>
portVars  == <<owner, rxbufstat, rxbuf, lastidx, storing, wire, sendFailed, scarce>>

Busy(t) == pc[t] # "free"
Held    == {idx[t] : t \in {u \in Thread : Busy(u)}}

(* Indices nobody will release: in use, or about to be, without an owner.  *)
(* Nothing in the code bounds them, and nothing brings them back but being *)
(* taken when no index is unused.                                          *)
Ownerless ==
  {i \in Index \ Held : rxbufstat[i] # "EMPTY" \/ \E f \in storing : f.idx = i}

PortInit ==
  /\ pc = [t \in Thread |-> "free"] /\ idx = [t \in Thread |-> 0]
  /\ sends = [t \in Thread |-> 0] /\ since = [t \in Thread |-> 0]
  /\ rxbufstat = [i \in Index |-> "EMPTY"] /\ rxbuf = [i \in Index |-> "old"]
  /\ lastidx = 0 /\ storing = {} /\ wire = {} /\ sendFailed = FALSE /\ scarce = FALSE

-----------------------------------------------------------------------------
Goto(t, place)  == pc' = [pc EXCEPT ![t] = place]
Status(i, stat) == rxbufstat' = [rxbufstat EXCEPT ![i] = stat]

(* Mutant: the search starts at the first index.                           *)
TriedFromZero(k) == k

(* The index tried after k others.                                         *)
Tried(k) == (lastidx + 1 + k) % MaxBuf

(* Mutant: the next index is taken, whether it is in use or not.           *)
TakenUnseen(i) == i = Tried(0)

(* The first unused index after the last one taken; with none unused, the  *)
(* next one.                                                               *)
Taken(i) ==
  \E k \in Index :
    /\ i = Tried(k)
    /\ \/ rxbufstat[i] = "EMPTY" /\ \A j \in 0..(k - 1) : rxbufstat[Tried(j)] # "EMPTY"
       \/ k = 0 /\ \A j \in Index : rxbufstat[j] # "EMPTY"

(* Requests and frames age with the indices taken; frames that are too old *)
(* are lost.                                                               *)
Aged(frames) == {[f EXCEPT !.age = @ + 1] : f \in {g \in frames : g.age < Window}}
Older(n)     == IF n > Window THEN n ELSE n + 1

GetIndex(t) ==
  /\ pc[t] = "free" /\ Goto(t, "send")
  /\ \E i \in Index :
       /\ Taken(i)
       /\ Status(i, "ALLOC") /\ lastidx' = i /\ idx' = [idx EXCEPT ![t] = i]
  /\ since' = [u \in Thread |-> IF u # t /\ Busy(u) THEN Older(since[u]) ELSE 0]
  /\ wire' = Aged(wire)
  /\ UNCHANGED <<sends, rxbuf, storing, sendFailed, scarce>>

Sent(t) == IF since[t] > Window THEN {}
           ELSE {[idx |-> idx[t], of |-> t, copy |-> sends[t], age |-> since[t]]}

(* A datagram is sent once, by the check thread again when the timer of a  *)
(* wait has expired. A failed send leaves the request waiting, and its     *)
(* index unused.                                                           *)
OutFrame(t) ==
  /\ \/ pc[t] = "send"
     \/ pc[t] = "again" /\ t = "check" /\ sends[t] < MaxSends
  /\ Goto(t, "wait")
  /\ sends' = [sends EXCEPT ![t] = @ + 1]
  /\ \/ /\ Status(idx[t], "TX") /\ wire' = wire \cup Sent(t)
        /\ UNCHANGED sendFailed
     \/ /\ ~sendFailed /\ sendFailed' = TRUE
        /\ Status(idx[t], "EMPTY")
        /\ UNCHANGED wire
  /\ UNCHANGED <<idx, since, rxbuf, lastidx, storing, scarce>>

-----------------------------------------------------------------------------
(* inframe looks for an answer the other thread has put into the buffer,   *)
(* without the mutex; if there is none, it reads the socket. A thread does *)
(* so at least once before it looks at its timer.                          *)
LookInBuffer(t) ==
  /\ pc[t] \in {"wait", "again"}
  /\ IF rxbufstat[idx[t]] = "RCVD"
       THEN Status(idx[t], "COMPLETE") /\ Goto(t, "copy")
       ELSE UNCHANGED rxbufstat /\ Goto(t, "read")
  /\ UNCHANGED <<idx, sends, since, rxbuf, lastidx, storing, wire, sendFailed, scarce>>

Awaited(i) == rxbufstat[i] = "TX"

(* With the mutex: no frame has come (it is under way, or lost), or the    *)
(* thread's own answer, or one for a request that waits, or one nobody     *)
(* waits for.                                                              *)
ReadSocket(t) ==
  /\ pc[t] = "read" /\ storing = {}
  /\ \/ Goto(t, "again") /\ UNCHANGED <<rxbufstat, rxbuf, storing, wire>>
     \/ \E f \in wire :
          /\ wire' = wire \ {f}
          /\ IF f.idx = idx[t]
               THEN /\ rxbuf' = [rxbuf EXCEPT ![f.idx] = f.of]
                    /\ Status(f.idx, "COMPLETE") /\ Goto(t, "copy")
                    /\ UNCHANGED storing
               ELSE /\ IF Awaited(f.idx)
                         THEN storing' = {[idx |-> f.idx, of |-> f.of]} /\ Goto(t, "store")
                         ELSE UNCHANGED storing /\ Goto(t, "again")
                    /\ UNCHANGED <<rxbufstat, rxbuf>>
  /\ UNCHANGED <<idx, sends, since, lastidx, sendFailed, scarce>>

(* The answer of another request: into its buffer, and the mutex is free.  *)
Store(t) ==
  /\ pc[t] = "store" /\ Goto(t, "again")
  /\ \E f \in storing :
       /\ rxbuf' = [rxbuf EXCEPT ![f.idx] = f.of]
       /\ Status(f.idx, "RCVD")
  /\ storing' = {}
  /\ UNCHANGED <<idx, sends, since, lastidx, wire, sendFailed, scarce>>

(* Mutant: the control loop waits until its frame is there.                *)
TimeIsUpForCheck(t) == t = "check"

(* The time of the whole request may be up when that of one wait is.       *)
TimeIsUp(t) == t \in Thread

(* Whatever is still under way for a request that ends is old.             *)
Outdated(frames, t) == {IF f.of = t THEN [f EXCEPT !.of = "old"] ELSE f : f \in frames}

(* The caller has copied the answer, or got none in time: the index is     *)
(* released, also if the answer is just being put into its buffer; then it *)
(* counts as in use afterwards, and nobody is left to release it.          *)
Release(t) ==
  /\ pc[t] = "copy" \/ (pc[t] = "again" /\ TimeIsUp(t))
  /\ Goto(t, "free")
  /\ since' = [since EXCEPT ![t] = 0] /\ sends' = [sends EXCEPT ![t] = 0]
  /\ Status(idx[t], "EMPTY") /\ idx' = [idx EXCEPT ![t] = 0]
  /\ rxbuf' = [i \in Index |-> IF rxbuf[i] = t THEN "old" ELSE rxbuf[i]]
  /\ wire' = Outdated(wire, t) /\ storing' = Outdated(storing, t)
  /\ scarce' = (scarce \/ Cardinality(Index \ Ownerless') < Window + 2)
  /\ UNCHANGED <<lastidx, sendFailed>>

Step(t) == \/ GetIndex(t) \/ OutFrame(t) \/ LookInBuffer(t) \/ ReadSocket(t)
           \/ Store(t) \/ Release(t)

(* send_processdata and receive_processdata of one frame; FPRD and the     *)
(* other primitives the check thread uses.                                 *)
LoopRequest == Step("rt")
CheckRequest == Step("check")

PortNext == LoopRequest \/ CheckRequest

PortSpec == PortInit /\ [][PortNext]_portVars

(* Both threads run, the check thread sleeps between its passes and so     *)
(* lets the control loop have the mutex, and the timer of a wait expires.  *)
PortFairSpec ==
  /\ PortSpec
  /\ WF_portVars(LoopRequest) /\ WF_portVars(CheckRequest)
  /\ SF_portVars(ReadSocket("rt")) /\ SF_portVars(Release("rt"))

-----------------------------------------------------------------------------
(* Properties.                                                             *)

(* The two requests share an index and its buffer only when every other    *)
(* index is in use, however long a request is kept and however many        *)
(* indices late answers have cost, down to the last one (ecx_getindex then *)
(* hands out one in use); as long as send() succeeds (a request whose send *)
(* failed keeps an index that counts as unused).                           *)
OneRequestPerIndex ==
  ~sendFailed /\ Busy("rt") /\ Busy("check") /\ idx["rt"] = idx["check"] =>
    \A i \in Index \ {idx["rt"]} : rxbufstat[i] # "EMPTY"

(* What a thread copies out of its buffer is the answer to the datagram it *)
(* has sent, not to an earlier one that had the same index, until late     *)
(* answers have cost so many indices that one comes round again while an   *)
(* answer is under way.                                                    *)
AnswerIsOwn ==
  ~sendFailed /\ ~scarce => \A t \in Thread : pc[t] = "copy" => rxbuf[idx[t]] = t

(* The control loop gets its cycle done, whatever is lost or late and      *)
(* whatever the check thread does with the mutex and with its frames.      *)
CycleEnds == Busy("rt") ~> ~Busy("rt")
=============================================================================
