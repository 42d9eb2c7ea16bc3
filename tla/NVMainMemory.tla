---------------------------- MODULE NVMainMemory ----------------------------
(***************************************************************************)
(* The gem5 memory objects that wrap the NVMain simulator: NVMainMemory    *)
(* (PCM, Simulators/gem5/nvmain_mem.cc) and MyDramMemory (DRAM,            *)
(* mydram_mem.cc, the same code under another name).  Every variable is a  *)
(* function of the memory m in Mems; an operator is one method of the      *)
(* class and says what the method does to the variables of the class.      *)
(* HybridMemory puts the memories behind the crossbar.                     *)
(*                                                                         *)
(* The execution-driven mode (m_eventDriven false) of the master instance  *)
(* is modelled, the mode the repository's configurations run.  The NVMain  *)
(* behind the object is reduced to what this code sees of it: a bounded    *)
(* transaction queue, from which requests move to the devices and then     *)
(* complete, in any order.                                                 *)
(***************************************************************************)
EXTENDS Integers, Sequences, FiniteSets

CONSTANTS
  Mems,        \* the memory objects
  Packets,     \* the packets masters send; a name is reused once it is free
  PktCmd,      \* the command of a packet
  NoPkt,       \* no packet
  QueueSize    \* capacity of the transaction queue of a memory

Cmds == {"ReadReq", "WriteReq", "Writeback", "UpgradeReq", "Inhibited"}

ASSUME MemAssumption ==
  /\ PktCmd \in [Packets -> Cmds]
  /\ NoPkt \notin Packets
  /\ QueueSize \in Nat \ {0}

VARIABLES
  retryRead,        \* a read was refused and is owed a sendRetry()
  retryWrite,       \* a write was refused and is owed a sendRetry()
  retryResp,        \* the crossbar refused a response
  responseQueue,    \* packets to send back, in order
  respondEvent,     \* respondEvent is scheduled
  clockEvent,       \* clockEvent is scheduled
  m_awake,          \* the clock runs although nothing is outstanding
  m_request_map,    \* requests NVMain has not completed, by their packet
  transactionQueue, \* the ones still in NVMain's transaction queue
  drainManager,     \* a drain was asked for and is not signalled yet
  completing,       \* the request RequestComplete() is working on
  pc                \* how far it has come

memVars == <<retryRead, retryWrite, retryResp, responseQueue, respondEvent,
             clockEvent, m_awake, m_request_map, transactionQueue,
             drainManager, completing, pc>>

IsRead(p)        == PktCmd[p] = "ReadReq"
IsWrite(p)       == PktCmd[p] \in {"WriteReq", "Writeback"}
NeedsResponse(p) == PktCmd[p] \in {"ReadReq", "WriteReq", "UpgradeReq"}

(* The constructor and startup(): awake, with the first tick scheduled. *)
InitMem ==
  /\ retryRead = [m \in Mems |-> FALSE]
  /\ retryWrite = [m \in Mems |-> FALSE]
  /\ retryResp = [m \in Mems |-> FALSE]
  /\ responseQueue = [m \in Mems |-> << >>]
  /\ respondEvent = [m \in Mems |-> FALSE]
  /\ clockEvent = [m \in Mems |-> TRUE]
  /\ m_awake = [m \in Mems |-> TRUE]
  /\ m_request_map = [m \in Mems |-> {}]
  /\ transactionQueue = [m \in Mems |-> {}]
  /\ drainManager = [m \in Mems |-> FALSE]
  /\ completing = [m \in Mems |-> NoPkt]
  /\ pc = [m \in Mems |-> "none"]

(* Mutant: one queue entry is never used. *)
IsIssuableOffByOne(m) == Cardinality(transactionQueue[m]) < QueueSize - 1

(* NVMain::IsIssuable(): the controller has a free queue entry. *)
IsIssuable(m) == Cardinality(transactionQueue[m]) < QueueSize

(* A response is queued and ScheduleResponse() makes sure it is sent. *)
QueueResponse(m, p) ==
  /\ responseQueue' = [responseQueue EXCEPT ![m] = Append(@, p)]
  /\ respondEvent' = [respondEvent EXCEPT ![m] = TRUE]

(* What recvTimingReq() returns. *)
Accepts(m, p) ==
  (IsRead(p) \/ IsWrite(p)) =>
    ~retryRead[m] /\ ~retryWrite[m] /\ IsIssuable(m)

(* Mutant: a refused write does not set retryWrite. *)
RecvReadWriteNoFlag(m, p) ==
  /\ IF IsIssuable(m)
     THEN /\ transactionQueue' = [transactionQueue EXCEPT ![m] = @ \cup {p}]
          /\ m_request_map' = [m_request_map EXCEPT ![m] = @ \cup {p}]
     ELSE UNCHANGED <<transactionQueue, m_request_map>>
  /\ retryRead' = [retryRead EXCEPT ![m] = ~IsIssuable(m) /\ IsRead(p)]
  /\ UNCHANGED <<retryWrite, retryResp, responseQueue, respondEvent, clockEvent,
                 m_awake, drainManager, completing, pc>>

(* Mutant: a memory put to sleep by an atomic access is not woken. *)
RecvReadWriteAsleep(m, p) ==
  /\ IsIssuable(m)
  /\ transactionQueue' = [transactionQueue EXCEPT ![m] = @ \cup {p}]
  /\ m_request_map' = [m_request_map EXCEPT ![m] = @ \cup {p}]
  /\ m_awake' = [m_awake EXCEPT ![m] = TRUE]
  /\ UNCHANGED <<retryRead, retryWrite, retryResp, responseQueue, respondEvent,
                 clockEvent, drainManager, completing, pc>>

(* recvTimingReq() of a read or a write while no retry is owed.  A write   *)
(* is answered at once: the copy that carries its packet enters the map    *)
(* and leaves it again inside the call, and only the request NVMain works  *)
(* on stays.                                                               *)
RecvReadWrite(m, p) ==
  /\ m_awake' = [m_awake EXCEPT ![m] = TRUE]
  /\ clockEvent' = [clockEvent EXCEPT ![m] = @ \/ ~m_awake[m]]
  /\ IF IsIssuable(m)
     THEN /\ transactionQueue' = [transactionQueue EXCEPT ![m] = @ \cup {p}]
          /\ m_request_map' = [m_request_map EXCEPT ![m] = @ \cup {p}]
          /\ IF IsWrite(p) /\ NeedsResponse(p)
             THEN QueueResponse(m, p)
             ELSE UNCHANGED <<responseQueue, respondEvent>>
          /\ UNCHANGED <<retryRead, retryWrite>>
     ELSE /\ retryRead' = [retryRead EXCEPT ![m] = @ \/ IsRead(p)]
          /\ retryWrite' = [retryWrite EXCEPT ![m] = @ \/ ~IsRead(p)]
          /\ UNCHANGED <<transactionQueue, m_request_map, responseQueue,
                         respondEvent>>
  /\ UNCHANGED <<retryResp, drainManager, completing, pc>>

(* MemoryPort::recvTimingReq(). *)
RecvTimingReq(m, p) ==
  CASE PktCmd[p] = "Inhibited" -> UNCHANGED memVars
    [] PktCmd[p] = "UpgradeReq" ->
         /\ QueueResponse(m, p)
         /\ UNCHANGED <<retryRead, retryWrite, retryResp, clockEvent, m_awake,
                        m_request_map, transactionQueue, drainManager,
                        completing, pc>>
    [] (IsRead(p) \/ IsWrite(p)) /\ (retryRead[m] \/ retryWrite[m]) ->
         UNCHANGED memVars
    [] OTHER -> RecvReadWrite(m, p)

(* MemoryPort::recvAtomic() without NVMainWarmUp: the clock may stop. *)
RecvAtomic(m) ==
  /\ m_awake' = [m_awake EXCEPT ![m] = FALSE]
  /\ UNCHANGED <<retryRead, retryWrite, retryResp, responseQueue, respondEvent,
                 clockEvent, m_request_map, transactionQueue, drainManager,
                 completing, pc>>

(* CheckDrainState(): the new value of drainManager, the map being M. *)
CheckDrainState(m, M) == drainManager[m] /\ M # {}

(* Mutant: the next response is not scheduled. *)
ResponseSentOnce(m, resp, event) ==
  /\ retryResp' = resp
  /\ responseQueue' = [responseQueue EXCEPT ![m] = Tail(@)]
  /\ respondEvent' = event
  /\ UNCHANGED <<retryRead, retryWrite, clockEvent, m_awake, m_request_map,
                 transactionQueue, drainManager, completing, pc>>

(* SendResponses() after the crossbar took the first response. *)
ResponseSent(m, resp, event) ==
  /\ retryResp' = resp
  /\ responseQueue' = [responseQueue EXCEPT ![m] = Tail(@)]
  /\ respondEvent' = [event EXCEPT ![m] = @ \/ Len(responseQueue[m]) > 1]
  /\ drainManager' = [drainManager EXCEPT
                        ![m] = CheckDrainState(m, m_request_map[m])]
  /\ UNCHANGED <<retryRead, retryWrite, clockEvent, m_awake, m_request_map,
                 transactionQueue, completing, pc>>

(* The tick starts: the event is no longer scheduled while it runs. *)
TickStarts(m) ==
  /\ clockEvent[m]
  /\ clockEvent' = [clockEvent EXCEPT ![m] = FALSE]
  /\ UNCHANGED <<retryRead, retryWrite, retryResp, responseQueue, respondEvent,
                 m_awake, m_request_map, transactionQueue, drainManager,
                 completing, pc>>

(* Inside the tick the controller takes a request out of its queue. *)
Dispatch(m) ==
  \E p \in transactionQueue[m] :
    /\ transactionQueue' = [transactionQueue EXCEPT ![m] = @ \ {p}]
    /\ UNCHANGED <<retryRead, retryWrite, retryResp, responseQueue,
                   respondEvent, clockEvent, m_awake, m_request_map,
                   drainManager, completing, pc>>

(* Inside the tick NVMain calls RequestComplete() for a request. *)
CompleteStarts(m) ==
  /\ pc[m] = "none"
  /\ \E p \in m_request_map[m] \ transactionQueue[m] :
       completing' = [completing EXCEPT ![m] = p]
  /\ pc' = [pc EXCEPT ![m] = "retryRead"]
  /\ UNCHANGED <<retryRead, retryWrite, retryResp, responseQueue, respondEvent,
                 clockEvent, m_awake, m_request_map, transactionQueue,
                 drainManager>>

(* Mutant: retryRead is not reset. *)
ClearRetryReadKeeps(m) ==
  /\ pc[m] = "retryRead"
  /\ pc' = [pc EXCEPT ![m] = "retryWrite"]
  /\ UNCHANGED <<retryRead, retryWrite, retryResp, responseQueue, respondEvent,
                 clockEvent, m_awake, m_request_map, transactionQueue,
                 drainManager, completing>>

(* RequestComplete(), the two tests that may end in port.sendRetry(). *)
ClearRetryRead(m) ==
  /\ pc[m] = "retryRead"
  /\ retryRead' = [retryRead EXCEPT ![m] = FALSE]
  /\ pc' = [pc EXCEPT ![m] = "retryWrite"]
  /\ UNCHANGED <<retryWrite, retryResp, responseQueue, respondEvent,
                 clockEvent, m_awake, m_request_map, transactionQueue,
                 drainManager, completing>>

ClearRetryWrite(m) ==
  /\ pc[m] = "retryWrite"
  /\ retryWrite' = [retryWrite EXCEPT ![m] = FALSE]
  /\ pc' = [pc EXCEPT ![m] = "finish"]
  /\ UNCHANGED <<retryRead, retryResp, responseQueue, respondEvent,
                 clockEvent, m_awake, m_request_map, transactionQueue,
                 drainManager, completing>>

(* Mutant: the request that stays in NVMain for an answered write answers  *)
(* it again.                                                               *)
CompleteEndsTwice(m) ==
  /\ pc[m] = "finish"
  /\ QueueResponse(m, completing[m])
  /\ m_request_map' = [m_request_map EXCEPT ![m] = @ \ {completing[m]}]
  /\ completing' = [completing EXCEPT ![m] = NoPkt]
  /\ pc' = [pc EXCEPT ![m] = "none"]
  /\ UNCHANGED <<retryRead, retryWrite, retryResp, clockEvent, m_awake,
                 transactionQueue, drainManager>>

(* Mutant: the packet of the request is cleared before it is queued. *)
CompleteEndsNull(m) ==
  /\ pc[m] = "finish"
  /\ QueueResponse(m, NoPkt)
  /\ m_request_map' = [m_request_map EXCEPT ![m] = @ \ {completing[m]}]
  /\ completing' = [completing EXCEPT ![m] = NoPkt]
  /\ pc' = [pc EXCEPT ![m] = "none"]
  /\ UNCHANGED <<retryRead, retryWrite, retryResp, clockEvent, m_awake,
                 transactionQueue, drainManager>>

(* The rest of RequestComplete(): a read is answered; for a write, whose   *)
(* packet is gone, the drain is checked; then the request leaves the map.  *)
CompleteEnds(m) ==
  /\ pc[m] = "finish"
  /\ IF IsRead(completing[m])
     THEN /\ QueueResponse(m, completing[m])
          /\ UNCHANGED drainManager
     ELSE /\ drainManager' = [drainManager EXCEPT
                                ![m] = CheckDrainState(m, m_request_map[m])]
          /\ UNCHANGED <<responseQueue, respondEvent>>
  /\ m_request_map' = [m_request_map EXCEPT ![m] = @ \ {completing[m]}]
  /\ completing' = [completing EXCEPT ![m] = NoPkt]
  /\ pc' = [pc EXCEPT ![m] = "none"]
  /\ UNCHANGED <<retryRead, retryWrite, retryResp, clockEvent, m_awake,
                 transactionQueue>>

(* The tick ends and schedules the next one while there is need for it. *)
TickEnds(m) ==
  /\ pc[m] = "none"
  /\ clockEvent' = [clockEvent EXCEPT
                      ![m] = m_awake[m] \/ m_request_map[m] # {}]
  /\ UNCHANGED <<retryRead, retryWrite, retryResp, responseQueue, respondEvent,
                 m_awake, m_request_map, transactionQueue, drainManager,
                 completing, pc>>

(* Mutant: the object always reports that it is drained. *)
NeedsDrainNever(m) == FALSE

(* drain(): whether the object asks for more simulation. *)
NeedsDrain(m) == m_request_map[m] # {}

MemTypeOK ==
  /\ retryRead \in [Mems -> BOOLEAN]
  /\ retryWrite \in [Mems -> BOOLEAN]
  /\ retryResp \in [Mems -> BOOLEAN]
  /\ responseQueue \in [Mems -> Seq(Packets)]
  /\ respondEvent \in [Mems -> BOOLEAN]
  /\ clockEvent \in [Mems -> BOOLEAN]
  /\ m_awake \in [Mems -> BOOLEAN]
  /\ m_request_map \in [Mems -> SUBSET Packets]
  /\ transactionQueue \in [Mems -> SUBSET Packets]
  /\ drainManager \in [Mems -> BOOLEAN]
  /\ completing \in [Mems -> Packets \cup {NoPkt}]
  /\ pc \in [Mems -> {"none", "retryRead", "retryWrite", "finish"}]
=============================================================================
