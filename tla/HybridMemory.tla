---------------------------- MODULE HybridMemory ----------------------------
(***************************************************************************)
(* The memory side of the simulated machine: masters (caches), the         *)
(* coherent crossbar (one request layer per memory, one response layer per *)
(* master) and the memory objects of NVMainMemory behind it, PCM and DRAM. *)
(*                                                                         *)
(* gem5 runs one event at a time and a handler's calls are synchronous.    *)
(* Three variables say that a handler is still running: ticking (a memory  *)
(* is inside tick()), pc of NVMainMemory (RequestComplete() is running)    *)
(* and a layer in RETRY (a port is being told to retry).  An event may     *)
(* only start when none of them is set.                                    *)
(***************************************************************************)
EXTENDS NVMainMemory, Layer

CONSTANTS
  Srcs,       \* the masters, the source ports of the request layers
  PktSrc,     \* the master a packet belongs to
  PktMem      \* the memory its address maps to

Layers == Mems \cup Srcs    \* a layer is named by its destination

ASSUME PortAssumption ==
  /\ Mems \cap Srcs = {}
  /\ NoPort \notin Layers
  /\ PktSrc \in [Packets -> Srcs]
  /\ PktMem \in [Packets -> Mems]

VARIABLES
  layers,      \* the state of every layer
  where,       \* of a packet: idle, pending or blocked at its master, or sent
  blockedPkt,  \* the packet a master was refused
  ticking,     \* the memory inside tick()
  mode,        \* the memory mode of the system
  phase        \* run, draining or drained

sysVars == <<layers, where, blockedPkt, ticking, mode, phase>>
vars == <<memVars, sysVars>>

Init ==
  /\ InitMem
  /\ layers = [l \in Layers |-> NewLayer]
  /\ where = [p \in Packets |-> "idle"]
  /\ blockedPkt = [s \in Srcs |-> NoPkt]
  /\ ticking = NoPort
  /\ mode = "timing"
  /\ phase = "run"

(* No handler is running and the simulation is not stopped. *)
Quiet ==
  /\ ticking = NoPort
  /\ \A l \in Layers : layers[l].state # "RETRY"
  /\ phase # "drained"

(* CoherentXBar::recvTimingReq() once the request layer is free. *)
ForwardReq(p) ==
  LET m == PktMem[p]
      s == PktSrc[p]
  IN
  /\ RecvTimingReq(m, p)
  /\ IF Accepts(m, p)
     THEN /\ layers' = [layers EXCEPT ![m] = SucceededTiming(@)]
          /\ where' = [where EXCEPT
                         ![p] = IF NeedsResponse(p) THEN "sent" ELSE "idle"]
          /\ blockedPkt' = [blockedPkt EXCEPT ![s] = NoPkt]
     ELSE /\ layers' = [layers EXCEPT ![m] = FailedTiming(@, s)]
          /\ where' = [where EXCEPT ![p] = "blocked"]
          /\ blockedPkt' = [blockedPkt EXCEPT ![s] = p]
  /\ UNCHANGED <<ticking, mode, phase>>

(* A master sends a packet: a new one, or one it was told to retry.  No    *)
(* new packet is sent while the system drains, and a name is reused only   *)
(* when no request of it is left in the memory.                            *)
MasterSends(p) ==
  /\ Quiet
  /\ mode = "timing"
  /\ blockedPkt[PktSrc[p]] = NoPkt
  /\ \/ where[p] = "pending"
     \/ where[p] = "idle" /\ phase = "run" /\ p \notin m_request_map[PktMem[p]]
  /\ IF Taken(layers[PktMem[p]])
     THEN /\ layers' = [layers EXCEPT ![PktMem[p]] = PutInLine(@, PktSrc[p])]
          /\ where' = [where EXCEPT ![p] = "blocked"]
          /\ blockedPkt' = [blockedPkt EXCEPT ![PktSrc[p]] = p]
          /\ UNCHANGED <<memVars, ticking, mode, phase>>
     ELSE ForwardReq(p)

(* A master told to retry sends its packet from inside the call ... *)
MasterResends(m) ==
  /\ layers[m].state = "RETRY"
  /\ ForwardReq(blockedPkt[layers[m].retrying])

(* ... or keeps it to send it later. *)
MasterDefers(m) ==
  /\ layers[m].state = "RETRY"
  /\ LET s == layers[m].retrying IN
       /\ where' = [where EXCEPT ![blockedPkt[s]] = "pending"]
       /\ blockedPkt' = [blockedPkt EXCEPT ![s] = NoPkt]
  /\ layers' = [layers EXCEPT ![m] = BurnCycle(@)]
  /\ UNCHANGED <<memVars, ticking, mode, phase>>

(* The release event of a layer. *)
Release(l) ==
  /\ Quiet
  /\ layers[l].state = "BUSY"
  /\ layers' = [layers EXCEPT ![l] = ReleaseLayer(@)]
  /\ UNCHANGED <<memVars, where, blockedPkt, ticking, mode, phase>>

(* The first response of m goes through the free response layer of its     *)
(* master: CoherentXBar::recvTimingResp().                                 *)
DeliverResp(m, resp, event) ==
  LET p == Head(responseQueue[m]) IN
  /\ ResponseSent(m, resp, event)
  /\ layers' = [layers EXCEPT ![PktSrc[p]] = SucceededTiming(@)]
  /\ where' = [where EXCEPT ![p] = "idle"]
  /\ UNCHANGED <<blockedPkt, ticking, mode, phase>>

(* respondEvent fires: SendResponses(). *)
SendResponses(m) ==
  LET event == [respondEvent EXCEPT ![m] = FALSE] IN
  /\ Quiet
  /\ respondEvent[m]
  /\ IF responseQueue[m] = << >> \/ retryResp[m]
     THEN /\ respondEvent' = event
          /\ UNCHANGED <<retryRead, retryWrite, retryResp, responseQueue,
                         clockEvent, m_awake, m_request_map, transactionQueue,
                         drainManager, completing, pc, sysVars>>
     ELSE LET l == PktSrc[Head(responseQueue[m])] IN
          IF Taken(layers[l])
          THEN /\ respondEvent' = event
               /\ retryResp' = [retryResp EXCEPT ![m] = TRUE]
               /\ layers' = [layers EXCEPT ![l] = PutInLine(@, m)]
               /\ UNCHANGED <<retryRead, retryWrite, responseQueue, clockEvent,
                              m_awake, m_request_map, transactionQueue,
                              drainManager, completing, pc, where, blockedPkt,
                              ticking, mode, phase>>
          ELSE DeliverResp(m, retryResp, event)

(* A response layer tells a memory to retry: recvRetry(), which clears     *)
(* retryResp and calls SendResponses().                                    *)
MemRecvRetry(s) ==
  /\ layers[s].state = "RETRY"
  /\ LET m == layers[s].retrying IN
       DeliverResp(m, [retryResp EXCEPT ![m] = FALSE], respondEvent)

(* tick(): the clock event fires ... *)
TickBegins(m) ==
  /\ Quiet
  /\ TickStarts(m)
  /\ ticking' = m
  /\ UNCHANGED <<layers, where, blockedPkt, mode, phase>>

(* ... NVMain runs for a cycle ... *)
TickDispatches(m) ==
  /\ ticking = m
  /\ pc[m] = "none"
  /\ Dispatch(m)
  /\ UNCHANGED sysVars

TickCompletes(m) ==
  /\ ticking = m
  /\ CompleteStarts(m)
  /\ UNCHANGED sysVars

(* Mutant: the flag is cleared but the master is not told. *)
SendRetryNever(m, owed) == UNCHANGED layers

(* ... with port.sendRetry(), that is Layer::recvRetry(), where a retry is *)
(* owed; the next statement runs when that call is over ...                *)
SendRetry(m, owed) ==
  layers' = IF owed THEN [layers EXCEPT ![m] = RecvRetry(@)] ELSE layers

TickRetriesRead(m) ==
  /\ ticking = m
  /\ layers[m].state # "RETRY"
  /\ ClearRetryRead(m)
  /\ SendRetry(m, retryRead[m])
  /\ UNCHANGED <<where, blockedPkt, ticking, mode, phase>>

TickRetriesWrite(m) ==
  /\ ticking = m
  /\ layers[m].state # "RETRY"
  /\ ClearRetryWrite(m)
  /\ SendRetry(m, retryWrite[m])
  /\ UNCHANGED <<where, blockedPkt, ticking, mode, phase>>

TickFinishes(m) ==
  /\ ticking = m
  /\ layers[m].state # "RETRY"
  /\ CompleteEnds(m)
  /\ UNCHANGED sysVars

(* ... and schedules the next tick. *)
TickReturns(m) ==
  /\ ticking = m
  /\ TickEnds(m)
  /\ ticking' = NoPort
  /\ UNCHANGED <<layers, where, blockedPkt, mode, phase>>

(* The masters have nothing to wait for; they report it in their drain(). *)
MastersIdle == \A p \in Packets : where[p] = "idle"

(* m5.drain(): drain() of every object, again until every one of them      *)
(* returns 0; an object that returned 1 signals the drain manager first.   *)
Drain ==
  /\ Quiet
  /\ \A m \in Mems : ~drainManager[m]
  /\ \A l \in Layers : ~layers[l].drainManager
  /\ drainManager' = [m \in Mems |-> NeedsDrain(m)]
  /\ layers' = [l \in Layers |-> DrainLayer(layers[l])]
  /\ phase' = IF /\ MastersIdle
                 /\ \A m \in Mems : ~drainManager'[m]
                 /\ \A l \in Layers : ~layers'[l].drainManager
              THEN "drained" ELSE "draining"
  /\ UNCHANGED <<retryRead, retryWrite, retryResp, responseQueue, respondEvent,
                 clockEvent, m_awake, m_request_map, transactionQueue,
                 completing, pc, where, blockedPkt, ticking, mode>>

(* A drained system may change its memory mode and then resumes. *)
Resume ==
  /\ phase = "drained"
  /\ phase' = "run"
  /\ mode' \in {"timing", "atomic"}
  /\ UNCHANGED <<memVars, layers, where, blockedPkt, ticking>>

(* An access in atomic mode. *)
AtomicAccess(m) ==
  /\ Quiet
  /\ mode = "atomic"
  /\ phase = "run"
  /\ RecvAtomic(m)
  /\ UNCHANGED sysVars

Tick(m) ==
  \/ TickBegins(m)
  \/ TickDispatches(m)
  \/ TickCompletes(m)
  \/ TickRetriesRead(m)
  \/ TickRetriesWrite(m)
  \/ TickFinishes(m)
  \/ TickReturns(m)

Next ==
  \/ \E p \in Packets : MasterSends(p)
  \/ \E m \in Mems : MasterResends(m) \/ MasterDefers(m)
  \/ \E l \in Layers : Release(l)
  \/ \E m \in Mems : SendResponses(m)
  \/ \E s \in Srcs : MemRecvRetry(s)
  \/ \E m \in Mems : Tick(m)
  \/ Drain
  \/ Resume
  \/ \E m \in Mems : AtomicAccess(m)

Spec == Init /\ [][Next]_vars

(***************************************************************************)
(* Fairness.  A gem5 event that stays scheduled fires, although other      *)
(* handlers run in between: simulated time passes and the event queue is   *)
(* ordered by time.  (Each formula also says that the simulation goes on,  *)
(* with steps in which the event is not scheduled or fires.)  A handler    *)
(* that has started runs to its end (weak fairness).  Of the parties      *)
(* outside this module it is assumed that NVMain serves every request it   *)
(* holds, that a master sends what it kept for later and in the long run   *)
(* answers its retries from inside the call (what PacketQueue::retry()     *)
(* does), and that the simulator repeats m5.drain() when every object has  *)
(* signalled.                                                              *)
(***************************************************************************)
EventsFire ==
  /\ \A m \in Mems :
       /\ []<><<~clockEvent[m] \/ TickBegins(m)>>_vars
       /\ []<><<~respondEvent[m] \/ SendResponses(m)>>_vars
  /\ \A l \in Layers : []<><<layers[l].state # "BUSY" \/ Release(l)>>_vars
  /\ \A p \in Packets : []<><<where[p] # "pending" \/ MasterSends(p)>>_vars
  /\ []<><<\/ phase # "draining"
           \/ \E m \in Mems : drainManager[m]
           \/ \E l \in Layers : layers[l].drainManager
           \/ Drain>>_vars

HandlersRun ==
  /\ \A m \in Mems :
       /\ WF_vars(TickRetriesRead(m) \/ TickRetriesWrite(m) \/ TickFinishes(m)
                    \/ TickReturns(m))
       /\ WF_vars(MasterResends(m) \/ MasterDefers(m))
  /\ \A s \in Srcs : WF_vars(MemRecvRetry(s))

NVMainServes ==
  \A p \in Packets :
    LET m == PktMem[p] IN
    /\ []<><<\/ p \notin transactionQueue[m]
             \/ TickDispatches(m) /\ p \notin transactionQueue'[m]>>_vars
    /\ []<><<\/ p \notin m_request_map[m] \ transactionQueue[m]
             \/ TickCompletes(m) /\ completing'[m] = p>>_vars

MastersAnswer == <>[][\A m \in Mems : ~MasterDefers(m)]_vars

FairSpec ==
  Spec /\ EventsFire /\ HandlersRun /\ NVMainServes /\ MastersAnswer

-----------------------------------------------------------------------------
(* The variables hold values of their types; no handler stores a NULL      *)
(* packet in responseQueue.                                                *)
TypeOK ==
  /\ MemTypeOK
  /\ layers \in [Layers -> LayerType(Layers)]
  /\ where \in [Packets -> {"idle", "pending", "blocked", "sent"}]
  /\ blockedPkt \in [Srcs -> Packets \cup {NoPkt}]
  /\ ticking \in Mems \cup {NoPort}
  /\ mode \in {"timing", "atomic"}
  /\ phase \in {"run", "draining", "drained"}

(* A memory owes a retry exactly when its request layer waits for one: no  *)
(* sendRetry() hits the assertion in Layer::recvRetry() (xbar.cc:290) and  *)
(* no refused master is forgotten (nvmain_mem.cc:467, 634-654, 750-761).   *)
RetryMatchesLayer ==
  \A m \in Mems :
    (retryRead[m] \/ retryWrite[m]) <=> layers[m].waitingForPeer # NoPort

(* A memory that owes a retry has a request in NVMain whose completion     *)
(* will send it.                                                           *)
RetryHasCause ==
  \A m \in Mems : retryRead[m] \/ retryWrite[m] => m_request_map[m] # {}

(* Whatever is outstanding has a clock that will run it: NVMain is never   *)
(* left without ticks (tick(), wakeup(), recvAtomic()).                    *)
ClockRuns ==
  \A m \in Mems : m_request_map[m] # {} => clockEvent[m] \/ ticking = m

(* A queued response has an event that will send it: respondEvent, or the  *)
(* retry of the response layer its memory is registered in                 *)
(* (SendResponses(), ScheduleResponse(), recvRetry()).                     *)
ResponseHasSender ==
  \A m \in Mems :
    /\ responseQueue[m] # << >> => respondEvent[m] \/ retryResp[m]
    /\ retryResp[m] =>
         /\ responseQueue[m] # << >>
         /\ LET L == layers[PktSrc[Head(responseQueue[m])]] IN
              \/ L.state = "RETRY" /\ L.retrying = m
              \/ \E i \in 1..Len(L.waitingForLayer) : L.waitingForLayer[i] = m

(* The memories that hold a packet that waits for its response. *)
Holders(p) ==
  {<<m, "map">> : m \in {n \in Mems : IsRead(p) /\ p \in m_request_map[n]}} \cup
  UNION {{<<m, i>> : i \in {j \in 1..Len(responseQueue[m]) :
                              responseQueue[m][j] = p}} : m \in Mems}

(* A packet that needs a response is held in exactly one place until it    *)
(* gets it, and never after: no response is lost and none is sent twice    *)
(* (the early answer of writes, nvmain_mem.cc:602-622, included).          *)
OneResponse ==
  \A p \in Packets : Cardinality(Holders(p)) = IF where[p] = "sent" THEN 1 ELSE 0

(* A drained system is at rest: every response sent, no port waiting in a  *)
(* layer, although drain() looks at m_request_map alone and Layer::drain() *)
(* at the state alone.                                                     *)
DrainedAtRest ==
  phase = "drained" =>
    /\ \A m \in Mems : /\ m_request_map[m] = {}
                       /\ responseQueue[m] = << >>
                       /\ ~retryRead[m] /\ ~retryWrite[m] /\ ~retryResp[m]
    /\ \A l \in Layers : /\ layers[l].waitingForLayer = << >>
                         /\ layers[l].waitingForPeer = NoPort

(* Every packet a master wants to send is accepted in the end, whoever     *)
(* refuses it on the way, and gets its response if it needs one.           *)
EveryPacketAnswered == \A p \in Packets : where[p] # "idle" ~> where[p] = "idle"

(* m5.drain() comes to an end (drain.hh:128-130: "When an object has       *)
(* finished draining its internal state, it calls signalDrainDone()").     *)
DrainEnds == phase = "draining" ~> phase = "drained"

(* wakeup() schedules an event that is not scheduled (the assertion of     *)
(* EventQueue::schedule(), eventq_impl.hh:45).                             *)
WakesStoppedClock ==
  [][\A m \in Mems : ~m_awake[m] /\ m_awake'[m] => ~clockEvent[m]]_vars
-----------------------------------------------------------------------------
(* The ports refused by layer l and not yet told to retry. *)
BlockedAt(l) ==
  (IF l \in Mems
   THEN {s \in Srcs : blockedPkt[s] # NoPkt /\ PktMem[blockedPkt[s]] = l}
   ELSE {m \in Mems : retryResp[m] /\ PktSrc[Head(responseQueue[m])] = l})
    \ {layers[l].retrying}

Lyr(l) == INSTANCE XBarLayer WITH
  Ports    <- IF l \in Mems THEN Srcs ELSE Mems,
  layer    <- layers[l],
  blocked  <- BlockedAt(l),
  peerOwes <- l \in Mems /\ (retryRead[l] \/ retryWrite[l])

(* The memories and the masters keep the port protocol: seen from any of   *)
(* its layers the system is a behaviour of XBarLayer, so what is proved of *)
(* a layer there holds of every layer here (coherent_xbar.cc:144-344).     *)
LayersImplement ==
  /\ \A l \in Layers : Lyr(l)!Init
  /\ [][\A l \in Layers : [Lyr(l)!Next]_(Lyr(l)!vars)]_vars
=============================================================================
