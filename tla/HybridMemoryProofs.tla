------------------------- MODULE HybridMemoryProofs -------------------------
(***************************************************************************)
(* The invariants of HybridMemory hold for any masters, memories, packets  *)
(* and queue size, and every layer of its crossbar implements XBarLayer.   *)
(*                                                                         *)
(* None of the invariants is inductive alone.  Whether a memory owes a     *)
(* retry is only tied to its request layer while no two handlers run at    *)
(* once and the port being retried still holds its packet; whether a       *)
(* packet has one response depends on which memory works on it.  IInv puts *)
(* these facts together.                                                   *)
(***************************************************************************)
EXTENDS HybridMemory, LayerFacts, FiniteSetTheorems

Ports(l) == IF l \in Mems THEN Srcs ELSE Mems
Owes(l)  == l \in Mems /\ (retryRead[l] \/ retryWrite[l])

(* What a step looks like from layer l: a step of XBarLayer or none. *)
LayerStep(l) == [Lyr(l)!Next]_(Lyr(l)!vars)
LayersStep   == \A l \in Layers : LayerStep(l)

(* Every layer is as LayerFacts says. *)
LayersInv ==
  \A l \in Layers : LayerInv(layers[l], Ports(l), BlockedAt(l), Owes(l))

(* One handler runs at a time: a tick, and inside it RequestComplete() and *)
(* the retry it sends, or a single retry of some layer.                    *)
HandlerInv ==
  /\ \A m \in Mems :
       pc[m] # "none" =>
         /\ ticking = m
         /\ completing[m] \in m_request_map[m] \ transactionQueue[m]
  /\ \A l \in Layers : layers[l].state = "RETRY" => ticking \in {NoPort, l}
  /\ \A k, l \in Layers :
       layers[k].state = "RETRY" /\ layers[l].state = "RETRY" => k = l

(* A master is blocked on one packet of its own, and no request is made of *)
(* a packet before it is accepted.                                         *)
MasterInv ==
  /\ \A s \in Srcs :
       blockedPkt[s] # NoPkt =>
         PktSrc[blockedPkt[s]] = s /\ where[blockedPkt[s]] = "blocked"
  /\ \A p \in Packets :
       /\ where[p] = "blocked" => blockedPkt[PktSrc[p]] = p
       /\ where[p] \in {"pending", "blocked"} => p \notin m_request_map[PktMem[p]]

(* The port a layer is retrying still has what it was refused. *)
RetryInv ==
  /\ \A m \in Mems :
       layers[m].state = "RETRY" =>
         /\ blockedPkt[layers[m].retrying] # NoPkt
         /\ PktMem[blockedPkt[layers[m].retrying]] = m
  /\ \A s \in Srcs :
       layers[s].state = "RETRY" =>
         /\ retryResp[layers[s].retrying]
         /\ PktSrc[Head(responseQueue[layers[s].retrying])] = s

(* The requests of a memory, the retry it owes and its clock. *)
RequestOK(m) ==
  /\ transactionQueue[m] \subseteq m_request_map[m]
  /\ \A p \in m_request_map[m] : PktMem[p] = m /\ (IsRead(p) \/ IsWrite(p))
  /\ ~(retryRead[m] /\ retryWrite[m])
  /\ retryRead[m] \/ retryWrite[m] => m_request_map[m] # {}
  /\ pc[m] = "retryWrite" /\ retryRead[m] => transactionQueue[m] # {}
  /\ pc[m] = "finish" /\ (retryRead[m] \/ retryWrite[m]) =>
       transactionQueue[m] # {}
  /\ m_awake[m] \/ m_request_map[m] # {} => clockEvent[m] \/ ticking = m

RequestInv == \A m \in Mems : RequestOK(m)

(* The responses of a memory: every packet sent is in one place. *)
ResponseInv ==
  /\ \A m \in Mems :
       /\ responseQueue[m] # << >> => respondEvent[m] \/ retryResp[m]
       /\ retryResp[m] => responseQueue[m] # << >>
       /\ Distinct(responseQueue[m])
       /\ \A p \in Elems(responseQueue[m]) :
            /\ PktMem[p] = m
            /\ where[p] = "sent"
            /\ ~(IsRead(p) /\ p \in m_request_map[m])
       /\ \A p \in m_request_map[m] : IsRead(p) => where[p] = "sent"
  /\ \A p \in Packets :
       where[p] = "sent" =>
         \/ p \in Elems(responseQueue[PktMem[p]])
         \/ IsRead(p) /\ p \in m_request_map[PktMem[p]]

(* A drained system has nothing to do. *)
DrainedInv ==
  phase = "drained" =>
    /\ ticking = NoPort
    /\ \A l \in Layers : layers[l].state # "RETRY"
    /\ MastersIdle
    /\ \A m \in Mems : m_request_map[m] = {}

IInv ==
  /\ TypeOK
  /\ LayersInv
  /\ HandlerInv
  /\ MasterInv
  /\ RetryInv
  /\ RequestInv
  /\ ResponseInv
  /\ DrainedInv
-----------------------------------------------------------------------------
(* A non-empty sequence keeps its head when it grows at its end. *)
LEMMA HeadAppend ==
  ASSUME NEW S, NEW q \in Seq(S), q # << >>, NEW x \in S
  PROVE  Head(Append(q, x)) = Head(q)
<1>1. /\ Len(q) \in Nat /\ Len(q) > 0
      /\ Append(q, x) \in Seq(S)
      /\ Append(q, x) # << >>
      /\ Append(q, x)[1] = q[1]
  OBVIOUS
<1>. QED  BY <1>1

(* A layer between some ports is a layer between more. *)
LEMMA LayerTypeMonotone ==
  ASSUME NEW P, NEW Q, P \subseteq Q, NEW L \in LayerType(P)
  PROVE  L \in LayerType(Q)
<1>1. \A q \in Seq(P) : q \in Seq(Q)
  OBVIOUS
<1>. QED  BY <1>1 DEF LayerType

(* NULL is no port of a layer, and no packet is the NULL packet. *)
LEMMA PortFacts ==
  ASSUME NEW l \in Layers
  PROVE  /\ NoPort \notin Ports(l)
         /\ Ports(l) \subseteq Layers
         /\ l # NoPort
         /\ l \in Mems <=> l \notin Srcs
  BY PortAssumption DEF Ports, Layers

(* What a layer does in a step of HybridMemory is a step of XBarLayer: a   *)
(* port is put in line ...                                                 *)
LEMMA LayerPutsInLine ==
  ASSUME NEW l \in Layers, NEW s \in Ports(l) \ BlockedAt(l),
         layers[l].state # "RETRY", Taken(layers[l]),
         layers'[l] = PutInLine(layers[l], s),
         BlockedAt(l)' = BlockedAt(l) \cup {s}, Owes(l)' = Owes(l)
  PROVE  LayerStep(l)
<1>1. Lyr(l)!Send(s)
  BY DEF Lyr!Send, Lyr!Taken, Lyr!PutInLine, Taken, PutInLine, Owes
<1>. QED  BY <1>1 DEF LayerStep, Lyr!Next, Ports

(* ... or passes it, by itself or in answer to a retry, and the            *)
(* destination accepts the packet ...                                      *)
LEMMA LayerSucceeds ==
  ASSUME NEW l \in Layers, NEW s \in Ports(l) \ BlockedAt(l),
         layers[l].state = "RETRY" \/ ~Taken(layers[l]),
         layers'[l] = SucceededTiming(layers[l]),
         BlockedAt(l)' = BlockedAt(l), Owes(l)' = Owes(l)
  PROVE  LayerStep(l)
<1>1. \A x : Lyr(l)!Forward(x)
  BY DEF Lyr!Forward, Lyr!SucceededTiming, SucceededTiming, Owes
<1>2. CASE layers[l].state = "RETRY"
  BY <1>1, <1>2 DEF LayerStep, Lyr!Next, Lyr!Resend
<1>3. CASE layers[l].state # "RETRY"
  <2>1. Lyr(l)!Send(s)
    BY <1>1, <1>3 DEF Lyr!Send, Lyr!Taken, Taken
  <2>. QED  BY <2>1 DEF LayerStep, Lyr!Next, Ports
<1>. QED  BY <1>2, <1>3

(* ... or refuses it ... *)
LEMMA LayerFails ==
  ASSUME NEW l \in Layers, NEW s \in Ports(l) \ BlockedAt(l),
         layers[l].state # "RETRY" => ~Taken(layers[l]),
         layers[l].state = "RETRY" => layers[l].retrying = s,
         layers'[l] = FailedTiming(layers[l], s),
         BlockedAt(l)' = BlockedAt(l) \cup {s}, Owes(l)' = TRUE
  PROVE  LayerStep(l)
<1>1. Lyr(l)!Forward(s)
  BY DEF Lyr!Forward, Lyr!FailedTiming, FailedTiming, Owes
<1>2. CASE layers[l].state = "RETRY"
  BY <1>1, <1>2 DEF LayerStep, Lyr!Next, Lyr!Resend
<1>3. CASE layers[l].state # "RETRY"
  <2>1. Lyr(l)!Send(s)
    BY <1>1, <1>3 DEF Lyr!Send, Lyr!Taken, Taken
  <2>. QED  BY <2>1 DEF LayerStep, Lyr!Next, Ports
<1>. QED  BY <1>2, <1>3

(* ... a port told to retry does not answer at once ... *)
LEMMA LayerBurnsCycle ==
  ASSUME NEW l \in Layers, layers[l].state = "RETRY",
         layers'[l] = BurnCycle(layers[l]),
         BlockedAt(l)' = BlockedAt(l), Owes(l)' = Owes(l)
  PROVE  LayerStep(l)
<1>1. Lyr(l)!NoResend
  BY DEF Lyr!NoResend, Lyr!BurnCycle, BurnCycle, Owes
<1>. QED  BY <1>1 DEF LayerStep, Lyr!Next

(* ... the release event fires ... *)
LEMMA LayerReleases ==
  ASSUME NEW l \in Layers, layers[l].state = "BUSY",
         layers'[l] = ReleaseLayer(layers[l]),
         BlockedAt(l)' = BlockedAt(l) \ {layers'[l].retrying},
         Owes(l)' = Owes(l)
  PROVE  LayerStep(l)
<1>1. Lyr(l)!Release
  BY DEF Lyr!Release, Lyr!ReleaseLayer, ReleaseLayer, Lyr!RetryWaiting,
         RetryWaiting, Owes
<1>. QED  BY <1>1 DEF LayerStep, Lyr!Next

(* ... the destination sends the retry it owes ... *)
LEMMA LayerRetried ==
  ASSUME NEW l \in Layers, layers[l].state # "RETRY", Owes(l),
         layers'[l] = RecvRetry(layers[l]),
         BlockedAt(l)' = BlockedAt(l) \ {layers'[l].retrying},
         Owes(l)' = FALSE
  PROVE  LayerStep(l)
<1>1. Lyr(l)!PeerRetry
  BY DEF Lyr!PeerRetry, Lyr!RecvRetry, RecvRetry, Lyr!RetryWaiting,
         RetryWaiting, Owes
<1>. QED  BY <1>1 DEF LayerStep, Lyr!Next

(* ... drain() is called ... *)
LEMMA LayerDrains ==
  ASSUME NEW l \in Layers, layers[l].state # "RETRY",
         layers'[l] = DrainLayer(layers[l]),
         BlockedAt(l)' = BlockedAt(l), Owes(l)' = Owes(l)
  PROVE  LayerStep(l)
<1>1. Lyr(l)!Drain
  BY DEF Lyr!Drain, Lyr!DrainLayer, DrainLayer, Owes
<1>. QED  BY <1>1 DEF LayerStep, Lyr!Next

(* ... or nothing happens. *)
LEMMA LayerStays ==
  ASSUME NEW l \in Layers, layers'[l] = layers[l],
         BlockedAt(l)' = BlockedAt(l), Owes(l)' = Owes(l)
  PROVE  LayerStep(l)
  BY DEF LayerStep, Lyr!vars, Owes

(* A step that changes one layer preserves LayersInv when the others see   *)
(* the same blocked ports and the same owed retry.                         *)
LEMMA OneLayerStep ==
  ASSUME TypeOK, LayersInv, NEW k \in Layers, NEW K,
         layers' = [layers EXCEPT ![k] = K],
         LayerInv(K, Ports(k), BlockedAt(k)', Owes(k)'),
         LayerStep(k),
         \A l \in Layers \ {k} : /\ BlockedAt(l)' = BlockedAt(l)
                                 /\ Owes(l)' = Owes(l)
  PROVE  /\ LayersInv'
         /\ layers' \in [Layers -> LayerType(Layers)]
         /\ layers'[k] = K
         /\ \A l \in Layers \ {k} : layers'[l] = layers[l]
         /\ LayersStep
<1>1. /\ layers'[k] = K
      /\ \A l \in Layers \ {k} : layers'[l] = layers[l]
      /\ layers \in [Layers -> LayerType(Layers)]
  BY DEF TypeOK
<1>2. LayersInv'
  <2>1. SUFFICES ASSUME NEW l \in Layers
                 PROVE  LayerInv(layers'[l], Ports(l), BlockedAt(l)', Owes(l)')
    BY DEF LayersInv
  <2>2. CASE l = k
    BY <1>1, <2>2
  <2>3. CASE l # k
    <3>1. LayerInv(layers[l], Ports(l), BlockedAt(l), Owes(l))
      BY DEF LayersInv
    <3>. QED  BY <1>1, <2>3, <3>1
  <2>. QED  BY <2>2, <2>3
<1>3. K \in LayerType(Layers)
  BY LayerTypeMonotone, PortFacts DEF LayerInv
<1>4. \A l \in Layers \ {k} : LayerStep(l)
  BY <1>1, LayerStays
<1>. QED  BY <1>1, <1>2, <1>3, <1>4 DEF LayersStep

(* A step that changes no layer. *)
LEMMA NoLayerStep ==
  ASSUME LayersInv, layers' = layers,
         \A l \in Layers : /\ BlockedAt(l)' = BlockedAt(l)
                           /\ Owes(l)' = Owes(l)
  PROVE  /\ LayersInv'
         /\ LayersStep
<1>1. ASSUME NEW l \in Layers
      PROVE  /\ LayerInv(layers'[l], Ports(l), BlockedAt(l)', Owes(l)')
             /\ LayerStep(l)
  <2>1. LayerInv(layers[l], Ports(l), BlockedAt(l), Owes(l))
    BY DEF LayersInv
  <2>. QED  BY <2>1, LayerStays
<1>. QED  BY <1>1 DEF LayersInv, LayersStep

(* What IInv says of a layer and its fields. *)
LEMMA LayerOf ==
  ASSUME IInv, NEW l \in Layers
  PROVE  /\ LayerInv(layers[l], Ports(l), BlockedAt(l), Owes(l))
         /\ layers[l] \in LayerType(Ports(l))
         /\ layers[l].state \in {"IDLE", "BUSY", "RETRY"}
         /\ layers[l].state = "RETRY" =>
              /\ layers[l].retrying \in Ports(l) \ BlockedAt(l)
              /\ layers[l].waitingForPeer = NoPort
         /\ layers[l].state # "RETRY" => layers[l].retrying = NoPort
         /\ Owes(l) <=> layers[l].waitingForPeer # NoPort
<1>1. LayerInv(layers[l], Ports(l), BlockedAt(l), Owes(l))
  BY DEF IInv, LayersInv
<1>2. layers[l] \in LayerType(Ports(l))
  BY <1>1 DEF LayerInv
<1>. QED  BY <1>1, <1>2, LayerFields DEF LayerInv

(* recvTimingReq() while no retry is owed, the packet being accepted ... *)
LEMMA RecvAccepted ==
  ASSUME TypeOK, NEW p \in Packets, NEW m \in Mems,
         ~retryRead[m], ~retryWrite[m], RecvTimingReq(m, p), Accepts(m, p)
  PROVE  /\ UNCHANGED <<retryRead, retryWrite, retryResp, drainManager,
                        completing, pc>>
         /\ IF IsRead(p) \/ IsWrite(p)
            THEN /\ transactionQueue' = [transactionQueue EXCEPT ![m] = @ \cup {p}]
                 /\ m_request_map' = [m_request_map EXCEPT ![m] = @ \cup {p}]
                 /\ m_awake' = [m_awake EXCEPT ![m] = TRUE]
                 /\ clockEvent' = [clockEvent EXCEPT ![m] = @ \/ ~m_awake[m]]
            ELSE UNCHANGED <<transactionQueue, m_request_map, m_awake, clockEvent>>
         /\ IF NeedsResponse(p) /\ ~IsRead(p)
            THEN QueueResponse(m, p)
            ELSE UNCHANGED <<responseQueue, respondEvent>>
<1>1. PktCmd[p] \in Cmds
  BY MemAssumption
<1>2. CASE PktCmd[p] = "Inhibited"
  BY <1>2 DEF RecvTimingReq, IsRead, IsWrite, NeedsResponse, memVars
<1>3. CASE PktCmd[p] = "UpgradeReq"
  BY <1>3 DEF RecvTimingReq, IsRead, IsWrite, NeedsResponse
<1>4. CASE PktCmd[p] \in {"ReadReq", "WriteReq", "Writeback"}
  <2>1. RecvReadWrite(m, p) /\ IsIssuable(m)
    BY <1>4 DEF RecvTimingReq, Accepts, IsRead, IsWrite
  <2>. QED
    BY <1>4, <2>1 DEF RecvReadWrite, IsRead, IsWrite, NeedsResponse
<1>. QED  BY <1>1, <1>2, <1>3, <1>4 DEF Cmds

(* ... seen memory by memory ... *)
LEMMA RecvAcceptedAt ==
  ASSUME TypeOK, NEW p \in Packets, NEW m \in Mems,
         ~retryRead[m], ~retryWrite[m], RecvTimingReq(m, p), Accepts(m, p)
  PROVE  /\ MemTypeOK'
         /\ UNCHANGED <<retryRead, retryWrite, retryResp, completing, pc>>
         /\ \A n \in Mems :
              LET new == IF n = m /\ (IsRead(p) \/ IsWrite(p)) THEN {p} ELSE {} IN
              /\ transactionQueue'[n] = transactionQueue[n] \cup new
              /\ m_request_map'[n] = m_request_map[n] \cup new
              /\ new = {} => m_awake'[n] = m_awake[n]
              /\ new # {} => clockEvent'[n] \/ m_awake[n]
              /\ clockEvent[n] => clockEvent'[n]
         /\ \A n \in Mems :
              IF n = m /\ NeedsResponse(p) /\ ~IsRead(p)
              THEN /\ responseQueue'[n] = Append(responseQueue[n], p)
                   /\ respondEvent'[n]
              ELSE /\ responseQueue'[n] = responseQueue[n]
                   /\ respondEvent'[n] = respondEvent[n]
<1>. DEFINE R == NeedsResponse(p) /\ ~IsRead(p)
            D == IsRead(p) \/ IsWrite(p)
<1>1. /\ UNCHANGED <<retryRead, retryWrite, retryResp, drainManager,
                     completing, pc>>
      /\ IF D
         THEN /\ transactionQueue' = [transactionQueue EXCEPT ![m] = @ \cup {p}]
              /\ m_request_map' = [m_request_map EXCEPT ![m] = @ \cup {p}]
              /\ m_awake' = [m_awake EXCEPT ![m] = TRUE]
              /\ clockEvent' = [clockEvent EXCEPT ![m] = @ \/ ~m_awake[m]]
         ELSE UNCHANGED <<transactionQueue, m_request_map, m_awake, clockEvent>>
      /\ IF R THEN QueueResponse(m, p) ELSE UNCHANGED <<responseQueue, respondEvent>>
  BY RecvAccepted
<1>2. MemTypeOK
  BY DEF TypeOK
<1>. HIDE DEF R, D
<1>3. /\ transactionQueue' \in [Mems -> SUBSET Packets]
      /\ m_request_map' \in [Mems -> SUBSET Packets]
      /\ m_awake' \in [Mems -> BOOLEAN]
      /\ clockEvent' \in [Mems -> BOOLEAN]
      /\ \A n \in Mems :
           LET new == IF n = m /\ D THEN {p} ELSE {} IN
           /\ transactionQueue'[n] = transactionQueue[n] \cup new
           /\ m_request_map'[n] = m_request_map[n] \cup new
           /\ new = {} => m_awake'[n] = m_awake[n]
           /\ new # {} => clockEvent'[n] \/ m_awake[n]
           /\ clockEvent[n] => clockEvent'[n]
  <2>1. CASE D
    <3>1. /\ transactionQueue' \in [Mems -> SUBSET Packets]
          /\ m_request_map' \in [Mems -> SUBSET Packets]
          /\ \A n \in Mems :
               /\ transactionQueue'[n] = transactionQueue[n] \cup
                                           (IF n = m THEN {p} ELSE {})
               /\ m_request_map'[n] = m_request_map[n] \cup
                                        (IF n = m THEN {p} ELSE {})
      <4>1. /\ transactionQueue' = [transactionQueue EXCEPT ![m] = @ \cup {p}]
            /\ m_request_map' = [m_request_map EXCEPT ![m] = @ \cup {p}]
            /\ transactionQueue \in [Mems -> SUBSET Packets]
            /\ m_request_map \in [Mems -> SUBSET Packets]
        BY <1>1, <1>2, <2>1 DEF MemTypeOK
      <4>. QED  BY <4>1
    <3>2. /\ m_awake' \in [Mems -> BOOLEAN]
          /\ \A n \in Mems : n # m => m_awake'[n] = m_awake[n]
      BY <1>1, <1>2, <2>1, ZenonT(60) DEF MemTypeOK
    <3>3. /\ clockEvent' \in [Mems -> BOOLEAN]
          /\ clockEvent'[m] = (clockEvent[m] \/ ~m_awake[m])
          /\ \A n \in Mems : n # m => clockEvent'[n] = clockEvent[n]
      <4>. DEFINE c == clockEvent[m] \/ ~m_awake[m]
      <4>1. clockEvent' = [clockEvent EXCEPT ![m] = c] /\ c \in BOOLEAN
        BY <1>1, <2>1
      <4>. HIDE DEF c
      <4>2. /\ clockEvent' \in [Mems -> BOOLEAN]
            /\ clockEvent'[m] = c
            /\ \A n \in Mems : n # m => clockEvent'[n] = clockEvent[n]
        BY <1>2, <4>1 DEF MemTypeOK
      <4>. QED  BY <4>2 DEF c
    <3>. QED  BY <2>1, <3>1, <3>2, <3>3
  <2>2. CASE ~D
    BY <1>1, <1>2, <2>2 DEF MemTypeOK
  <2>. QED  BY <2>1, <2>2
<1>4. /\ responseQueue' \in [Mems -> Seq(Packets)]
      /\ respondEvent' \in [Mems -> BOOLEAN]
      /\ \A n \in Mems :
           IF n = m /\ R
           THEN /\ responseQueue'[n] = Append(responseQueue[n], p)
                /\ respondEvent'[n]
           ELSE /\ responseQueue'[n] = responseQueue[n]
                /\ respondEvent'[n] = respondEvent[n]
  <2>1. CASE R
    <3>1. Append(responseQueue[m], p) \in Seq(Packets)
      BY <1>2 DEF MemTypeOK
    <3>2. /\ responseQueue' = [responseQueue EXCEPT ![m] = Append(responseQueue[m], p)]
          /\ respondEvent' = [respondEvent EXCEPT ![m] = TRUE]
      BY <1>1, <2>1 DEF QueueResponse
    <3>. QED  BY <1>2, <2>1, <3>1, <3>2 DEF MemTypeOK
  <2>2. CASE ~R
    BY <1>1, <1>2, <2>2 DEF MemTypeOK
  <2>. QED  BY <2>1, <2>2
<1>5. MemTypeOK'
  BY <1>1, <1>2, <1>3, <1>4 DEF MemTypeOK
<1>. QED  BY <1>1, <1>3, <1>4, <1>5 DEF R, D

(* ... or refused because NVMain's queue is full. *)
LEMMA RecvRefused ==
  ASSUME TypeOK, NEW p \in Packets, NEW m \in Mems,
         ~retryRead[m], ~retryWrite[m], RecvTimingReq(m, p), ~Accepts(m, p)
  PROVE  /\ IsRead(p) \/ IsWrite(p)
         /\ transactionQueue[m] # {}
         /\ UNCHANGED <<retryResp, responseQueue, respondEvent, m_request_map,
                        transactionQueue, drainManager, completing, pc>>
         /\ retryRead' = [retryRead EXCEPT ![m] = IsRead(p)]
         /\ retryWrite' = [retryWrite EXCEPT ![m] = ~IsRead(p)]
         /\ m_awake' = [m_awake EXCEPT ![m] = TRUE]
         /\ clockEvent' = [clockEvent EXCEPT ![m] = @ \/ ~m_awake[m]]
<1>1. (IsRead(p) \/ IsWrite(p)) /\ ~IsIssuable(m)
  BY DEF Accepts
<1>2. RecvReadWrite(m, p)
  BY <1>1 DEF RecvTimingReq, IsRead, IsWrite
<1>3. transactionQueue[m] # {}
  <2>1. SUFFICES ASSUME transactionQueue[m] = {}
                 PROVE  FALSE
    OBVIOUS
  <2>2. Cardinality(transactionQueue[m]) = 0
    BY <2>1, FS_EmptySet
  <2>. QED  BY <1>1, <2>2, MemAssumption DEF IsIssuable
<1>. QED
  BY <1>1, <1>2, <1>3 DEF RecvReadWrite, TypeOK, MemTypeOK, IsRead

(* A packet that the crossbar forwards to its memory. *)
CanForward(p) ==
  LET m == PktMem[p]
      s == PktSrc[p]
  IN
  /\ ~Taken(layers[m])
  /\ \A l \in Layers \ {m} : layers[l].state # "RETRY"
  /\ ticking \in {NoPort, m}
  /\ phase # "drained"
  /\ where[p] # "sent"
  /\ p \notin m_request_map[m]
  /\ s \notin BlockedAt(m)
  /\ \/ blockedPkt[s] = NoPkt /\ layers[m].retrying = NoPort
     \/ blockedPkt[s] = p /\ layers[m].retrying = s

(* The memory takes the packet. *)
LEMMA ForwardAccepted ==
  ASSUME IInv, NEW p \in Packets, CanForward(p), ForwardReq(p),
         Accepts(PktMem[p], p)
  PROVE  IInv' /\ LayersStep
<1>. DEFINE m == PktMem[p]
            s == PktSrc[p]
            R == NeedsResponse(p) /\ ~IsRead(p)
<1>. USE PortAssumption, MemAssumption
<1>1. /\ m \in Mems /\ m \in Layers /\ m \notin Srcs
      /\ s \in Srcs /\ s \in Layers /\ s \notin Mems
      /\ NoPort \notin Srcs /\ NoPort \notin Mems
  BY DEF Layers
<1>2. /\ TypeOK /\ MemTypeOK
      /\ ~retryRead[m] /\ ~retryWrite[m]
      /\ layers[m].waitingForPeer = NoPort
  BY <1>1, LayerOf DEF IInv, TypeOK, CanForward, Taken, Owes
<1>3. /\ layers' = [layers EXCEPT ![m] = SucceededTiming(layers[m])]
      /\ where' = [where EXCEPT ![p] = IF NeedsResponse(p) THEN "sent" ELSE "idle"]
      /\ blockedPkt' = [blockedPkt EXCEPT ![s] = NoPkt]
      /\ UNCHANGED <<ticking, mode, phase>>
      /\ RecvTimingReq(m, p)
  BY DEF ForwardReq
<1>4. /\ MemTypeOK'
      /\ UNCHANGED <<retryRead, retryWrite, retryResp, completing, pc>>
      /\ \A n \in Mems :
           LET new == IF n = m /\ (IsRead(p) \/ IsWrite(p)) THEN {p} ELSE {} IN
           /\ transactionQueue'[n] = transactionQueue[n] \cup new
           /\ m_request_map'[n] = m_request_map[n] \cup new
           /\ new = {} => m_awake'[n] = m_awake[n]
           /\ new # {} => clockEvent'[n] \/ m_awake[n]
           /\ clockEvent[n] => clockEvent'[n]
  BY <1>1, <1>2, <1>3, RecvAcceptedAt
<1>5. \A n \in Mems :
        IF n = m /\ R
        THEN /\ responseQueue'[n] = Append(responseQueue[n], p)
             /\ respondEvent'[n]
        ELSE /\ responseQueue'[n] = responseQueue[n]
             /\ respondEvent'[n] = respondEvent[n]
  BY <1>1, <1>2, <1>3, RecvAcceptedAt
<1>6. ASSUME NEW n \in Mems
      PROVE  /\ responseQueue[n] \in Seq(Packets)
             /\ p \notin Elems(responseQueue[n])
             /\ Elems(responseQueue'[n]) =
                  Elems(responseQueue[n]) \cup (IF n = m /\ R THEN {p} ELSE {})
             /\ Distinct(responseQueue'[n])
             /\ responseQueue[n] # << >> =>
                  /\ responseQueue'[n] # << >>
                  /\ Head(responseQueue'[n]) = Head(responseQueue[n])
  <2>1. /\ responseQueue[n] \in Seq(Packets)
        /\ Distinct(responseQueue[n])
        /\ p \notin Elems(responseQueue[n])
    BY <1>2 DEF MemTypeOK, IInv, ResponseInv, CanForward
  <2>2. CASE n = m /\ R
    <3>1. /\ Append(responseQueue[n], p) # << >>
          /\ Elems(Append(responseQueue[n], p)) = Elems(responseQueue[n]) \cup {p}
          /\ Distinct(Append(responseQueue[n], p))
      BY <2>1, AppendFacts
    <3>2. responseQueue[n] # << >> =>
            Head(Append(responseQueue[n], p)) = Head(responseQueue[n])
      BY <2>1, HeadAppend
    <3>. QED  BY <1>5, <2>1, <2>2, <3>1, <3>2
  <2>3. CASE ~(n = m /\ R)
    BY <1>5, <2>1, <2>3
  <2>. QED  BY <2>1, <2>2, <2>3
<1>. HIDE DEF R
<1>7. \A n \in Mems :
        retryResp[n] => /\ responseQueue[n] # << >>
                        /\ Head(responseQueue'[n]) = Head(responseQueue[n])
  BY <1>6 DEF IInv, ResponseInv
<1>8. BlockedAt(m)' = BlockedAt(m)
  <2>1. layers'[m].retrying = NoPort
    BY <1>1, <1>2, <1>3, LayerOf DEF TypeOK, SucceededTiming, LayerType
  <2>2. ASSUME NEW x \in Srcs
        PROVE  x \in BlockedAt(m)' <=> x \in BlockedAt(m)
    <3>1. x \in BlockedAt(m)' <=> blockedPkt'[x] # NoPkt /\ PktMem[blockedPkt'[x]] = m
      BY <1>1, <2>1 DEF BlockedAt
    <3>2. x \in BlockedAt(m) <=> /\ blockedPkt[x] # NoPkt
                                /\ PktMem[blockedPkt[x]] = m
                                /\ x # layers[m].retrying
      BY <1>1 DEF BlockedAt
    <3>3. CASE x = s
      BY <1>1, <1>2, <1>3, <3>1, <3>2, <3>3 DEF CanForward, TypeOK
    <3>4. CASE x # s
      BY <1>1, <1>2, <1>3, <3>1, <3>2, <3>4 DEF CanForward, TypeOK
    <3>. QED  BY <3>3, <3>4
  <2>3. BlockedAt(m)' \subseteq Srcs /\ BlockedAt(m) \subseteq Srcs
    BY <1>1 DEF BlockedAt
  <2>. QED  BY <2>2, <2>3
<1>9. \A l \in Layers \ {m} : /\ BlockedAt(l)' = BlockedAt(l)
                              /\ Owes(l)' = Owes(l)
  <2>1. SUFFICES ASSUME NEW l \in Layers \ {m}
                 PROVE  BlockedAt(l)' = BlockedAt(l)
    BY <1>4 DEF Owes
  <2>2. layers'[l] = layers[l]
    BY <1>1, <1>2, <1>3 DEF TypeOK
  <2>3. CASE l \in Mems
    BY <1>1, <1>2, <1>3, <2>2, <2>3 DEF BlockedAt, CanForward, TypeOK
  <2>4. CASE l \notin Mems
    BY <1>4, <1>7, <2>2, <2>4 DEF BlockedAt
  <2>. QED  BY <2>3, <2>4
<1>10. LayerInv(SucceededTiming(layers[m]), Ports(m), BlockedAt(m)', Owes(m)')
  BY <1>1, <1>4, <1>8, LayerOf, SucceededTimingInv DEF Owes
<1>11. /\ LayersInv' /\ LayersStep
       /\ layers' \in [Layers -> LayerType(Layers)]
       /\ layers'[m] = SucceededTiming(layers[m])
       /\ \A l \in Layers \ {m} : layers'[l] = layers[l]
  <2>1. LayerStep(m)
    <3>1. s \in Ports(m) \ BlockedAt(m) /\ ~Taken(layers[m])
      BY <1>1 DEF Ports, CanForward
    <3>2. layers'[m] = SucceededTiming(layers[m])
      BY <1>1, <1>2, <1>3 DEF TypeOK
    <3>. QED  BY <1>1, <1>4, <1>8, <3>1, <3>2, LayerSucceeds DEF Owes
  <2>. QED
    BY <1>1, <1>2, <1>3, <1>9, <1>10, <2>1, OneLayerStep DEF IInv
<1>12. layers'[m].state = "BUSY" /\ layers'[m].retrying = NoPort
  BY <1>1, <1>11, LayerOf DEF SucceededTiming, LayerType
<1>13. TypeOK'
  BY <1>1, <1>2, <1>3, <1>4, <1>11 DEF TypeOK
<1>14. HandlerInv'
  <2>1. ASSUME NEW n \in Mems, pc'[n] # "none"
        PROVE  /\ ticking' = n
               /\ completing'[n] \in m_request_map'[n] \ transactionQueue'[n]
    <3>1. /\ ticking = n
          /\ completing[n] \in m_request_map[n] \ transactionQueue[n]
      BY <1>4, <2>1 DEF IInv, HandlerInv
    <3>2. n = m => completing[n] # p
      BY <3>1 DEF CanForward
    <3>. QED  BY <1>3, <1>4, <3>1, <3>2
  <2>. QED
    BY <1>1, <1>3, <1>11, <1>12, <2>1 DEF IInv, HandlerInv, CanForward
<1>15. MasterInv'
  <2>1. ASSUME NEW q \in Packets, where'[q] \in {"pending", "blocked"}
        PROVE  q \notin m_request_map'[PktMem[q]]
    <3>1. q # p /\ where'[q] = where[q]
      BY <1>2, <1>3, <2>1 DEF TypeOK
    <3>2. m_request_map'[PktMem[q]] \subseteq m_request_map[PktMem[q]] \cup {p}
      BY <1>4, ZenonT(40)
    <3>. QED  BY <2>1, <3>1, <3>2 DEF IInv, MasterInv
  <2>. QED
    BY <1>1, <1>2, <1>3, <2>1 DEF IInv, MasterInv, CanForward, TypeOK
<1>16. RetryInv'
  BY <1>1, <1>3, <1>11, <1>12 DEF RetryInv, CanForward, Layers
<1>17. RequestInv'
  <2>1. SUFFICES ASSUME NEW n \in Mems
                 PROVE  RequestOK(n)'
    BY DEF RequestInv
  <2>2. RequestOK(n)
    BY DEF IInv, RequestInv
  <2>3. CASE n = m /\ (IsRead(p) \/ IsWrite(p))
    BY <1>2, <1>3, <1>4, <2>2, <2>3 DEF RequestOK
  <2>4. CASE ~(n = m /\ (IsRead(p) \/ IsWrite(p)))
    BY <1>3, <1>4, <2>2, <2>4 DEF RequestOK
  <2>. QED  BY <2>3, <2>4
<1>18. ResponseInv'
  <2>1. ASSUME NEW n \in Mems
        PROVE  /\ responseQueue'[n] # << >> => respondEvent'[n] \/ retryResp'[n]
               /\ retryResp'[n] => responseQueue'[n] # << >>
    BY <1>4, <1>5, <1>6 DEF IInv, ResponseInv
  <2>2. ASSUME NEW n \in Mems, NEW q \in Elems(responseQueue'[n])
        PROVE  /\ PktMem[q] = n
               /\ where'[q] = "sent"
               /\ ~(IsRead(q) /\ q \in m_request_map'[n])
    <3>1. CASE q = p
      <4>1. n = m /\ R
        BY <1>6, <2>2, <3>1
      <4>. QED  BY <1>2, <1>3, <3>1, <4>1 DEF TypeOK, R
    <3>2. CASE q # p
      <4>1. q \in Elems(responseQueue[n])
        BY <1>6, <2>2, <3>2
      <4>2. q \in m_request_map'[n] => q \in m_request_map[n]
        BY <1>4, <3>2
      <4>3. q \in Packets
        BY <1>6, <4>1 DEF Elems
      <4>. QED
        BY <1>2, <1>3, <3>2, <4>1, <4>2, <4>3 DEF IInv, ResponseInv, TypeOK
    <3>. QED  BY <3>1, <3>2
  <2>3. ASSUME NEW n \in Mems, NEW q \in m_request_map'[n], IsRead(q)
        PROVE  where'[q] = "sent"
    <3>1. CASE q = p
      BY <1>2, <1>3, <2>3, <3>1 DEF TypeOK, IsRead, NeedsResponse
    <3>2. CASE q # p
      <4>1. q \in m_request_map[n] /\ q \in Packets
        BY <1>2, <1>4, <2>3, <3>2 DEF MemTypeOK
      <4>. QED
        BY <1>2, <1>3, <2>3, <3>2, <4>1 DEF IInv, ResponseInv, TypeOK
    <3>. QED  BY <3>1, <3>2
  <2>4. ASSUME NEW q \in Packets, where'[q] = "sent"
        PROVE  \/ q \in Elems(responseQueue'[PktMem[q]])
               \/ IsRead(q) /\ q \in m_request_map'[PktMem[q]]
    <3>1. CASE q = p
      <4>1. NeedsResponse(p)
        BY <1>2, <1>3, <2>4, <3>1 DEF TypeOK
      <4>2. CASE IsRead(p)
        BY <1>1, <1>4, <3>1, <4>2
      <4>3. CASE ~IsRead(p)
        BY <1>1, <1>6, <3>1, <4>1, <4>3 DEF R
      <4>. QED  BY <4>2, <4>3
    <3>2. CASE q # p
      <4>1. where[q] = "sent" /\ PktMem[q] \in Mems
        BY <1>2, <1>3, <2>4, <3>2 DEF TypeOK
      <4>2. \/ q \in Elems(responseQueue[PktMem[q]])
            \/ IsRead(q) /\ q \in m_request_map[PktMem[q]]
        BY <4>1 DEF IInv, ResponseInv
      <4>3. /\ m_request_map[PktMem[q]] \subseteq m_request_map'[PktMem[q]]
            /\ Elems(responseQueue[PktMem[q]]) \subseteq
                 Elems(responseQueue'[PktMem[q]])
        BY <1>4, <1>6, <4>1, ZenonT(60)
      <4>. QED  BY <4>2, <4>3
    <3>. QED  BY <3>1, <3>2
  <2>. QED  BY <1>6, <2>1, <2>2, <2>3, <2>4 DEF ResponseInv
<1>19. DrainedInv'
  BY <1>3 DEF DrainedInv, CanForward
<1>. QED
  BY <1>11, <1>13, <1>14, <1>15, <1>16, <1>17, <1>18, <1>19 DEF IInv

(* The memory refuses the packet. *)
LEMMA ForwardRefused ==
  ASSUME IInv, NEW p \in Packets, CanForward(p), ForwardReq(p),
         ~Accepts(PktMem[p], p)
  PROVE  IInv' /\ LayersStep
<1>. DEFINE m == PktMem[p]
            s == PktSrc[p]
<1>. USE PortAssumption, MemAssumption
<1>1. /\ m \in Mems /\ m \in Layers /\ m \notin Srcs
      /\ s \in Srcs /\ s \in Layers /\ s \notin Mems
      /\ NoPort \notin Srcs /\ NoPort \notin Mems
  BY DEF Layers
<1>2. /\ TypeOK /\ MemTypeOK
      /\ ~retryRead[m] /\ ~retryWrite[m]
      /\ layers[m].waitingForPeer = NoPort
  BY <1>1, LayerOf DEF IInv, TypeOK, CanForward, Taken, Owes
<1>3. /\ layers' = [layers EXCEPT ![m] = FailedTiming(layers[m], s)]
      /\ where' = [where EXCEPT ![p] = "blocked"]
      /\ blockedPkt' = [blockedPkt EXCEPT ![s] = p]
      /\ UNCHANGED <<ticking, mode, phase>>
      /\ RecvTimingReq(m, p)
  BY DEF ForwardReq
<1>4. /\ IsRead(p) \/ IsWrite(p)
      /\ transactionQueue[m] # {}
      /\ UNCHANGED <<retryResp, responseQueue, respondEvent, m_request_map,
                     transactionQueue, drainManager, completing, pc>>
      /\ retryRead' = [retryRead EXCEPT ![m] = IsRead(p)]
      /\ retryWrite' = [retryWrite EXCEPT ![m] = ~IsRead(p)]
      /\ m_awake' = [m_awake EXCEPT ![m] = TRUE]
      /\ clockEvent' = [clockEvent EXCEPT ![m] = @ \/ ~m_awake[m]]
  BY <1>1, <1>2, <1>3, RecvRefused
<1>5. /\ retryRead' \in [Mems -> BOOLEAN]
      /\ retryWrite' \in [Mems -> BOOLEAN]
      /\ retryRead'[m] \/ retryWrite'[m]
      /\ ~(retryRead'[m] /\ retryWrite'[m])
      /\ \A n \in Mems \ {m} : /\ retryRead'[n] = retryRead[n]
                               /\ retryWrite'[n] = retryWrite[n]
  <2>. DEFINE r == IsRead(p)
              w == ~IsRead(p)
  <2>1. r \in BOOLEAN /\ w \in BOOLEAN /\ (r \/ w) /\ ~(r /\ w)
    BY DEF IsRead
  <2>2. /\ retryRead' = [retryRead EXCEPT ![m] = r]
        /\ retryWrite' = [retryWrite EXCEPT ![m] = w]
    BY <1>4
  <2>. HIDE DEF r, w
  <2>. QED  BY <1>1, <1>2, <2>1, <2>2 DEF MemTypeOK
<1>6. /\ m_awake' \in [Mems -> BOOLEAN]
      /\ clockEvent' \in [Mems -> BOOLEAN]
      /\ clockEvent'[m] \/ m_awake[m]
      /\ clockEvent[m] => clockEvent'[m]
      /\ \A n \in Mems \ {m} : /\ m_awake'[n] = m_awake[n]
                               /\ clockEvent'[n] = clockEvent[n]
  <2>. DEFINE c == clockEvent[m] \/ ~m_awake[m]
  <2>1. /\ clockEvent' = [clockEvent EXCEPT ![m] = c]
        /\ c \in BOOLEAN
        /\ c \/ m_awake[m]
        /\ clockEvent[m] => c
    BY <1>4
  <2>. HIDE DEF c
  <2>. QED  BY <1>1, <1>2, <1>4, <2>1 DEF MemTypeOK
<1>7. BlockedAt(m)' = BlockedAt(m) \cup {s}
  <2>1. layers'[m].retrying = NoPort
    BY <1>1, <1>2, <1>3, LayerOf DEF TypeOK, FailedTiming, LayerType
  <2>2. ASSUME NEW x \in Srcs
        PROVE  x \in BlockedAt(m)' <=> x \in BlockedAt(m) \cup {s}
    <3>1. x \in BlockedAt(m)' <=> blockedPkt'[x] # NoPkt /\ PktMem[blockedPkt'[x]] = m
      BY <1>1, <2>1 DEF BlockedAt
    <3>2. x \in BlockedAt(m) <=> /\ blockedPkt[x] # NoPkt
                                /\ PktMem[blockedPkt[x]] = m
                                /\ x # layers[m].retrying
      BY <1>1 DEF BlockedAt
    <3>3. CASE x = s
      BY <1>1, <1>2, <1>3, <3>1, <3>2, <3>3 DEF CanForward, TypeOK
    <3>4. CASE x # s
      BY <1>1, <1>2, <1>3, <3>1, <3>2, <3>4 DEF CanForward, TypeOK
    <3>. QED  BY <3>3, <3>4
  <2>3. BlockedAt(m)' \subseteq Srcs /\ BlockedAt(m) \subseteq Srcs
    BY <1>1 DEF BlockedAt
  <2>. QED  BY <1>1, <2>2, <2>3
<1>8. \A l \in Layers \ {m} : /\ BlockedAt(l)' = BlockedAt(l)
                              /\ Owes(l)' = Owes(l)
  <2>1. SUFFICES ASSUME NEW l \in Layers \ {m}
                 PROVE  BlockedAt(l)' = BlockedAt(l)
    BY <1>5 DEF Owes
  <2>2. layers'[l] = layers[l]
    BY <1>1, <1>2, <1>3 DEF TypeOK
  <2>3. CASE l \in Mems
    BY <1>1, <1>2, <1>3, <2>2, <2>3 DEF BlockedAt, CanForward, TypeOK
  <2>4. CASE l \notin Mems
    BY <1>4, <2>2, <2>4 DEF BlockedAt
  <2>. QED  BY <2>3, <2>4
<1>9. LayerInv(FailedTiming(layers[m], s), Ports(m), BlockedAt(m)', Owes(m)')
  <2>1. s \in Ports(m) \ BlockedAt(m)
    BY <1>1 DEF Ports, CanForward
  <2>2. Owes(m)' = TRUE
    BY <1>1, <1>5 DEF Owes
  <2>3. /\ LayerInv(layers[m], Ports(m), BlockedAt(m), Owes(m))
        /\ NoPort \notin Ports(m)
    BY <1>1, LayerOf, PortFacts
  <2>4. LayerInv(FailedTiming(layers[m], s), Ports(m), BlockedAt(m) \cup {s}, TRUE)
    BY <1>2, <2>1, <2>3, FailedTimingInv
  <2>. QED  BY <1>7, <2>2, <2>4
<1>10. /\ LayersInv' /\ LayersStep
       /\ layers' \in [Layers -> LayerType(Layers)]
       /\ layers'[m] = FailedTiming(layers[m], s)
       /\ \A l \in Layers \ {m} : layers'[l] = layers[l]
  <2>1. LayerStep(m)
    <3>1. /\ s \in Ports(m) \ BlockedAt(m)
          /\ ~Taken(layers[m])
          /\ layers[m].state = "RETRY" => layers[m].retrying = s
      BY <1>1, LayerOf DEF Ports, CanForward
    <3>2. layers'[m] = FailedTiming(layers[m], s)
      BY <1>1, <1>2, <1>3 DEF TypeOK
    <3>3. Owes(m)' = TRUE
      BY <1>1, <1>5 DEF Owes
    <3>. QED  BY <1>1, <1>7, <3>1, <3>2, <3>3, LayerFails
  <2>. QED
    BY <1>1, <1>2, <1>3, <1>8, <1>9, <2>1, OneLayerStep DEF IInv
<1>11. layers'[m].state = "BUSY"
  BY <1>1, <1>10, LayerOf DEF FailedTiming, LayerType
<1>12. TypeOK'
  <2>1. MemTypeOK'
    BY <1>2, <1>4, <1>5, <1>6 DEF MemTypeOK
  <2>. QED  BY <1>1, <1>2, <1>3, <1>10, <2>1 DEF TypeOK
<1>13. HandlerInv'
  BY <1>3, <1>4, <1>10, <1>11 DEF IInv, HandlerInv, CanForward
<1>14. MasterInv'
  <2>1. ASSUME NEW q \in Packets, where'[q] \in {"pending", "blocked"}
        PROVE  q \notin m_request_map'[PktMem[q]]
    BY <1>2, <1>3, <1>4, <2>1 DEF IInv, MasterInv, CanForward, TypeOK
  <2>2. ASSUME NEW q \in Packets, where'[q] = "blocked"
        PROVE  blockedPkt'[PktSrc[q]] = q
    BY <1>1, <1>2, <1>3, <2>2 DEF IInv, MasterInv, CanForward, TypeOK
  <2>3. ASSUME NEW t \in Srcs, blockedPkt'[t] # NoPkt
        PROVE  PktSrc[blockedPkt'[t]] = t /\ where'[blockedPkt'[t]] = "blocked"
    BY <1>1, <1>2, <1>3, <2>3, SMTT(60) DEF IInv, MasterInv, CanForward, TypeOK
  <2>. QED  BY <2>1, <2>2, <2>3 DEF MasterInv
<1>15. RetryInv'
  BY <1>1, <1>3, <1>10, <1>11 DEF RetryInv, CanForward, Layers
<1>16. RequestInv'
  <2>1. SUFFICES ASSUME NEW n \in Mems
                 PROVE  RequestOK(n)'
    BY DEF RequestInv
  <2>2. RequestOK(n)
    BY DEF IInv, RequestInv
  <2>3. CASE n = m
    BY <1>3, <1>4, <1>5, <1>6, <2>2, <2>3 DEF RequestOK
  <2>4. CASE n # m
    BY <1>3, <1>4, <1>5, <1>6, <2>2, <2>4 DEF RequestOK
  <2>. QED  BY <2>3, <2>4
<1>17. ResponseInv'
  <2>1. \A q \in Packets : q # p => where'[q] = where[q]
    BY <1>2, <1>3 DEF TypeOK
  <2>2. where'[p] # "sent"
    BY <1>2, <1>3 DEF TypeOK
  <2>3. \A n \in Mems : Elems(responseQueue[n]) \subseteq Packets \ {p}
    BY <1>2 DEF MemTypeOK, Elems, IInv, ResponseInv, CanForward
  <2>4. \A n \in Mems : m_request_map[n] \subseteq Packets
    BY <1>2 DEF MemTypeOK
  <2>5. \A n \in Mems : IsRead(p) => p \notin m_request_map[n]
    BY DEF IInv, ResponseInv, CanForward
  <2>. QED
    BY <1>4, <2>1, <2>2, <2>3, <2>4, <2>5 DEF IInv, ResponseInv
<1>18. DrainedInv'
  BY <1>3 DEF DrainedInv, CanForward
<1>. QED
  BY <1>10, <1>12, <1>13, <1>14, <1>15, <1>16, <1>17, <1>18 DEF IInv

(* A forwarded packet, accepted or refused. *)
LEMMA ForwardStep ==
  ASSUME IInv, NEW p \in Packets, CanForward(p), ForwardReq(p)
  PROVE  IInv' /\ LayersStep
  BY ForwardAccepted, ForwardRefused

-----------------------------------------------------------------------------
(* Only one layer, and no master or memory, changes. *)
LEMMA LayerOnlyStep ==
  ASSUME IInv, NEW k \in Layers, NEW K,
         layers' = [layers EXCEPT ![k] = K],
         LayerInv(K, Ports(k), BlockedAt(k)', Owes(k)'), LayerStep(k),
         K.state = "RETRY" =>
           /\ ticking \in {NoPort, k}
           /\ phase # "drained"
           /\ \A l \in Layers \ {k} : layers[l].state # "RETRY"
           /\ K.retrying \in BlockedAt(k),
         UNCHANGED <<memVars, where, blockedPkt, ticking, mode, phase>>
  PROVE  IInv' /\ LayersStep
<1>. USE PortAssumption, MemAssumption
<1>1. TypeOK /\ MemTypeOK /\ UNCHANGED memVars
  BY DEF IInv, TypeOK
<1>2. \A l \in Layers : Owes(l)' = Owes(l)
  BY <1>1 DEF Owes, memVars
<1>3. \A l \in Layers \ {k} : layers'[l] = layers[l]
  BY <1>1 DEF TypeOK
<1>4. \A l \in Layers \ {k} : BlockedAt(l)' = BlockedAt(l)
  BY <1>1, <1>3 DEF BlockedAt, memVars
<1>5. /\ LayersInv' /\ LayersStep
      /\ layers' \in [Layers -> LayerType(Layers)]
      /\ layers'[k] = K
  BY <1>1, <1>2, <1>4, OneLayerStep DEF IInv
<1>6. TypeOK'
  BY <1>1, <1>5 DEF TypeOK, MemTypeOK, memVars
<1>7. HandlerInv'
  BY <1>1, <1>3, <1>5 DEF IInv, HandlerInv, memVars
<1>8. MasterInv' /\ RequestInv' /\ ResponseInv'
  <2>1. MasterInv'
    BY <1>1 DEF IInv, MasterInv, memVars
  <2>2. RequestInv'
    BY <1>1 DEF IInv, RequestInv, RequestOK, memVars
  <2>3. ResponseInv'
    BY <1>1 DEF IInv, ResponseInv, memVars
  <2>. QED  BY <2>1, <2>2, <2>3
<1>9. RetryInv'
  <2>1. ASSUME NEW m \in Mems, layers'[m].state = "RETRY"
        PROVE  /\ blockedPkt[layers'[m].retrying] # NoPkt
               /\ PktMem[blockedPkt[layers'[m].retrying]] = m
    <3>1. CASE m = k
      BY <1>5, <2>1, <3>1 DEF BlockedAt
    <3>2. CASE m # k
      BY <1>3, <2>1, <3>2 DEF IInv, RetryInv, Layers
    <3>. QED  BY <3>1, <3>2
  <2>2. ASSUME NEW s \in Srcs, layers'[s].state = "RETRY"
        PROVE  /\ retryResp[layers'[s].retrying]
               /\ PktSrc[Head(responseQueue[layers'[s].retrying])] = s
    <3>1. CASE s = k
      BY <1>5, <2>2, <3>1 DEF BlockedAt
    <3>2. CASE s # k
      BY <1>3, <2>2, <3>2 DEF IInv, RetryInv, Layers
    <3>. QED  BY <3>1, <3>2
  <2>. QED  BY <1>1, <2>1, <2>2 DEF RetryInv, memVars
<1>10. DrainedInv'
  BY <1>1, <1>3, <1>5 DEF IInv, DrainedInv, MastersIdle, memVars
<1>. QED
  BY <1>5, <1>6, <1>7, <1>8, <1>9, <1>10 DEF IInv

(* The release event of a layer. *)
LEMMA ReleaseStep ==
  ASSUME IInv, NEW l \in Layers, Release(l)
  PROVE  IInv' /\ LayersStep
<1>. DEFINE K == ReleaseLayer(layers[l])
<1>1. /\ LayerInv(layers[l], Ports(l), BlockedAt(l), Owes(l))
      /\ layers[l].state = "BUSY"
      /\ layers[l].retrying = NoPort
      /\ NoPort \notin Ports(l)
      /\ layers \in [Layers -> LayerType(Layers)]
  BY LayerOf, PortFacts DEF Release, IInv, TypeOK
<1>2. LayerInv(K, Ports(l), BlockedAt(l) \ {K.retrying}, Owes(l))
  BY <1>1, ReleaseLayerInv
<1>3. /\ layers' = [layers EXCEPT ![l] = K]
      /\ UNCHANGED <<memVars, where, blockedPkt, ticking, mode, phase>>
      /\ Quiet
  BY DEF Release
<1>4. layers'[l] = K
  BY <1>1, <1>3
<1>5. NoPort \notin BlockedAt(l)
  BY PortAssumption DEF BlockedAt, Layers
<1>6. BlockedAt(l)' = BlockedAt(l) \ {K.retrying}
  BY <1>1, <1>3, <1>4, <1>5, PortAssumption DEF BlockedAt, memVars, Layers
<1>7. Owes(l)' = Owes(l)
  BY <1>3 DEF Owes, memVars
<1>8. K.state = "RETRY" => K.retrying \in BlockedAt(l)
  <2>1. CASE /\ layers[l].waitingForLayer # << >>
             /\ layers[l].waitingForPeer = NoPort
    <3>1. K.retrying = Head(layers[l].waitingForLayer)
      BY <1>1, <2>1 DEF ReleaseLayer, RetryWaiting, LayerInv, LayerType
    <3>2. layers[l].waitingForLayer \in Seq(Ports(l))
      BY <1>1 DEF LayerInv, LayerType
    <3>3. Head(layers[l].waitingForLayer) \in Elems(layers[l].waitingForLayer)
      BY <2>1, <3>2, TailFacts
    <3>. QED  BY <1>1, <3>1, <3>3 DEF LayerInv, Registered
  <2>2. CASE ~(/\ layers[l].waitingForLayer # << >>
               /\ layers[l].waitingForPeer = NoPort)
    BY <1>1, <2>2 DEF ReleaseLayer, LayerInv, LayerType
  <2>. QED  BY <2>1, <2>2
<1>9. LayerStep(l)
  BY <1>1, <1>4, <1>6, <1>7, LayerReleases
<1>. HIDE DEF K
<1>. QED
  BY <1>2, <1>3, <1>6, <1>7, <1>8, <1>9, LayerOnlyStep DEF Quiet

(* A master sends a packet. *)
LEMMA MasterSendsStep ==
  ASSUME IInv, NEW p \in Packets, MasterSends(p)
  PROVE  IInv' /\ LayersStep
<1>. DEFINE m == PktMem[p]
            s == PktSrc[p]
<1>. USE PortAssumption, MemAssumption
<1>1. /\ m \in Mems /\ m \in Layers /\ m \notin Srcs
      /\ s \in Srcs /\ s \in Layers /\ s \notin Mems
      /\ NoPort \notin Srcs /\ NoPort \notin Mems
  BY DEF Layers
<1>2. /\ TypeOK /\ MemTypeOK
      /\ Quiet
      /\ blockedPkt[s] = NoPkt
      /\ where[p] \in {"pending", "idle"}
      /\ p \notin m_request_map[m]
      /\ layers[m].state # "RETRY"
      /\ layers[m].retrying = NoPort
  BY <1>1, LayerOf DEF IInv, TypeOK, MasterSends, Quiet, MasterInv
<1>3. s \notin BlockedAt(m)
  BY <1>1, <1>2 DEF BlockedAt
<1>4. CASE ~Taken(layers[m])
  <2>1. CanForward(p)
    BY <1>1, <1>2, <1>3, <1>4 DEF CanForward, Quiet
  <2>2. ForwardReq(p)
    BY <1>4 DEF MasterSends
  <2>. QED  BY <2>1, <2>2, ForwardStep
<1>5. CASE Taken(layers[m])
  <2>1. /\ layers' = [layers EXCEPT ![m] = PutInLine(layers[m], s)]
        /\ where' = [where EXCEPT ![p] = "blocked"]
        /\ blockedPkt' = [blockedPkt EXCEPT ![s] = p]
        /\ UNCHANGED <<memVars, ticking, mode, phase>>
        /\ UNCHANGED memVars
    BY <1>5 DEF MasterSends
  <2>2. layers'[m].retrying = NoPort /\ layers'[m].state # "RETRY"
    BY <1>1, <1>2, <2>1, LayerOf DEF TypeOK, PutInLine, LayerType
  <2>3. BlockedAt(m)' = BlockedAt(m) \cup {s}
    <3>1. ASSUME NEW x \in Srcs
          PROVE  x \in BlockedAt(m)' <=> x \in BlockedAt(m) \cup {s}
      <4>1. x \in BlockedAt(m)' <=> blockedPkt'[x] # NoPkt /\ PktMem[blockedPkt'[x]] = m
        BY <1>1, <2>2 DEF BlockedAt
      <4>2. x \in BlockedAt(m) <=> blockedPkt[x] # NoPkt /\ PktMem[blockedPkt[x]] = m
        BY <1>1, <1>2 DEF BlockedAt
      <4>. QED  BY <1>1, <1>2, <2>1, <4>1, <4>2 DEF TypeOK
    <3>2. BlockedAt(m)' \subseteq Srcs /\ BlockedAt(m) \subseteq Srcs
      BY <1>1 DEF BlockedAt
    <3>. QED  BY <1>1, <3>1, <3>2
  <2>4. \A l \in Layers : Owes(l)' = Owes(l)
    BY <2>1 DEF Owes, memVars
  <2>5. \A l \in Layers \ {m} : BlockedAt(l)' = BlockedAt(l)
    <3>1. SUFFICES ASSUME NEW l \in Layers \ {m}
                   PROVE  BlockedAt(l)' = BlockedAt(l)
      OBVIOUS
    <3>2. layers'[l] = layers[l]
      BY <1>1, <1>2, <2>1 DEF TypeOK
    <3>3. CASE l \in Mems
      BY <1>1, <1>2, <2>1, <3>2, <3>3 DEF BlockedAt, TypeOK
    <3>4. CASE l \notin Mems
      BY <2>1, <3>2, <3>4 DEF BlockedAt, memVars
    <3>. QED  BY <3>3, <3>4
  <2>6. LayerInv(PutInLine(layers[m], s), Ports(m), BlockedAt(m)', Owes(m)')
    <3>1. /\ LayerInv(layers[m], Ports(m), BlockedAt(m), Owes(m))
          /\ NoPort \notin Ports(m)
          /\ s \in Ports(m) \ BlockedAt(m)
      BY <1>1, <1>3, LayerOf, PortFacts DEF Ports
    <3>2. LayerInv(PutInLine(layers[m], s), Ports(m), BlockedAt(m) \cup {s}, Owes(m))
      BY <1>2, <1>5, <3>1, PutInLineInv
    <3>. QED  BY <1>1, <2>3, <2>4, <3>2
  <2>7. /\ LayersInv' /\ LayersStep
        /\ layers' \in [Layers -> LayerType(Layers)]
        /\ \A l \in Layers \ {m} : layers'[l] = layers[l]
    <3>1. LayerStep(m)
      <4>1. layers'[m] = PutInLine(layers[m], s) /\ s \in Ports(m) \ BlockedAt(m)
        BY <1>1, <1>2, <1>3, <2>1 DEF TypeOK, Ports
      <4>. QED  BY <1>1, <1>2, <1>5, <2>3, <2>4, <4>1, LayerPutsInLine
    <3>. QED
      BY <1>1, <1>2, <2>1, <2>4, <2>5, <2>6, <3>1, OneLayerStep DEF IInv
  <2>8. TypeOK'
    BY <1>1, <1>2, <2>1, <2>7 DEF TypeOK, MemTypeOK, memVars
  <2>9. \A l \in Layers : layers'[l].state # "RETRY"
    BY <1>2, <2>2, <2>7 DEF Quiet
  <2>10. HandlerInv' /\ RetryInv'
    BY <2>1, <2>9 DEF IInv, HandlerInv, RetryInv, memVars, Layers
  <2>11. MasterInv'
    <3>1. ASSUME NEW q \in Packets, where'[q] \in {"pending", "blocked"}
          PROVE  q \notin m_request_map'[PktMem[q]]
      BY <1>2, <2>1, <3>1 DEF IInv, MasterInv, TypeOK, memVars
    <3>2. ASSUME NEW q \in Packets, where'[q] = "blocked"
          PROVE  blockedPkt'[PktSrc[q]] = q
      BY <1>1, <1>2, <2>1, <3>2 DEF IInv, MasterInv, TypeOK
    <3>3. ASSUME NEW t \in Srcs, blockedPkt'[t] # NoPkt
          PROVE  PktSrc[blockedPkt'[t]] = t /\ where'[blockedPkt'[t]] = "blocked"
      BY <1>1, <1>2, <2>1, <3>3 DEF IInv, MasterInv, TypeOK
    <3>. QED  BY <3>1, <3>2, <3>3 DEF MasterInv
  <2>12. RequestInv'
    BY <2>1 DEF IInv, RequestInv, RequestOK, memVars
  <2>13. ResponseInv'
    <3>1. \A q \in Packets : where'[q] = "sent" <=> where[q] = "sent"
      BY <1>2, <2>1 DEF TypeOK
    <3>2. \A n \in Mems : /\ Elems(responseQueue[n]) \subseteq Packets
                          /\ m_request_map[n] \subseteq Packets
      BY <1>2 DEF MemTypeOK, Elems
    <3>. QED  BY <2>1, <3>1, <3>2 DEF IInv, ResponseInv, memVars
  <2>14. DrainedInv'
    BY <1>2, <2>1 DEF DrainedInv, Quiet
  <2>. QED
    BY <2>7, <2>8, <2>10, <2>11, <2>12, <2>13, <2>14 DEF IInv
<1>. QED  BY <1>4, <1>5

(* A master told to retry sends its packet. *)
LEMMA MasterResendsStep ==
  ASSUME IInv, NEW m \in Mems, MasterResends(m)
  PROVE  IInv' /\ LayersStep
<1>. DEFINE s == layers[m].retrying
            p == blockedPkt[s]
<1>. USE PortAssumption, MemAssumption
<1>1. m \in Layers /\ TypeOK
  BY DEF Layers, IInv
<1>2. /\ layers[m].state = "RETRY"
      /\ s \in Srcs
      /\ s \notin BlockedAt(m)
      /\ layers[m].waitingForPeer = NoPort
  BY <1>1, LayerOf DEF MasterResends, Ports
<1>3. /\ p \in Packets
      /\ PktMem[p] = m
      /\ PktSrc[p] = s
      /\ where[p] = "blocked"
  BY <1>1, <1>2 DEF IInv, RetryInv, MasterInv, TypeOK
<1>4. /\ \A l \in Layers \ {m} : layers[l].state # "RETRY"
      /\ ticking \in {NoPort, m}
      /\ phase # "drained"
      /\ p \notin m_request_map[m]
  BY <1>1, <1>2, <1>3 DEF IInv, HandlerInv, DrainedInv, MasterInv
<1>5. CanForward(p)
  BY <1>2, <1>3, <1>4 DEF CanForward, Taken
<1>. QED  BY <1>3, <1>5, ForwardStep DEF MasterResends

(* A master told to retry keeps its packet for later. *)
LEMMA MasterDefersStep ==
  ASSUME IInv, NEW m \in Mems, MasterDefers(m)
  PROVE  IInv' /\ LayersStep
<1>. DEFINE s == layers[m].retrying
            p == blockedPkt[s]
<1>. USE PortAssumption, MemAssumption
<1>1. m \in Layers /\ m \notin Srcs /\ TypeOK /\ MemTypeOK /\ NoPort \notin Srcs
  BY DEF Layers, IInv, TypeOK
<1>2. /\ layers[m].state = "RETRY"
      /\ s \in Srcs
      /\ s \notin BlockedAt(m)
  BY <1>1, LayerOf DEF MasterDefers, Ports
<1>3. /\ p \in Packets
      /\ PktMem[p] = m
      /\ PktSrc[p] = s
      /\ where[p] = "blocked"
  BY <1>1, <1>2 DEF IInv, RetryInv, MasterInv, TypeOK
<1>4. /\ \A l \in Layers \ {m} : layers[l].state # "RETRY"
      /\ phase # "drained"
  BY <1>1, <1>2 DEF IInv, HandlerInv, DrainedInv
<1>5. /\ layers' = [layers EXCEPT ![m] = BurnCycle(layers[m])]
      /\ where' = [where EXCEPT ![p] = "pending"]
      /\ blockedPkt' = [blockedPkt EXCEPT ![s] = NoPkt]
      /\ UNCHANGED <<memVars, ticking, mode, phase>>
      /\ UNCHANGED memVars
  BY DEF MasterDefers
<1>6. layers'[m].retrying = NoPort /\ layers'[m].state = "BUSY"
  BY <1>1, <1>5, LayerOf DEF TypeOK, BurnCycle, LayerType
<1>7. BlockedAt(m)' = BlockedAt(m)
  <2>1. ASSUME NEW x \in Srcs
        PROVE  x \in BlockedAt(m)' <=> x \in BlockedAt(m)
    <3>1. x \in BlockedAt(m)' <=> blockedPkt'[x] # NoPkt /\ PktMem[blockedPkt'[x]] = m
      BY <1>1, <1>6 DEF BlockedAt
    <3>2. x \in BlockedAt(m) <=> /\ blockedPkt[x] # NoPkt
                                 /\ PktMem[blockedPkt[x]] = m
                                 /\ x # s
      BY <1>1 DEF BlockedAt
    <3>. QED  BY <1>1, <1>2, <1>5, <3>1, <3>2 DEF TypeOK
  <2>2. BlockedAt(m)' \subseteq Srcs /\ BlockedAt(m) \subseteq Srcs
    BY <1>1 DEF BlockedAt
  <2>. QED  BY <2>1, <2>2
<1>8. \A l \in Layers : Owes(l)' = Owes(l)
  BY <1>5 DEF Owes, memVars
<1>9. \A l \in Layers \ {m} : BlockedAt(l)' = BlockedAt(l)
  <2>1. SUFFICES ASSUME NEW l \in Layers \ {m}
                 PROVE  BlockedAt(l)' = BlockedAt(l)
    OBVIOUS
  <2>2. layers'[l] = layers[l]
    BY <1>1, <1>5 DEF TypeOK
  <2>3. CASE l \in Mems
    BY <1>1, <1>2, <1>3, <1>5, <2>2, <2>3 DEF BlockedAt, TypeOK
  <2>4. CASE l \notin Mems
    BY <1>5, <2>2, <2>4 DEF BlockedAt, memVars
  <2>. QED  BY <2>3, <2>4
<1>10. /\ LayersInv' /\ LayersStep
       /\ layers' \in [Layers -> LayerType(Layers)]
       /\ \A l \in Layers \ {m} : layers'[l] = layers[l]
  <2>1. LayerInv(BurnCycle(layers[m]), Ports(m), BlockedAt(m)', Owes(m)')
    BY <1>1, <1>7, <1>8, LayerOf, BurnCycleInv
  <2>2. LayerStep(m)
    <3>1. layers'[m] = BurnCycle(layers[m])
      BY <1>1, <1>5 DEF TypeOK
    <3>. QED  BY <1>1, <1>2, <1>7, <1>8, <3>1, LayerBurnsCycle
  <2>. QED
    BY <1>1, <1>5, <1>8, <1>9, <2>1, <2>2, OneLayerStep DEF IInv
<1>11. TypeOK'
  BY <1>1, <1>2, <1>3, <1>5, <1>10 DEF TypeOK, MemTypeOK, memVars
<1>12. \A l \in Layers : layers'[l].state # "RETRY"
  BY <1>4, <1>6, <1>10
<1>13. HandlerInv' /\ RetryInv'
  BY <1>5, <1>12 DEF IInv, HandlerInv, RetryInv, memVars, Layers
<1>14. MasterInv'
  <2>1. ASSUME NEW q \in Packets, where'[q] \in {"pending", "blocked"}
        PROVE  q \notin m_request_map'[PktMem[q]]
    BY <1>1, <1>3, <1>5, <2>1 DEF IInv, MasterInv, TypeOK, memVars
  <2>2. ASSUME NEW q \in Packets, where'[q] = "blocked"
        PROVE  blockedPkt'[PktSrc[q]] = q
    BY <1>1, <1>2, <1>3, <1>5, <2>2 DEF IInv, MasterInv, TypeOK
  <2>3. ASSUME NEW t \in Srcs, blockedPkt'[t] # NoPkt
        PROVE  PktSrc[blockedPkt'[t]] = t /\ where'[blockedPkt'[t]] = "blocked"
    BY <1>1, <1>2, <1>3, <1>5, <2>3 DEF IInv, MasterInv, TypeOK
  <2>. QED  BY <2>1, <2>2, <2>3 DEF MasterInv
<1>15. RequestInv'
  BY <1>5 DEF IInv, RequestInv, RequestOK, memVars
<1>16. ResponseInv'
  <2>1. \A q \in Packets : where'[q] = "sent" <=> where[q] = "sent"
    BY <1>1, <1>3, <1>5 DEF TypeOK
  <2>2. \A n \in Mems : /\ Elems(responseQueue[n]) \subseteq Packets
                        /\ m_request_map[n] \subseteq Packets
    BY <1>1 DEF MemTypeOK, Elems
  <2>. QED  BY <1>5, <2>1, <2>2 DEF IInv, ResponseInv, memVars
<1>17. DrainedInv'
  BY <1>4, <1>5 DEF DrainedInv
<1>. QED
  BY <1>10, <1>11, <1>13, <1>14, <1>15, <1>16, <1>17 DEF IInv

(* A response passes its layer, sent by respondEvent or by recvRetry(). *)
LEMMA DeliverStep ==
  ASSUME IInv, NEW m \in Mems, responseQueue[m] # << >>, phase # "drained",
         NEW resp, resp = [retryResp EXCEPT ![m] = FALSE],
         NEW event \in [Mems -> BOOLEAN],
         \A n \in Mems \ {m} : event[n] = respondEvent[n],
         NEW p \in Packets, p = Head(responseQueue[m]),
         NEW s \in Srcs, s = PktSrc[p],
         \A l \in Layers \ {s} : layers[l].state # "RETRY",
         layers[s].state = "RETRY" \/ ~Taken(layers[s]),
         layers[s].retrying = IF retryResp[m] THEN m ELSE NoPort,
         DeliverResp(m, resp, event)
  PROVE  IInv' /\ LayersStep
<1>. USE PortAssumption, MemAssumption
<1>1. /\ TypeOK /\ MemTypeOK
      /\ responseQueue[m] \in Seq(Packets)
      /\ Distinct(responseQueue[m])
  BY DEF IInv, TypeOK, MemTypeOK, ResponseInv
<1>2. /\ p \in Packets
      /\ Tail(responseQueue[m]) \in Seq(Packets)
      /\ Elems(responseQueue[m]) = {p} \cup Elems(Tail(responseQueue[m]))
      /\ Distinct(Tail(responseQueue[m]))
      /\ p \notin Elems(Tail(responseQueue[m]))
  BY <1>1, TailFacts
<1>3. /\ s \in Srcs /\ s \in Layers /\ s \notin Mems /\ NoPort \notin Mems
      /\ PktMem[p] = m
      /\ where[p] = "sent"
      /\ ~(IsRead(p) /\ p \in m_request_map[m])
  BY <1>2 DEF Layers, IInv, ResponseInv
<1>4. /\ layers' = [layers EXCEPT ![s] = SucceededTiming(layers[s])]
      /\ where' = [where EXCEPT ![p] = "idle"]
      /\ UNCHANGED <<blockedPkt, ticking, mode, phase>>
      /\ retryResp' = [retryResp EXCEPT ![m] = FALSE]
      /\ responseQueue' = [responseQueue EXCEPT ![m] = Tail(responseQueue[m])]
      /\ respondEvent' = [event EXCEPT ![m] = event[m] \/ Len(responseQueue[m]) > 1]
      /\ drainManager' = [drainManager EXCEPT
                            ![m] = CheckDrainState(m, m_request_map[m])]
      /\ UNCHANGED <<retryRead, retryWrite, clockEvent, m_awake, m_request_map,
                     transactionQueue, completing, pc>>
  BY DEF DeliverResp, ResponseSent
<1>5. /\ respondEvent' \in [Mems -> BOOLEAN]
      /\ Tail(responseQueue[m]) # << >> => respondEvent'[m]
      /\ \A n \in Mems \ {m} : respondEvent'[n] = respondEvent[n]
  <2>. DEFINE e == event[m] \/ Len(responseQueue[m]) > 1
  <2>1. respondEvent' = [event EXCEPT ![m] = e] /\ e \in BOOLEAN
    BY <1>4
  <2>2. Tail(responseQueue[m]) # << >> => e
    BY <1>1
  <2>. HIDE DEF e
  <2>. QED  BY <2>1, <2>2
<1>6. /\ drainManager' \in [Mems -> BOOLEAN]
  <2>. DEFINE d == CheckDrainState(m, m_request_map[m])
  <2>1. drainManager' = [drainManager EXCEPT ![m] = d] /\ d \in BOOLEAN
    BY <1>4 DEF CheckDrainState
  <2>. HIDE DEF d
  <2>. QED  BY <1>1, <2>1 DEF MemTypeOK
<1>7. /\ retryResp' \in [Mems -> BOOLEAN]
      /\ responseQueue' \in [Mems -> Seq(Packets)]
      /\ ~retryResp'[m]
      /\ responseQueue'[m] = Tail(responseQueue[m])
      /\ \A n \in Mems \ {m} : /\ retryResp'[n] = retryResp[n]
                               /\ responseQueue'[n] = responseQueue[n]
  BY <1>1, <1>2, <1>4 DEF MemTypeOK
<1>8. layers'[s].retrying = NoPort /\ layers'[s].state = "BUSY"
  BY <1>1, <1>3, <1>4, LayerOf DEF TypeOK, SucceededTiming, LayerType
<1>9. BlockedAt(s)' = BlockedAt(s)
  <2>1. ASSUME NEW n \in Mems
        PROVE  n \in BlockedAt(s)' <=> n \in BlockedAt(s)
    <3>1. n \in BlockedAt(s)' <=> retryResp'[n] /\ PktSrc[Head(responseQueue'[n])] = s
      BY <1>3, <1>8 DEF BlockedAt
    <3>2. n \in BlockedAt(s) <=> /\ retryResp[n]
                                 /\ PktSrc[Head(responseQueue[n])] = s
                                 /\ n # layers[s].retrying
      BY <1>3 DEF BlockedAt
    <3>3. CASE n = m
      BY <1>7, <3>1, <3>2, <3>3
    <3>4. CASE n # m
      BY <1>3, <1>7, <3>1, <3>2, <3>4, ZenonT(40)
    <3>. QED  BY <3>3, <3>4
  <2>2. BlockedAt(s)' \subseteq Mems /\ BlockedAt(s) \subseteq Mems
    BY <1>3 DEF BlockedAt
  <2>. QED  BY <2>1, <2>2
<1>10. \A l \in Layers : Owes(l)' = Owes(l)
  BY <1>4 DEF Owes
<1>11. \A l \in Layers \ {s} : BlockedAt(l)' = BlockedAt(l)
  <2>1. SUFFICES ASSUME NEW l \in Layers \ {s}
                 PROVE  BlockedAt(l)' = BlockedAt(l)
    OBVIOUS
  <2>2. layers'[l] = layers[l]
    BY <1>1, <1>3, <1>4, ZenonT(40) DEF TypeOK
  <2>3. CASE l \in Mems
    BY <1>4, <2>2, <2>3 DEF BlockedAt
  <2>4. CASE l \notin Mems
    <3>1. ASSUME NEW n \in Mems
          PROVE  n \in BlockedAt(l)' <=> n \in BlockedAt(l)
      <4>1. n \in BlockedAt(l)' <=> /\ retryResp'[n]
                                     /\ PktSrc[Head(responseQueue'[n])] = l
                                     /\ n # layers[l].retrying
        BY <2>2, <2>4 DEF BlockedAt
      <4>2. n \in BlockedAt(l) <=> /\ retryResp[n]
                                    /\ PktSrc[Head(responseQueue[n])] = l
                                    /\ n # layers[l].retrying
        BY <2>4 DEF BlockedAt
      <4>3. CASE n = m
        BY <1>7, <4>1, <4>2, <4>3
      <4>4. CASE n # m
        BY <1>7, <4>1, <4>2, <4>4
      <4>. QED  BY <4>3, <4>4
    <3>2. BlockedAt(l)' \subseteq Mems /\ BlockedAt(l) \subseteq Mems
      BY <2>4, ZenonT(40) DEF BlockedAt
    <3>. QED  BY <3>1, <3>2
  <2>. QED  BY <2>3, <2>4
<1>12. /\ LayersInv' /\ LayersStep
       /\ layers' \in [Layers -> LayerType(Layers)]
       /\ \A l \in Layers \ {s} : layers'[l] = layers[l]
  <2>1. LayerInv(SucceededTiming(layers[s]), Ports(s), BlockedAt(s)', Owes(s)')
    BY <1>3, <1>9, <1>10, LayerOf, SucceededTimingInv
  <2>2. LayerStep(s)
    <3>1. layers'[s] = SucceededTiming(layers[s])
      BY <1>1, <1>3, <1>4 DEF TypeOK
    <3>2. m \in Ports(s) \ BlockedAt(s)
      BY <1>3, ZenonT(40) DEF Ports, BlockedAt
    <3>. QED  BY <1>3, <1>9, <1>10, <3>1, <3>2, LayerSucceeds
  <2>. QED
    BY <1>1, <1>3, <1>4, <1>10, <1>11, <2>1, <2>2, OneLayerStep DEF IInv
<1>13. TypeOK'
  <2>1. MemTypeOK'
    BY <1>1, <1>4, <1>5, <1>6, <1>7 DEF MemTypeOK
  <2>. QED  BY <1>1, <1>2, <1>4, <1>12, <2>1 DEF TypeOK
<1>14. \A l \in Layers : layers'[l].state # "RETRY"
  BY <1>8, <1>12, SMTT(60)
<1>15. HandlerInv' /\ RetryInv'
  BY <1>4, <1>14, ZenonT(60) DEF IInv, HandlerInv, RetryInv, Layers
<1>16. MasterInv'
  BY <1>1, <1>2, <1>3, <1>4 DEF IInv, MasterInv, TypeOK
<1>17. RequestInv'
  BY <1>4 DEF IInv, RequestInv, RequestOK
<1>18. ResponseInv'
  <2>1. \A q \in Packets \ {p} : where'[q] = where[q]
    BY <1>1, <1>4 DEF TypeOK
  <2>2. where'[p] = "idle"
    BY <1>1, <1>2, <1>4 DEF TypeOK
  <2>3. ASSUME NEW n \in Mems
        PROVE  /\ Elems(responseQueue'[n]) = Elems(responseQueue[n]) \ {p}
               /\ Distinct(responseQueue'[n])
               /\ responseQueue'[n] # << >> => respondEvent'[n] \/ retryResp'[n]
               /\ retryResp'[n] => responseQueue'[n] # << >>
    <3>1. CASE n = m
      <4>1. /\ responseQueue'[n] = Tail(responseQueue[n])
            /\ ~retryResp'[n]
            /\ Tail(responseQueue[n]) # << >> => respondEvent'[n]
        BY <1>5, <1>7, <3>1
      <4>2. /\ Distinct(Tail(responseQueue[n]))
            /\ Elems(Tail(responseQueue[n])) = Elems(responseQueue[n]) \ {p}
        BY <1>2, <3>1
      <4>. QED  BY <4>1, <4>2, Zenon
    <3>2. CASE n # m
      <4>1. p \notin Elems(responseQueue[n])
        BY <1>3, <3>2 DEF IInv, ResponseInv
      <4>2. /\ Distinct(responseQueue[n])
            /\ responseQueue[n] # << >> => respondEvent[n] \/ retryResp[n]
            /\ retryResp[n] => responseQueue[n] # << >>
        BY DEF IInv, ResponseInv
      <4>. QED  BY <1>5, <1>7, <3>2, <4>1, <4>2
    <3>. QED  BY <3>1, <3>2
  <2>4. ASSUME NEW n \in Mems, NEW q \in Elems(responseQueue'[n])
        PROVE  /\ PktMem[q] = n
               /\ where'[q] = "sent"
               /\ ~(IsRead(q) /\ q \in m_request_map'[n])
    <3>1. q \in Packets /\ q # p /\ q \in Elems(responseQueue[n])
      <4>1. Elems(responseQueue'[n]) = Elems(responseQueue[n]) \ {p}
        BY <2>3
      <4>2. q \in Elems(responseQueue[n]) \ {p}
        BY <2>4, <4>1, Zenon
      <4>3. Elems(responseQueue[n]) \subseteq Packets
        BY <1>1 DEF Elems, MemTypeOK
      <4>. QED  BY <4>2, <4>3
    <3>. QED  BY <1>4, <2>1, <3>1 DEF IInv, ResponseInv
  <2>5. ASSUME NEW n \in Mems, NEW q \in m_request_map'[n], IsRead(q)
        PROVE  where'[q] = "sent"
    <3>1. q \in Packets /\ q \in m_request_map[n] /\ PktMem[q] = n
      BY <1>1, <1>4, <2>5 DEF MemTypeOK, IInv, RequestInv, RequestOK
    <3>2. q # p
      BY <1>3, <2>5, <3>1
    <3>. QED  BY <2>1, <2>5, <3>1, <3>2 DEF IInv, ResponseInv
  <2>6. ASSUME NEW q \in Packets, where'[q] = "sent"
        PROVE  \/ q \in Elems(responseQueue'[PktMem[q]])
               \/ IsRead(q) /\ q \in m_request_map'[PktMem[q]]
    <3>1. q # p /\ where[q] = "sent" /\ PktMem[q] \in Mems
      BY <2>1, <2>2, <2>6
    <3>2. \/ q \in Elems(responseQueue[PktMem[q]])
          \/ IsRead(q) /\ q \in m_request_map[PktMem[q]]
      BY <3>1 DEF IInv, ResponseInv
    <3>3. Elems(responseQueue'[PktMem[q]]) = Elems(responseQueue[PktMem[q]]) \ {p}
      BY <2>3, <3>1
    <3>4. m_request_map'[PktMem[q]] = m_request_map[PktMem[q]]
      BY <1>4
    <3>. QED  BY <3>1, <3>2, <3>3, <3>4, Zenon
  <2>. QED  BY <2>3, <2>4, <2>5, <2>6 DEF ResponseInv
<1>19. DrainedInv'
  BY <1>4 DEF DrainedInv
<1>. QED
  BY <1>12, <1>13, <1>15, <1>16, <1>17, <1>18, <1>19 DEF IInv

(* A response layer tells a memory to retry. *)
LEMMA MemRecvRetryStep ==
  ASSUME IInv, NEW s \in Srcs, MemRecvRetry(s)
  PROVE  IInv' /\ LayersStep
<1>. DEFINE m == layers[s].retrying
<1>1. s \in Layers /\ s \notin Mems /\ TypeOK /\ MemTypeOK
  BY PortAssumption DEF Layers, IInv, TypeOK
<1>2. layers[s].state = "RETRY" /\ m \in Mems
  BY <1>1, LayerOf DEF MemRecvRetry, Ports
<1>3. /\ retryResp[m]
      /\ responseQueue[m] # << >>
      /\ PktSrc[Head(responseQueue[m])] = s
  BY <1>2 DEF IInv, RetryInv, ResponseInv
<1>4. /\ \A l \in Layers \ {s} : layers[l].state # "RETRY"
      /\ phase # "drained"
  BY <1>1, <1>2 DEF IInv, HandlerInv, DrainedInv
<1>5. /\ DeliverResp(m, [retryResp EXCEPT ![m] = FALSE], respondEvent)
      /\ respondEvent \in [Mems -> BOOLEAN]
  BY <1>1 DEF MemRecvRetry, MemTypeOK
<1>6. PICK n \in Mems : n = m
  BY <1>2
<1>7. PICK p \in Packets : p = Head(responseQueue[n])
  BY <1>1, <1>3, <1>6 DEF MemTypeOK
<1>. QED  BY <1>2, <1>3, <1>4, <1>5, <1>6, <1>7, DeliverStep

-----------------------------------------------------------------------------
(* A step of a memory that neither meets the crossbar nor the masters. *)
LEMMA MemoryStep ==
  ASSUME IInv, phase # "drained",
         UNCHANGED <<layers, where, blockedPkt, mode, phase,
                     retryRead, retryWrite, retryResp>>,
         MemTypeOK', ticking' \in Mems \cup {NoPort},
         \A n \in Mems :
           /\ retryResp[n] => Head(responseQueue'[n]) = Head(responseQueue[n])
           /\ m_request_map'[n] \subseteq m_request_map[n],
         HandlerInv', RequestInv', ResponseInv'
  PROVE  IInv' /\ LayersStep
<1>. USE PortAssumption, MemAssumption
<1>1. TypeOK'
  BY DEF IInv, TypeOK
<1>2. LayersInv' /\ LayersStep
  <2>1. \A l \in Layers : BlockedAt(l)' = BlockedAt(l)
    BY DEF BlockedAt
  <2>2. \A l \in Layers : Owes(l)' = Owes(l)
    BY DEF Owes
  <2>. QED  BY <2>1, <2>2, NoLayerStep DEF IInv
<1>3. MasterInv'
  BY DEF IInv, MasterInv
<1>4. RetryInv'
  <2>1. ASSUME NEW s \in Srcs, layers[s].state = "RETRY"
        PROVE  layers[s].retrying \in Mems
    BY <2>1, LayerOf DEF Ports, Layers
  <2>. QED  BY <2>1 DEF IInv, RetryInv
<1>5. DrainedInv'
  BY DEF DrainedInv
<1>. QED  BY <1>1, <1>2, <1>3, <1>4, <1>5 DEF IInv

(* ResponseInv does not see the clock, the queues of NVMain or its retries. *)
LEMMA ResponsesSame ==
  ASSUME IInv, UNCHANGED <<responseQueue, respondEvent, retryResp,
                           m_request_map, where>>
  PROVE  ResponseInv'
  BY DEF IInv, ResponseInv

(* The beginning and the end of a tick. *)
LEMMA TickBeginsStep ==
  ASSUME IInv, NEW m \in Mems, TickBegins(m)
  PROVE  IInv' /\ LayersStep
<1>. USE PortAssumption
<1>1. /\ Quiet /\ ticking' = m
      /\ clockEvent' = [clockEvent EXCEPT ![m] = FALSE]
      /\ UNCHANGED <<retryRead, retryWrite, retryResp, responseQueue,
                     respondEvent, m_awake, m_request_map, transactionQueue,
                     drainManager, completing, pc>>
      /\ UNCHANGED <<layers, where, blockedPkt, mode, phase>>
  BY DEF TickBegins, TickStarts
<1>2. MemTypeOK'
  BY <1>1 DEF IInv, TypeOK, MemTypeOK
<1>3. \A n \in Mems \ {m} : clockEvent'[n] = clockEvent[n]
  BY <1>1 DEF IInv, TypeOK, MemTypeOK
<1>4. HandlerInv'
  BY <1>1 DEF IInv, HandlerInv, Quiet, Layers
<1>5. RequestInv'
  BY <1>1, <1>3 DEF IInv, RequestInv, RequestOK, Quiet, Layers
<1>. QED
  BY <1>1, <1>2, <1>4, <1>5, ResponsesSame, MemoryStep DEF Quiet

(* The tick returns and schedules the next one. *)
LEMMA TickReturnsStep ==
  ASSUME IInv, NEW m \in Mems, TickReturns(m)
  PROVE  IInv' /\ LayersStep
<1>. USE PortAssumption
<1>. DEFINE c == m_awake[m] \/ m_request_map[m] # {}
<1>1. /\ ticking = m /\ ticking' = NoPort /\ pc[m] = "none"
      /\ clockEvent' = [clockEvent EXCEPT ![m] = c]
      /\ c \in BOOLEAN
      /\ UNCHANGED <<retryRead, retryWrite, retryResp, responseQueue,
                     respondEvent, m_awake, m_request_map, transactionQueue,
                     drainManager, completing, pc>>
      /\ UNCHANGED <<layers, where, blockedPkt, mode, phase>>
  BY DEF TickReturns, TickEnds
<1>2. m_awake[m] \/ m_request_map[m] # {} => c
  OBVIOUS
<1>. HIDE DEF c
<1>3. MemTypeOK'
  BY <1>1 DEF IInv, TypeOK, MemTypeOK
<1>4. /\ clockEvent'[m] = c
      /\ \A n \in Mems \ {m} : clockEvent'[n] = clockEvent[n]
  BY <1>1 DEF IInv, TypeOK, MemTypeOK
<1>5. phase # "drained"
  BY <1>1 DEF IInv, DrainedInv, Layers
<1>6. HandlerInv'
  BY <1>1 DEF IInv, HandlerInv
<1>7. RequestInv'
  BY <1>1, <1>2, <1>4 DEF IInv, RequestInv, RequestOK, Layers
<1>. QED
  BY <1>1, <1>3, <1>5, <1>6, <1>7, ResponsesSame, MemoryStep

(* NVMain takes a request out of its queue. *)
LEMMA TickDispatchesStep ==
  ASSUME IInv, NEW m \in Mems, TickDispatches(m)
  PROVE  IInv' /\ LayersStep
<1>. USE PortAssumption
<1>1. PICK p \in transactionQueue[m] :
        transactionQueue' = [transactionQueue EXCEPT ![m] = @ \ {p}]
  BY DEF TickDispatches, Dispatch
<1>2. /\ ticking = m /\ pc[m] = "none"
      /\ UNCHANGED <<retryRead, retryWrite, retryResp, responseQueue,
                     respondEvent, clockEvent, m_awake, m_request_map,
                     drainManager, completing, pc>>
      /\ UNCHANGED <<layers, where, blockedPkt, ticking, mode, phase>>
  BY DEF TickDispatches, Dispatch, sysVars
<1>3. /\ MemTypeOK'
      /\ transactionQueue'[m] = transactionQueue[m] \ {p}
      /\ \A n \in Mems \ {m} : transactionQueue'[n] = transactionQueue[n]
  BY <1>1, <1>2 DEF IInv, TypeOK, MemTypeOK
<1>4. phase # "drained"
  BY <1>2 DEF IInv, DrainedInv, Layers
<1>5. HandlerInv'
  BY <1>2, <1>3 DEF IInv, HandlerInv
<1>6. RequestInv'
  <2>1. SUFFICES ASSUME NEW n \in Mems
                 PROVE  RequestOK(n)'
    BY DEF RequestInv
  <2>2. RequestOK(n)
    BY DEF IInv, RequestInv
  <2>3. CASE n = m
    BY <1>2, <1>3, <2>2, <2>3 DEF RequestOK
  <2>4. CASE n # m
    BY <1>2, <1>3, <2>2, <2>4 DEF RequestOK
  <2>. QED  BY <2>3, <2>4
<1>7. ticking' \in Mems \cup {NoPort}
  BY <1>2
<1>. QED
  BY <1>2, <1>3, <1>4, <1>5, <1>6, <1>7, ResponsesSame, MemoryStep

(* RequestComplete() begins. *)
LEMMA TickCompletesStep ==
  ASSUME IInv, NEW m \in Mems, TickCompletes(m)
  PROVE  IInv' /\ LayersStep
<1>. USE PortAssumption
<1>1. PICK p \in m_request_map[m] \ transactionQueue[m] :
        completing' = [completing EXCEPT ![m] = p]
  BY DEF TickCompletes, CompleteStarts
<1>2. /\ ticking = m /\ pc[m] = "none"
      /\ pc' = [pc EXCEPT ![m] = "retryRead"]
      /\ UNCHANGED <<retryRead, retryWrite, retryResp, responseQueue,
                     respondEvent, clockEvent, m_awake, m_request_map,
                     transactionQueue, drainManager>>
      /\ UNCHANGED <<layers, where, blockedPkt, ticking, mode, phase>>
  BY DEF TickCompletes, CompleteStarts, sysVars
<1>3. /\ MemTypeOK'
      /\ completing'[m] = p
      /\ pc'[m] = "retryRead"
      /\ \A n \in Mems \ {m} : completing'[n] = completing[n] /\ pc'[n] = pc[n]
  BY <1>1, <1>2 DEF IInv, TypeOK, MemTypeOK
<1>4. phase # "drained" /\ ticking' \in Mems \cup {NoPort}
  BY <1>2 DEF IInv, DrainedInv, Layers
<1>5. HandlerInv'
  BY <1>1, <1>2, <1>3 DEF IInv, HandlerInv
<1>6. RequestInv'
  <2>1. SUFFICES ASSUME NEW n \in Mems
                 PROVE  RequestOK(n)'
    BY DEF RequestInv
  <2>2. RequestOK(n)
    BY DEF IInv, RequestInv
  <2>. QED  BY <1>2, <1>3, <2>2 DEF RequestOK
<1>. QED
  BY <1>2, <1>3, <1>4, <1>5, <1>6, ResponsesSame, MemoryStep

(* RequestComplete() ends: a read is answered. *)
LEMMA TickFinishesStep ==
  ASSUME IInv, NEW m \in Mems, TickFinishes(m)
  PROVE  IInv' /\ LayersStep
<1>. USE PortAssumption
<1>1. /\ ticking = m /\ pc[m] = "finish"
      /\ TypeOK /\ MemTypeOK
  BY DEF TickFinishes, CompleteEnds, IInv, TypeOK
<1>2. PICK p \in m_request_map[m] \ transactionQueue[m] : p = completing[m]
  BY <1>1 DEF IInv, HandlerInv
<1>3. /\ m_request_map' = [m_request_map EXCEPT ![m] = @ \ {p}]
      /\ completing' = [completing EXCEPT ![m] = NoPkt]
      /\ pc' = [pc EXCEPT ![m] = "none"]
      /\ UNCHANGED <<retryRead, retryWrite, retryResp, clockEvent, m_awake,
                     transactionQueue>>
      /\ UNCHANGED <<layers, where, blockedPkt, ticking, mode, phase>>
      /\ IF IsRead(p)
         THEN QueueResponse(m, p) /\ UNCHANGED drainManager
         ELSE /\ drainManager' = [drainManager EXCEPT
                                    ![m] = CheckDrainState(m, m_request_map[m])]
              /\ UNCHANGED <<responseQueue, respondEvent>>
  BY <1>2 DEF TickFinishes, CompleteEnds, sysVars
<1>4. p \in Packets /\ PktMem[p] = m
  BY <1>1, <1>2 DEF MemTypeOK, IInv, RequestInv, RequestOK
<1>5. /\ m_request_map' \in [Mems -> SUBSET Packets]
      /\ completing' \in [Mems -> Packets \cup {NoPkt}]
      /\ pc' \in [Mems -> {"none", "retryRead", "retryWrite", "finish"}]
      /\ m_request_map'[m] = m_request_map[m] \ {p}
      /\ pc'[m] = "none"
      /\ \A n \in Mems \ {m} : /\ m_request_map'[n] = m_request_map[n]
                               /\ completing'[n] = completing[n]
                               /\ pc'[n] = pc[n]
  BY <1>1, <1>3 DEF MemTypeOK
<1>6. drainManager' \in [Mems -> BOOLEAN]
  <2>. DEFINE d == CheckDrainState(m, m_request_map[m])
  <2>1. d \in BOOLEAN
    BY DEF CheckDrainState
  <2>2. drainManager' = drainManager \/ drainManager' = [drainManager EXCEPT ![m] = d]
    BY <1>3
  <2>. HIDE DEF d
  <2>. QED  BY <1>1, <2>1, <2>2 DEF MemTypeOK
<1>7. /\ responseQueue' \in [Mems -> Seq(Packets)]
      /\ respondEvent' \in [Mems -> BOOLEAN]
      /\ \A n \in Mems :
           IF n = m /\ IsRead(p)
           THEN responseQueue'[n] = Append(responseQueue[n], p) /\ respondEvent'[n]
           ELSE /\ responseQueue'[n] = responseQueue[n]
                /\ respondEvent'[n] = respondEvent[n]
  <2>1. CASE IsRead(p)
    <3>1. Append(responseQueue[m], p) \in Seq(Packets)
      BY <1>1, <1>4 DEF MemTypeOK
    <3>2. /\ responseQueue' = [responseQueue EXCEPT ![m] = Append(responseQueue[m], p)]
          /\ respondEvent' = [respondEvent EXCEPT ![m] = TRUE]
      BY <1>3, <2>1 DEF QueueResponse
    <3>. QED  BY <1>1, <2>1, <3>1, <3>2 DEF MemTypeOK
  <2>2. CASE ~IsRead(p)
    BY <1>1, <1>3, <2>2 DEF MemTypeOK
  <2>. QED  BY <2>1, <2>2
<1>8. MemTypeOK'
  BY <1>1, <1>3, <1>5, <1>6, <1>7 DEF MemTypeOK
<1>9. ASSUME NEW n \in Mems
      PROVE  /\ responseQueue[n] \in Seq(Packets)
             /\ Elems(responseQueue'[n]) =
                  Elems(responseQueue[n]) \cup
                    (IF n = m /\ IsRead(p) THEN {p} ELSE {})
             /\ Distinct(responseQueue'[n])
             /\ responseQueue[n] # << >> =>
                  /\ responseQueue'[n] # << >>
                  /\ Head(responseQueue'[n]) = Head(responseQueue[n])
  <2>1. /\ responseQueue[n] \in Seq(Packets)
        /\ Distinct(responseQueue[n])
        /\ IsRead(p) => p \notin Elems(responseQueue[n])
    BY <1>1, <1>2, <1>4 DEF MemTypeOK, IInv, ResponseInv
  <2>2. CASE n = m /\ IsRead(p)
    <3>1. /\ Append(responseQueue[n], p) # << >>
          /\ Elems(Append(responseQueue[n], p)) = Elems(responseQueue[n]) \cup {p}
          /\ Distinct(Append(responseQueue[n], p))
      BY <1>4, <2>1, <2>2, AppendFacts
    <3>2. responseQueue[n] # << >> =>
            Head(Append(responseQueue[n], p)) = Head(responseQueue[n])
      BY <1>4, <2>1, HeadAppend
    <3>. QED  BY <1>7, <2>1, <2>2, <3>1, <3>2
  <2>3. CASE ~(n = m /\ IsRead(p))
    BY <1>7, <2>1, <2>3
  <2>. QED  BY <2>1, <2>2, <2>3
<1>10. HandlerInv'
  BY <1>3, <1>5 DEF IInv, HandlerInv
<1>11. RequestInv'
  <2>1. SUFFICES ASSUME NEW n \in Mems
                 PROVE  RequestOK(n)'
    BY DEF RequestInv
  <2>2. RequestOK(n)
    BY DEF IInv, RequestInv
  <2>3. CASE n = m
    BY <1>1, <1>2, <1>3, <1>5, <2>2, <2>3 DEF RequestOK
  <2>4. CASE n # m
    BY <1>3, <1>5, <2>2, <2>4 DEF RequestOK
  <2>. QED  BY <2>3, <2>4
<1>12. ResponseInv'
  <2>1. ASSUME NEW n \in Mems
        PROVE  /\ responseQueue'[n] # << >> => respondEvent'[n] \/ retryResp'[n]
               /\ retryResp'[n] => responseQueue'[n] # << >>
    <3>1. /\ responseQueue[n] # << >> => respondEvent[n] \/ retryResp[n]
          /\ retryResp[n] => responseQueue[n] # << >>
      BY DEF IInv, ResponseInv
    <3>. QED  BY <1>3, <1>7, <1>9, <3>1
  <2>2. ASSUME NEW n \in Mems, NEW q \in Elems(responseQueue'[n])
        PROVE  /\ PktMem[q] = n
               /\ where'[q] = "sent"
               /\ ~(IsRead(q) /\ q \in m_request_map'[n])
    <3>1. CASE q \in Elems(responseQueue[n])
      BY <1>3, <1>5, <3>1 DEF IInv, ResponseInv
    <3>2. CASE q \notin Elems(responseQueue[n])
      <4>1. q = p /\ n = m /\ IsRead(p)
        BY <1>9, <2>2, <3>2
      <4>. QED  BY <1>2, <1>3, <1>4, <1>5, <4>1 DEF IInv, ResponseInv
    <3>. QED  BY <3>1, <3>2
  <2>3. ASSUME NEW n \in Mems, NEW q \in m_request_map'[n], IsRead(q)
        PROVE  where'[q] = "sent"
    BY <1>3, <1>5, <2>3 DEF IInv, ResponseInv
  <2>4. ASSUME NEW q \in Packets, where'[q] = "sent"
        PROVE  \/ q \in Elems(responseQueue'[PktMem[q]])
               \/ IsRead(q) /\ q \in m_request_map'[PktMem[q]]
    <3>1. /\ \/ q \in Elems(responseQueue[PktMem[q]])
             \/ IsRead(q) /\ q \in m_request_map[PktMem[q]]
          /\ PktMem[q] \in Mems
      BY <1>3, <2>4 DEF IInv, ResponseInv
    <3>2. CASE q = p
      BY <1>4, <1>9, <3>1, <3>2
    <3>3. CASE q # p
      <4>1. /\ q \in m_request_map[PktMem[q]] => q \in m_request_map'[PktMem[q]]
            /\ Elems(responseQueue[PktMem[q]]) \subseteq
                 Elems(responseQueue'[PktMem[q]])
        BY <1>5, <1>9, <3>1, <3>3, ZenonT(60)
      <4>. QED  BY <3>1, <4>1
    <3>. QED  BY <3>2, <3>3
  <2>. QED  BY <1>9, <2>1, <2>2, <2>3, <2>4 DEF ResponseInv
<1>13. phase # "drained" /\ ticking' \in Mems \cup {NoPort}
  BY <1>1, <1>3 DEF IInv, DrainedInv, Layers
<1>14. \A n \in Mems :
         /\ retryResp[n] => Head(responseQueue'[n]) = Head(responseQueue[n])
         /\ m_request_map'[n] \subseteq m_request_map[n]
  BY <1>5, <1>9 DEF IInv, ResponseInv
<1>. QED
  BY <1>3, <1>8, <1>10, <1>11, <1>12, <1>13, <1>14, MemoryStep

(* The memory calls port.sendRetry() for the retry it owes, or owes none.  *)
(* The pc moves on and the flag that was tested is cleared.                *)
LEMMA RetrySent ==
  ASSUME IInv, NEW m \in Mems, ticking = m, layers[m].state # "RETRY",
         pc[m] # "none", NEW owed \in BOOLEAN,
         owed => Owes(m) /\ ~retryRead'[m] /\ ~retryWrite'[m],
         ~owed => UNCHANGED <<retryRead, retryWrite>>,
         SendRetry(m, owed),
         retryRead' \in [Mems -> BOOLEAN], retryWrite' \in [Mems -> BOOLEAN],
         pc' \in [Mems -> {"none", "retryRead", "retryWrite", "finish"}],
         \A n \in Mems \ {m} : /\ retryRead'[n] = retryRead[n]
                               /\ retryWrite'[n] = retryWrite[n]
                               /\ pc'[n] = pc[n],
         UNCHANGED <<retryResp, responseQueue, respondEvent, clockEvent,
                     m_awake, m_request_map, transactionQueue, drainManager,
                     completing, where, blockedPkt, ticking, mode, phase>>,
         RequestInv'
  PROVE  IInv' /\ LayersStep
<1>. DEFINE K == RecvRetry(layers[m])
<1>. USE PortAssumption, MemAssumption
<1>1. /\ m \in Layers /\ m \notin Srcs
      /\ TypeOK /\ MemTypeOK
      /\ layers[m].retrying = NoPort
      /\ phase # "drained"
      /\ \A l \in Layers : layers[l].state # "RETRY"
      /\ NoPort \notin Srcs
  <2>1. m \in Layers /\ m # NoPort
    BY DEF Layers
  <2>2. \A l \in Layers : layers[l].state # "RETRY"
    BY <2>1 DEF IInv, HandlerInv
  <2>. QED  BY <2>1, <2>2, LayerOf DEF IInv, TypeOK, DrainedInv, Layers
<1>2. TypeOK' /\ LayersInv' /\ LayersStep /\ RetryInv' /\ HandlerInv'
  <2>1. MemTypeOK'
    BY <1>1 DEF MemTypeOK
  <2>2. CASE ~owed
    <3>1. layers' = layers
      BY <2>2 DEF SendRetry
    <3>2. TypeOK'
      BY <1>1, <2>1, <3>1 DEF TypeOK
    <3>3. \A l \in Layers : BlockedAt(l)' = BlockedAt(l) /\ Owes(l)' = Owes(l)
      BY <2>2, <3>1 DEF BlockedAt, Owes
    <3>4. LayersInv' /\ LayersStep
      BY <3>1, <3>3, NoLayerStep DEF IInv
    <3>5. RetryInv' /\ HandlerInv'
      BY <1>1, <3>1 DEF IInv, RetryInv, HandlerInv, Layers
    <3>. QED  BY <3>2, <3>4, <3>5
  <2>3. CASE owed
    <3>1. /\ LayerInv(layers[m], Ports(m), BlockedAt(m), TRUE)
          /\ NoPort \notin Ports(m)
      <4>1. Owes(m) = TRUE
        BY <2>3 DEF Owes
      <4>. QED  BY <1>1, <4>1, LayerOf, PortFacts
    <3>2. LayerInv(K, Ports(m), BlockedAt(m) \ {K.retrying}, FALSE)
      BY <1>1, <3>1, RecvRetryInv
    <3>3. /\ layers' = [layers EXCEPT ![m] = K]
          /\ layers'[m] = K
          /\ \A l \in Layers \ {m} : layers'[l] = layers[l]
      BY <1>1, <2>3 DEF SendRetry, TypeOK
    <3>4. BlockedAt(m)' = BlockedAt(m) \ {K.retrying}
      BY <1>1, <3>3 DEF BlockedAt
    <3>5. Owes(m)' = FALSE
      BY <2>3 DEF Owes
    <3>6. \A l \in Layers \ {m} : BlockedAt(l)' = BlockedAt(l) /\ Owes(l)' = Owes(l)
      BY <3>3 DEF BlockedAt, Owes
    <3>7. K.state = "RETRY" => K.retrying \in BlockedAt(m)
      <4>1. /\ layers[m].waitingForPeer \in Ports(m)
            /\ layers[m].waitingForLayer \in Seq(Ports(m))
            /\ layers[m].state \in {"IDLE", "BUSY"}
            /\ layers[m].waitingForPeer \in BlockedAt(m)
        BY <1>1, <3>1 DEF LayerInv, LayerType, Registered
      <4>2. K.state = "RETRY" =>
              K.retrying = Head(<<layers[m].waitingForPeer>> \o
                                  layers[m].waitingForLayer)
        BY <3>1, <4>1 DEF RecvRetry, RetryWaiting, LayerInv, LayerType
      <4>3. Head(<<layers[m].waitingForPeer>> \o layers[m].waitingForLayer) =
              layers[m].waitingForPeer
        BY <4>1, ConsFacts
      <4>. QED  BY <4>1, <4>2, <4>3
    <3>. HIDE DEF K
    <3>8. LayersInv' /\ LayersStep /\ layers' \in [Layers -> LayerType(Layers)]
      <4>1. LayerInv(K, Ports(m), BlockedAt(m)', Owes(m)')
        BY <3>2, <3>4, <3>5
      <4>2. LayerStep(m)
        BY <1>1, <2>3, <3>3, <3>4, <3>5, LayerRetried DEF K
      <4>. QED  BY <1>1, <3>3, <3>6, <4>1, <4>2, OneLayerStep DEF IInv
    <3>9. TypeOK'
      BY <1>1, <2>1, <3>8 DEF TypeOK
    <3>10. HandlerInv'
      BY <1>1, <3>3 DEF IInv, HandlerInv
    <3>11. RetryInv'
      <4>1. ASSUME layers'[m].state = "RETRY"
            PROVE  /\ blockedPkt[layers'[m].retrying] # NoPkt
                   /\ PktMem[blockedPkt[layers'[m].retrying]] = m
        BY <3>3, <3>7, <4>1 DEF BlockedAt
      <4>. QED  BY <1>1, <3>3, <4>1 DEF RetryInv, Layers
    <3>. QED  BY <3>8, <3>9, <3>10, <3>11
  <2>. QED  BY <2>2, <2>3
<1>3. MasterInv'
  BY DEF IInv, MasterInv
<1>4. ResponseInv'
  BY ResponsesSame
<1>5. DrainedInv'
  BY <1>1 DEF DrainedInv
<1>. QED  BY <1>2, <1>3, <1>4, <1>5 DEF IInv

(* The tick retries a read ... *)
LEMMA TickRetriesReadStep ==
  ASSUME IInv, NEW m \in Mems, TickRetriesRead(m)
  PROVE  IInv' /\ LayersStep
<1>1. /\ ticking = m /\ layers[m].state # "RETRY"
      /\ pc[m] = "retryRead"
      /\ retryRead' = [retryRead EXCEPT ![m] = FALSE]
      /\ pc' = [pc EXCEPT ![m] = "retryWrite"]
      /\ UNCHANGED <<retryWrite, retryResp, responseQueue, respondEvent,
                     clockEvent, m_awake, m_request_map, transactionQueue,
                     drainManager, completing>>
      /\ SendRetry(m, retryRead[m])
      /\ UNCHANGED <<where, blockedPkt, ticking, mode, phase>>
      /\ MemTypeOK
  BY DEF TickRetriesRead, ClearRetryRead, IInv, TypeOK
<1>2. /\ retryRead' \in [Mems -> BOOLEAN]
      /\ retryWrite' \in [Mems -> BOOLEAN]
      /\ pc' \in [Mems -> {"none", "retryRead", "retryWrite", "finish"}]
      /\ ~retryRead'[m] /\ pc'[m] = "retryWrite"
      /\ \A n \in Mems \ {m} : retryRead'[n] = retryRead[n] /\ pc'[n] = pc[n]
  BY <1>1 DEF MemTypeOK
<1>3. RequestInv'
  <2>1. SUFFICES ASSUME NEW n \in Mems
                 PROVE  RequestOK(n)'
    BY DEF RequestInv
  <2>2. RequestOK(n)
    BY DEF IInv, RequestInv
  <2>. QED  BY <1>1, <1>2, <2>2 DEF RequestOK
<1>4. PICK owed \in BOOLEAN : owed = retryRead[m]
  BY <1>1 DEF MemTypeOK
<1>5. owed => Owes(m) /\ ~retryRead'[m] /\ ~retryWrite'[m]
  BY <1>1, <1>2, <1>4 DEF Owes, IInv, RequestInv, RequestOK
<1>6. ~owed => UNCHANGED <<retryRead, retryWrite>>
  BY <1>1, <1>4 DEF MemTypeOK
<1>7. SendRetry(m, owed)
  BY <1>1, <1>4
<1>. QED
  BY <1>1, <1>2, <1>3, <1>5, <1>6, <1>7, RetrySent, ZenonT(60)

(* ... or a write. *)
LEMMA TickRetriesWriteStep ==
  ASSUME IInv, NEW m \in Mems, TickRetriesWrite(m)
  PROVE  IInv' /\ LayersStep
<1>1. /\ ticking = m /\ layers[m].state # "RETRY"
      /\ pc[m] = "retryWrite"
      /\ retryWrite' = [retryWrite EXCEPT ![m] = FALSE]
      /\ pc' = [pc EXCEPT ![m] = "finish"]
      /\ UNCHANGED <<retryRead, retryResp, responseQueue, respondEvent,
                     clockEvent, m_awake, m_request_map, transactionQueue,
                     drainManager, completing>>
      /\ SendRetry(m, retryWrite[m])
      /\ UNCHANGED <<where, blockedPkt, ticking, mode, phase>>
      /\ MemTypeOK
  BY DEF TickRetriesWrite, ClearRetryWrite, IInv, TypeOK
<1>2. /\ retryRead' \in [Mems -> BOOLEAN]
      /\ retryWrite' \in [Mems -> BOOLEAN]
      /\ pc' \in [Mems -> {"none", "retryRead", "retryWrite", "finish"}]
      /\ ~retryWrite'[m] /\ pc'[m] = "finish"
      /\ \A n \in Mems \ {m} : retryWrite'[n] = retryWrite[n] /\ pc'[n] = pc[n]
  BY <1>1 DEF MemTypeOK
<1>3. RequestInv'
  <2>1. SUFFICES ASSUME NEW n \in Mems
                 PROVE  RequestOK(n)'
    BY DEF RequestInv
  <2>2. RequestOK(n)
    BY DEF IInv, RequestInv
  <2>. QED  BY <1>1, <1>2, <2>2 DEF RequestOK
<1>4. PICK owed \in BOOLEAN : owed = retryWrite[m]
  BY <1>1 DEF MemTypeOK
<1>5. owed => Owes(m) /\ ~retryRead'[m] /\ ~retryWrite'[m]
  BY <1>1, <1>2, <1>4 DEF Owes, IInv, RequestInv, RequestOK
<1>6. ~owed => UNCHANGED <<retryRead, retryWrite>>
  BY <1>1, <1>4 DEF MemTypeOK
<1>7. SendRetry(m, owed)
  BY <1>1, <1>4
<1>. QED
  BY <1>1, <1>2, <1>3, <1>5, <1>6, <1>7, RetrySent

(* respondEvent fires. *)
LEMMA SendResponsesStep ==
  ASSUME IInv, NEW m \in Mems, SendResponses(m)
  PROVE  IInv' /\ LayersStep
<1>. DEFINE event == [respondEvent EXCEPT ![m] = FALSE]
<1>. USE PortAssumption, MemAssumption
<1>1. /\ Quiet
      /\ TypeOK /\ MemTypeOK
      /\ event \in [Mems -> BOOLEAN]
      /\ \A n \in Mems \ {m} : event[n] = respondEvent[n]
      /\ ticking = NoPort /\ phase # "drained"
      /\ m \notin Srcs /\ m # NoPort /\ NoPort \notin Mems
  BY DEF SendResponses, Quiet, IInv, TypeOK, MemTypeOK, Layers
<1>2. CASE responseQueue[m] = << >> \/ retryResp[m]
  <2>1. /\ respondEvent' = event
        /\ UNCHANGED <<retryRead, retryWrite, retryResp, responseQueue,
                       clockEvent, m_awake, m_request_map, transactionQueue,
                       drainManager, completing, pc>>
        /\ UNCHANGED <<layers, where, blockedPkt, ticking, mode, phase>>
    BY <1>2 DEF SendResponses, sysVars
  <2>2. MemTypeOK' /\ ticking' \in Mems \cup {NoPort}
    BY <1>1, <2>1 DEF MemTypeOK
  <2>3. HandlerInv' /\ RequestInv'
    BY <2>1 DEF IInv, HandlerInv, RequestInv, RequestOK
  <2>4. ResponseInv'
    BY <1>1, <1>2, <2>1 DEF IInv, ResponseInv
  <2>. QED  BY <1>1, <2>1, <2>2, <2>3, <2>4, MemoryStep
<1>3. CASE ~(responseQueue[m] = << >> \/ retryResp[m])
  <2>1. PICK p \in Packets : p = Head(responseQueue[m])
    BY <1>1, <1>3 DEF MemTypeOK
  <2>2. PICK s \in Srcs : s = PktSrc[p]
    OBVIOUS
  <2>3. /\ s \in Layers /\ s \notin Mems
        /\ layers[s].state # "RETRY"
        /\ layers[s].retrying = NoPort
        /\ \A l \in Layers : layers[l].state # "RETRY"
    BY <1>1, LayerOf DEF Layers, Quiet
  <2>4. CASE ~Taken(layers[s])
    <3>1. DeliverResp(m, retryResp, event)
      BY <1>3, <2>1, <2>2, <2>4 DEF SendResponses
    <3>2. retryResp = [retryResp EXCEPT ![m] = FALSE]
      BY <1>1, <1>3 DEF MemTypeOK
    <3>. HIDE DEF event
    <3>. QED
      BY <1>1, <1>3, <2>1, <2>2, <2>3, <2>4, <3>1, <3>2, DeliverStep
  <2>5. CASE Taken(layers[s])
    <3>1. /\ respondEvent' = event
          /\ retryResp' = [retryResp EXCEPT ![m] = TRUE]
          /\ layers' = [layers EXCEPT ![s] = PutInLine(layers[s], m)]
          /\ UNCHANGED <<retryRead, retryWrite, responseQueue, clockEvent,
                         m_awake, m_request_map, transactionQueue,
                         drainManager, completing, pc, where, blockedPkt,
                         ticking, mode, phase>>
      BY <1>3, <2>1, <2>2, <2>5 DEF SendResponses
    <3>2. /\ layers'[s].retrying = NoPort
          /\ layers'[s].state # "RETRY"
      BY <1>1, <2>3, <3>1, LayerOf DEF TypeOK, PutInLine, LayerType
    <3>3. /\ MemTypeOK'
          /\ retryResp'[m]
          /\ \A n \in Mems \ {m} : retryResp'[n] = retryResp[n]
      BY <1>1, <3>1 DEF MemTypeOK
    <3>4. BlockedAt(s)' = BlockedAt(s) \cup {m}
      <4>1. ASSUME NEW n \in Mems
            PROVE  n \in BlockedAt(s)' <=> n \in BlockedAt(s) \cup {m}
        <5>1. n \in BlockedAt(s)' <=> retryResp'[n] /\ PktSrc[Head(responseQueue[n])] = s
          BY <1>1, <2>3, <3>1, <3>2 DEF BlockedAt
        <5>2. n \in BlockedAt(s) <=> retryResp[n] /\ PktSrc[Head(responseQueue[n])] = s
          BY <1>1, <2>3 DEF BlockedAt
        <5>. QED  BY <2>1, <2>2, <3>3, <5>1, <5>2
      <4>2. BlockedAt(s)' \subseteq Mems /\ BlockedAt(s) \subseteq Mems
        BY <2>3 DEF BlockedAt
      <4>. QED  BY <4>1, <4>2
    <3>5. \A l \in Layers : Owes(l)' = Owes(l)
      BY <3>1 DEF Owes
    <3>6. \A l \in Layers \ {s} : BlockedAt(l)' = BlockedAt(l)
      <4>1. SUFFICES ASSUME NEW l \in Layers \ {s}
                     PROVE  BlockedAt(l)' = BlockedAt(l)
        OBVIOUS
      <4>2. layers'[l] = layers[l]
        BY <1>1, <2>3, <3>1 DEF TypeOK
      <4>3. CASE l \in Mems
        BY <3>1, <4>2, <4>3 DEF BlockedAt
      <4>4. CASE l \notin Mems
        BY <1>3, <2>1, <2>2, <3>1, <3>3, <4>2, <4>4 DEF BlockedAt
      <4>. QED  BY <4>3, <4>4
    <3>7. m \notin BlockedAt(s)
      BY <1>3, <2>3 DEF BlockedAt
    <3>8. LayerInv(PutInLine(layers[s], m), Ports(s), BlockedAt(s)', Owes(s)')
      <4>1. /\ LayerInv(layers[s], Ports(s), BlockedAt(s), Owes(s))
            /\ NoPort \notin Ports(s)
            /\ m \in Ports(s) \ BlockedAt(s)
        BY <2>3, <3>7, LayerOf, PortFacts DEF Ports
      <4>2. LayerInv(PutInLine(layers[s], m), Ports(s), BlockedAt(s) \cup {m}, Owes(s))
        BY <2>3, <2>5, <4>1, PutInLineInv
      <4>. QED  BY <2>3, <3>4, <3>5, <4>2
    <3>9. /\ LayersInv' /\ LayersStep
          /\ layers' \in [Layers -> LayerType(Layers)]
          /\ \A l \in Layers \ {s} : layers'[l] = layers[l]
      <4>1. LayersInv
        BY DEF IInv
      <4>2. \A l \in Layers \ {s} : /\ BlockedAt(l)' = BlockedAt(l)
                                   /\ Owes(l)' = Owes(l)
        BY <3>5, <3>6
      <4>3. layers' = [layers EXCEPT ![s] = PutInLine(layers[s], m)]
        BY <3>1
      <4>4. LayerStep(s)
        <5>1. layers'[s] = PutInLine(layers[s], m) /\ m \in Ports(s) \ BlockedAt(s)
          BY <1>1, <2>3, <3>1, <3>7 DEF TypeOK, Ports
        <5>. QED  BY <2>3, <2>5, <3>4, <3>5, <5>1, LayerPutsInLine
      <4>. QED
        BY <1>1, <2>3, <3>8, <4>1, <4>2, <4>3, <4>4, OneLayerStep
    <3>10. TypeOK'
      BY <1>1, <3>1, <3>3, <3>9 DEF TypeOK
    <3>11. \A l \in Layers : layers'[l].state # "RETRY"
      BY <2>3, <3>2, <3>9
    <3>12. HandlerInv' /\ RetryInv'
      BY <3>1, <3>11 DEF IInv, HandlerInv, RetryInv, Layers
    <3>13. MasterInv' /\ RequestInv'
      BY <3>1 DEF IInv, MasterInv, RequestInv, RequestOK
    <3>14. ResponseInv'
      <4>1. \A n \in Mems :
              /\ responseQueue'[n] # << >> => respondEvent'[n] \/ retryResp'[n]
              /\ retryResp'[n] => responseQueue'[n] # << >>
        BY <1>1, <1>3, <3>1, <3>3 DEF IInv, ResponseInv
      <4>. QED  BY <3>1, <4>1 DEF IInv, ResponseInv
    <3>15. DrainedInv'
      BY <1>1, <3>1 DEF DrainedInv
    <3>. QED
      BY <3>9, <3>10, <3>12, <3>13, <3>14, <3>15 DEF IInv
  <2>. QED  BY <2>4, <2>5
<1>. QED  BY <1>2, <1>3

(* Every drain() of m5.drain(). *)
LEMMA DrainStep ==
  ASSUME IInv, Drain
  PROVE  IInv' /\ LayersStep
<1>. USE PortAssumption, MemAssumption
<1>1. /\ Quiet
      /\ TypeOK /\ MemTypeOK
      /\ drainManager' = [m \in Mems |-> NeedsDrain(m)]
      /\ layers' = [l \in Layers |-> DrainLayer(layers[l])]
      /\ phase' = IF /\ MastersIdle
                     /\ \A m \in Mems : ~drainManager'[m]
                     /\ \A l \in Layers : ~layers'[l].drainManager
                  THEN "drained" ELSE "draining"
      /\ UNCHANGED <<retryRead, retryWrite, retryResp, responseQueue,
                     respondEvent, clockEvent, m_awake, m_request_map,
                     transactionQueue, completing, pc, where, blockedPkt,
                     ticking, mode>>
  BY DEF Drain, IInv, TypeOK
<1>2. \A l \in Layers : layers'[l] = DrainLayer(layers[l])
  BY <1>1
<1>3. \A l \in Layers : /\ layers'[l].state = layers[l].state
                        /\ layers'[l].retrying = layers[l].retrying
  <2>1. ASSUME NEW P, NEW L \in LayerType(P)
        PROVE  DrainLayer(L).state = L.state /\ DrainLayer(L).retrying = L.retrying
    BY DEF DrainLayer, LayerType
  <2>2. \A l \in Layers : layers[l] \in LayerType(Ports(l))
    BY LayerOf
  <2>. HIDE PortAssumption, MemAssumption
  <2>. QED  BY <1>2, <2>1, <2>2
<1>4. \A l \in Layers : BlockedAt(l)' = BlockedAt(l) /\ Owes(l)' = Owes(l)
  BY <1>1, <1>3 DEF BlockedAt, Owes
<1>5. ASSUME NEW l \in Layers
      PROVE  LayerInv(layers'[l], Ports(l), BlockedAt(l)', Owes(l)')
  <2>1. LayerInv(DrainLayer(layers[l]), Ports(l), BlockedAt(l), Owes(l))
    BY LayerOf, DrainLayerInv
  <2>. QED  BY <1>2, <1>4, <2>1
<1>6. LayersInv' /\ LayersStep
  <2>1. \A l \in Layers : LayerStep(l)
    BY <1>1, <1>2, <1>4, LayerDrains DEF Quiet
  <2>. QED  BY <1>5, <2>1 DEF LayersInv, LayersStep
<1>7. layers' \in [Layers -> LayerType(Layers)]
  <2>1. \A l \in Layers : DrainLayer(layers[l]) \in LayerType(Layers)
    <3>1. SUFFICES ASSUME NEW l \in Layers
                   PROVE  layers'[l] \in LayerType(Layers)
      BY <1>2
    <3>2. layers'[l] \in LayerType(Ports(l))
      BY <1>5 DEF LayerInv
    <3>. QED  BY <3>2, LayerTypeMonotone, PortFacts
  <2>. QED  BY <1>1, <2>1
<1>8. drainManager' \in [Mems -> BOOLEAN]
  BY <1>1 DEF NeedsDrain
<1>9. TypeOK'
  BY <1>1, <1>7, <1>8 DEF TypeOK, MemTypeOK
<1>10. HandlerInv' /\ RetryInv'
  <2>1. \A l \in Layers : layers'[l].state # "RETRY"
    BY <1>1, <1>3 DEF Quiet
  <2>. QED
    BY <1>1, <2>1 DEF IInv, HandlerInv, RetryInv, Layers
<1>11. MasterInv' /\ RequestInv'
  BY <1>1 DEF IInv, MasterInv, RequestInv, RequestOK
<1>12. ResponseInv'
  BY <1>1, ResponsesSame
<1>13. DrainedInv'
  <2>1. SUFFICES ASSUME phase' = "drained"
                 PROVE  /\ ticking' = NoPort
                        /\ \A l \in Layers : layers'[l].state # "RETRY"
                        /\ MastersIdle'
                        /\ \A m \in Mems : m_request_map'[m] = {}
    BY DEF DrainedInv
  <2>2. MastersIdle /\ \A m \in Mems : ~drainManager'[m]
    BY <1>1, <2>1
  <2>3. \A m \in Mems : m_request_map[m] = {}
    BY <1>1, <2>2 DEF NeedsDrain
  <2>. QED  BY <1>1, <1>3, <2>2, <2>3 DEF Quiet, MastersIdle
<1>. QED
  BY <1>6, <1>9, <1>10, <1>11, <1>12, <1>13 DEF IInv

(* A drained system resumes. *)
LEMMA ResumeStep ==
  ASSUME IInv, Resume
  PROVE  IInv' /\ LayersStep
<1>1. /\ phase' = "run"
      /\ mode' \in {"timing", "atomic"}
      /\ UNCHANGED <<memVars, layers, where, blockedPkt, ticking>>
      /\ UNCHANGED memVars
  BY DEF Resume
<1>2. LayersInv' /\ LayersStep
  <2>1. \A l \in Layers : BlockedAt(l)' = BlockedAt(l) /\ Owes(l)' = Owes(l)
    BY <1>1 DEF BlockedAt, Owes, memVars
  <2>. QED  BY <1>1, <2>1, NoLayerStep DEF IInv
<1>3. TypeOK'
  BY <1>1 DEF IInv, TypeOK, MemTypeOK, memVars
<1>4. HandlerInv' /\ RetryInv' /\ MasterInv'
  BY <1>1 DEF IInv, HandlerInv, RetryInv, MasterInv, memVars
<1>5. RequestInv' /\ ResponseInv'
  BY <1>1 DEF IInv, RequestInv, RequestOK, ResponseInv, memVars
<1>6. DrainedInv'
  BY <1>1 DEF DrainedInv
<1>. QED  BY <1>2, <1>3, <1>4, <1>5, <1>6 DEF IInv

(* An access in atomic mode. *)
LEMMA AtomicAccessStep ==
  ASSUME IInv, NEW m \in Mems, AtomicAccess(m)
  PROVE  IInv' /\ LayersStep
<1>1. /\ Quiet
      /\ m_awake' = [m_awake EXCEPT ![m] = FALSE]
      /\ UNCHANGED <<retryRead, retryWrite, retryResp, responseQueue,
                     respondEvent, clockEvent, m_request_map,
                     transactionQueue, drainManager, completing, pc>>
      /\ UNCHANGED <<layers, where, blockedPkt, ticking, mode, phase>>
  BY DEF AtomicAccess, RecvAtomic, sysVars
<1>2. /\ MemTypeOK'
      /\ \A n \in Mems : m_awake'[n] => m_awake[n]
      /\ ticking' \in Mems \cup {NoPort}
  BY <1>1 DEF IInv, TypeOK, MemTypeOK
<1>3. HandlerInv'
  BY <1>1 DEF IInv, HandlerInv
<1>4. RequestInv'
  BY <1>1, <1>2 DEF IInv, RequestInv, RequestOK
<1>. QED
  BY <1>1, <1>2, <1>3, <1>4, ResponsesSame, MemoryStep DEF Quiet

(* Nothing happens. *)
LEMMA StutterStep ==
  ASSUME IInv, UNCHANGED vars
  PROVE  IInv' /\ LayersStep
<1>1. /\ UNCHANGED memVars
      /\ UNCHANGED <<layers, where, blockedPkt, ticking, mode, phase>>
  BY DEF vars, sysVars
<1>2. LayersInv' /\ LayersStep
  <2>1. \A l \in Layers : BlockedAt(l)' = BlockedAt(l) /\ Owes(l)' = Owes(l)
    BY <1>1 DEF BlockedAt, Owes, memVars
  <2>. QED  BY <1>1, <2>1, NoLayerStep DEF IInv
<1>3. TypeOK'
  BY <1>1 DEF IInv, TypeOK, MemTypeOK, memVars
<1>4. HandlerInv' /\ RetryInv' /\ MasterInv'
  BY <1>1 DEF IInv, HandlerInv, RetryInv, MasterInv, memVars
<1>5. RequestInv' /\ ResponseInv'
  BY <1>1 DEF IInv, RequestInv, RequestOK, ResponseInv, memVars
<1>6. DrainedInv'
  BY <1>1 DEF IInv, DrainedInv, MastersIdle, memVars
<1>. QED  BY <1>2, <1>3, <1>4, <1>5, <1>6 DEF IInv

-----------------------------------------------------------------------------
(* The invariant holds at the start. *)
LEMMA InitInv ==
  ASSUME Init
  PROVE  IInv
<1>. USE PortAssumption, MemAssumption
<1>1. \A l \in Layers : layers[l] = NewLayer
  BY DEF Init
<1>2. /\ NewLayer.state = "IDLE"
      /\ NewLayer.retrying = NoPort
      /\ NewLayer.waitingForPeer = NoPort
  BY DEF NewLayer
<1>3. \A l \in Layers : BlockedAt(l) = {} /\ Owes(l) = FALSE
  BY DEF Init, InitMem, BlockedAt, Owes, Layers
<1>4. LayersInv
  BY <1>1, <1>3, NewLayerInv DEF LayersInv
<1>5. layers \in [Layers -> LayerType(Layers)]
  <2>1. NewLayer \in LayerType(Layers)
    BY NewLayerInv DEF LayerInv
  <2>. QED  BY <2>1 DEF Init
<1>6. TypeOK
  BY <1>5 DEF Init, InitMem, TypeOK, MemTypeOK
<1>7. << >> \in Seq(Packets) /\ Elems(<< >>) = {} /\ Distinct(<< >>)
  BY DEF Elems, Distinct
<1>8. HandlerInv /\ RetryInv /\ MasterInv
  BY <1>1, <1>2 DEF Init, InitMem, HandlerInv, RetryInv, MasterInv, Layers
<1>9. RequestInv /\ ResponseInv
  BY <1>7 DEF Init, InitMem, RequestInv, RequestOK, ResponseInv
<1>10. DrainedInv
  BY DEF Init, DrainedInv
<1>. QED  BY <1>4, <1>6, <1>8, <1>9, <1>10 DEF IInv

(* Every step keeps the invariant. *)
LEMMA StepInv ==
  ASSUME IInv, [Next]_vars
  PROVE  IInv' /\ LayersStep
<1>1. ASSUME NEW p \in Packets, MasterSends(p)
      PROVE  IInv' /\ LayersStep
  BY <1>1, MasterSendsStep
<1>2. ASSUME NEW m \in Mems, MasterResends(m) \/ MasterDefers(m)
      PROVE  IInv' /\ LayersStep
  BY <1>2, MasterResendsStep, MasterDefersStep
<1>3. ASSUME NEW l \in Layers, Release(l)
      PROVE  IInv' /\ LayersStep
  BY <1>3, ReleaseStep
<1>4. ASSUME NEW m \in Mems, SendResponses(m)
      PROVE  IInv' /\ LayersStep
  BY <1>4, SendResponsesStep
<1>5. ASSUME NEW s \in Srcs, MemRecvRetry(s)
      PROVE  IInv' /\ LayersStep
  BY <1>5, MemRecvRetryStep
<1>6. ASSUME NEW m \in Mems, Tick(m)
      PROVE  IInv' /\ LayersStep
  BY <1>6, TickBeginsStep, TickDispatchesStep, TickCompletesStep,
     TickRetriesReadStep, TickRetriesWriteStep, TickFinishesStep,
     TickReturnsStep DEF Tick
<1>7. ASSUME NEW m \in Mems, AtomicAccess(m)
      PROVE  IInv' /\ LayersStep
  BY <1>7, AtomicAccessStep
<1>. QED
  BY <1>1, <1>2, <1>3, <1>4, <1>5, <1>6, <1>7, DrainStep, ResumeStep,
     StutterStep DEF Next

(* IInv holds in every reachable state. *)
THEOREM HybridInvariant == Spec => []IInv
<1>1. Init => IInv
  BY InitInv
<1>2. IInv /\ [Next]_vars => IInv'
  BY StepInv
<1>. QED  BY <1>1, <1>2, PTL DEF Spec

(* The variables keep their types: no handler stores a NULL packet. *)
THEOREM HybridTypes == Spec => []TypeOK
<1>1. IInv => TypeOK
  BY DEF IInv
<1>. QED  BY <1>1, HybridInvariant, PTL

(* A memory owes a retry exactly when its request layer waits for one, so  *)
(* no sendRetry() hits the assertion of Layer::recvRetry().                *)
THEOREM HybridRetryMatches == Spec => []RetryMatchesLayer
<1>1. ASSUME IInv
      PROVE  RetryMatchesLayer
  BY <1>1, LayerOf DEF RetryMatchesLayer, Owes, Layers
<1>. QED  BY <1>1, HybridInvariant, PTL

(* A memory that owes a retry has a request whose completion sends it. *)
THEOREM HybridRetryCaused == Spec => []RetryHasCause
<1>1. IInv => RetryHasCause
  BY DEF IInv, RequestInv, RequestOK, RetryHasCause
<1>. QED  BY <1>1, HybridInvariant, PTL

(* Outstanding requests have a clock. *)
THEOREM HybridClockRuns == Spec => []ClockRuns
<1>1. IInv => ClockRuns
  BY DEF IInv, RequestInv, RequestOK, ClockRuns
<1>. QED  BY <1>1, HybridInvariant, PTL

(* A queued response has an event that will send it. *)
THEOREM HybridResponseSent == Spec => []ResponseHasSender
<1>1. ASSUME IInv
      PROVE  ResponseHasSender
  <2>1. SUFFICES ASSUME NEW m \in Mems, retryResp[m]
                 PROVE  LET L == layers[PktSrc[Head(responseQueue[m])]] IN
                          \/ L.state = "RETRY" /\ L.retrying = m
                          \/ \E i \in 1..Len(L.waitingForLayer) :
                               L.waitingForLayer[i] = m
    BY <1>1 DEF ResponseHasSender, IInv, ResponseInv
  <2>2. PICK s \in Srcs : s = PktSrc[Head(responseQueue[m])]
    BY <1>1, <2>1, PortAssumption DEF IInv, TypeOK, MemTypeOK, ResponseInv
  <2>3. s \in Layers /\ s \notin Mems /\ m # NoPort
    BY PortAssumption DEF Layers
  <2>4. CASE layers[s].retrying = m
    BY <1>1, <2>2, <2>3, <2>4, LayerOf
  <2>5. CASE layers[s].retrying # m
    <3>1. m \in BlockedAt(s)
      BY <2>1, <2>2, <2>3, <2>5 DEF BlockedAt
    <3>2. /\ BlockedAt(s) = Registered(layers[s])
          /\ layers[s].waitingForPeer = NoPort
      BY <1>1, <2>3, LayerOf DEF LayerInv, Owes
    <3>3. m \in Elems(layers[s].waitingForLayer)
      BY <2>3, <3>1, <3>2 DEF Registered
    <3>. QED  BY <2>2, <3>3 DEF Elems
  <2>. QED  BY <2>4, <2>5
<1>. QED  BY <1>1, HybridInvariant, PTL

(* A packet that needs a response is held in one place until it gets it. *)
THEOREM HybridOneResponse == Spec => []OneResponse
<1>1. ASSUME IInv
      PROVE  OneResponse
  <2>. USE PortAssumption
  <2>1. SUFFICES ASSUME NEW p \in Packets
                 PROVE  Cardinality(Holders(p)) =
                          IF where[p] = "sent" THEN 1 ELSE 0
    BY DEF OneResponse
  <2>. DEFINE M == PktMem[p]
              q == responseQueue[M]
  <2>2. /\ M \in Mems
        /\ \A n \in Mems \ {M} : /\ p \notin m_request_map[n]
                                 /\ p \notin Elems(responseQueue[n])
        /\ Distinct(q)
        /\ p \in Elems(q) => ~(IsRead(p) /\ p \in m_request_map[M])
        /\ where[p] = "sent" <=>
             p \in Elems(q) \/ (IsRead(p) /\ p \in m_request_map[M])
    <3>1. /\ M \in Mems
          /\ Distinct(q)
          /\ p \in Elems(q) => ~(IsRead(p) /\ p \in m_request_map[M])
          /\ p \in Elems(q) => where[p] = "sent"
          /\ IsRead(p) /\ p \in m_request_map[M] => where[p] = "sent"
      <4>1. PICK n \in Mems : n = M
        OBVIOUS
      <4>2. /\ Distinct(responseQueue[n])
            /\ \A x \in Elems(responseQueue[n]) :
                 where[x] = "sent" /\ ~(IsRead(x) /\ x \in m_request_map[n])
            /\ \A x \in m_request_map[n] : IsRead(x) => where[x] = "sent"
        BY <1>1 DEF IInv, ResponseInv
      <4>. QED  BY <4>1, <4>2
    <3>2. where[p] = "sent" =>
            p \in Elems(q) \/ (IsRead(p) /\ p \in m_request_map[M])
      BY <1>1 DEF IInv, ResponseInv
    <3>3. ASSUME NEW n \in Mems \ {M}
          PROVE  p \notin m_request_map[n] /\ p \notin Elems(responseQueue[n])
      BY <1>1 DEF IInv, ResponseInv, RequestInv, RequestOK
    <3>. QED  BY <3>1, <3>2, <3>3
  <2>3. CASE p \in Elems(q)
    <3>1. PICK i \in 1..Len(q) : q[i] = p
      BY <2>3 DEF Elems
    <3>2. \A n \in Mems : \A j \in 1..Len(responseQueue[n]) :
            responseQueue[n][j] = p <=> n = M /\ j = i
      <4>1. SUFFICES ASSUME NEW n \in Mems, NEW j \in 1..Len(responseQueue[n])
                     PROVE  responseQueue[n][j] = p <=> n = M /\ j = i
        OBVIOUS
      <4>2. CASE n = M
        BY <2>2, <3>1, <4>2 DEF Distinct
      <4>3. CASE n # M
        BY <2>2, <4>3 DEF Elems
      <4>. QED  BY <4>2, <4>3
    <3>3. \A n \in Mems : ~(IsRead(p) /\ p \in m_request_map[n])
      BY <2>2, <2>3
    <3>4. Holders(p) = {<<M, i>>}
      BY <2>2, <3>1, <3>2, <3>3 DEF Holders
    <3>5. Cardinality({<<M, i>>}) = 1
      BY FS_Singleton
    <3>6. where[p] = "sent"
      BY <2>2, <2>3
    <3>. HIDE DEF M
    <3>. QED  BY <3>4, <3>5, <3>6
  <2>4. CASE p \notin Elems(q)
    <3>1. \A n \in Mems : \A j \in 1..Len(responseQueue[n]) :
            responseQueue[n][j] # p
      BY <2>2, <2>4 DEF Elems
    <3>2. CASE IsRead(p) /\ p \in m_request_map[M]
      <4>1. Holders(p) = {<<M, "map">>}
        BY <2>2, <3>1, <3>2 DEF Holders
      <4>2. Cardinality({<<M, "map">>}) = 1
        BY FS_Singleton
      <4>. QED  BY <2>2, <3>2, <4>1, <4>2
    <3>3. CASE ~(IsRead(p) /\ p \in m_request_map[M])
      <4>1. Holders(p) = {}
        BY <2>2, <3>1, <3>3 DEF Holders
      <4>. QED  BY <2>2, <2>4, <3>3, <4>1, FS_EmptySet
    <3>. QED  BY <3>2, <3>3
  <2>. QED  BY <2>3, <2>4
<1>. QED  BY <1>1, HybridInvariant, PTL

(* A drained system is at rest. *)
THEOREM HybridDrainedAtRest == Spec => []DrainedAtRest
<1>1. ASSUME IInv
      PROVE  DrainedAtRest
  <2>. USE PortAssumption, MemAssumption
  <2>1. SUFFICES ASSUME phase = "drained"
                 PROVE  /\ \A m \in Mems :
                             /\ m_request_map[m] = {}
                             /\ responseQueue[m] = << >>
                             /\ ~retryRead[m] /\ ~retryWrite[m] /\ ~retryResp[m]
                        /\ \A l \in Layers :
                             /\ layers[l].waitingForLayer = << >>
                             /\ layers[l].waitingForPeer = NoPort
    BY DEF DrainedAtRest
  <2>2. /\ MastersIdle
        /\ \A m \in Mems : m_request_map[m] = {}
        /\ TypeOK /\ MemTypeOK
    BY <1>1, <2>1 DEF IInv, DrainedInv, TypeOK
  <2>3. ASSUME NEW m \in Mems
        PROVE  /\ responseQueue[m] = << >>
               /\ ~retryRead[m] /\ ~retryWrite[m] /\ ~retryResp[m]
    <3>1. responseQueue[m] = << >>
      <4>1. SUFFICES ASSUME responseQueue[m] # << >>
                     PROVE  FALSE
        OBVIOUS
      <4>2. responseQueue[m] \in Seq(Packets)
        BY <2>2 DEF MemTypeOK
      <4>3. /\ Head(responseQueue[m]) \in Packets
            /\ Head(responseQueue[m]) \in Elems(responseQueue[m])
        BY <4>1, <4>2, TailFacts
      <4>. QED  BY <1>1, <2>2, <4>3 DEF IInv, ResponseInv, MastersIdle
    <3>2. ~retryRead[m] /\ ~retryWrite[m]
      BY <1>1, <2>2 DEF IInv, RequestInv, RequestOK
    <3>3. ~retryResp[m]
      BY <1>1, <3>1 DEF IInv, ResponseInv
    <3>. QED  BY <3>1, <3>2, <3>3
  <2>4. ASSUME NEW l \in Layers
        PROVE  /\ layers[l].waitingForLayer = << >>
               /\ layers[l].waitingForPeer = NoPort
    <3>1. BlockedAt(l) = {}
      BY <1>1, <2>2, <2>3 DEF BlockedAt, IInv, MasterInv, MastersIdle, TypeOK
    <3>2. /\ Registered(layers[l]) = {}
          /\ layers[l].waitingForLayer \in Seq(Ports(l))
      BY <1>1, <3>1, LayerOf DEF LayerInv, LayerType
    <3>3. layers[l].waitingForPeer = NoPort /\ Elems(layers[l].waitingForLayer) = {}
      BY <3>2 DEF Registered
    <3>4. layers[l].waitingForLayer = << >>
      <4>1. SUFFICES ASSUME layers[l].waitingForLayer # << >>
                     PROVE  FALSE
        OBVIOUS
      <4>2. Head(layers[l].waitingForLayer) \in Elems(layers[l].waitingForLayer)
        BY <3>2, <4>1, TailFacts
      <4>. QED  BY <3>3, <4>2
    <3>. QED  BY <3>3, <3>4
  <2>. QED  BY <2>2, <2>3, <2>4
<1>. QED  BY <1>1, HybridInvariant, PTL

(* Every layer of the two crossbars behaves as XBarLayer says: what the    *)
(* ports and the memory objects do to a layer is one of its operations, or *)
(* leaves it and the ports that wait for it alone.  So the theorems of     *)
(* XBarLayerProofs hold of the layers of the whole system.                 *)
THEOREM HybridLayersImplement == Spec => LayersImplement
<1>1. Init => \A l \in Layers : Lyr(l)!Init
  BY PortAssumption, MemAssumption
     DEF Init, Lyr!Init, BlockedAt, InitMem, NewLayer, Lyr!NewLayer, Layers
<1>2. IInv /\ [Next]_vars
        => [\A l \in Layers : [Lyr(l)!Next]_(Lyr(l)!vars)]_vars
  BY StepInv DEF LayersStep, LayerStep
<1>. QED  BY <1>1, <1>2, HybridInvariant, PTL DEF Spec, LayersImplement
=============================================================================
