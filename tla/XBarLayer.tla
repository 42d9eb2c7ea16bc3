----------------------------- MODULE XBarLayer -----------------------------
(***************************************************************************)
(* A single crossbar layer between its source ports and its destination,   *)
(* with the environment the gem5 port protocol allows: a port that was     *)
(* refused sends nothing before its sendRetry(), and a destination that    *)
(* refused a port calls recvRetry() once.                                  *)
(***************************************************************************)
EXTENDS Layer

CONSTANT Ports      \* the source ports of the layer

ASSUME PortsAssumption == NoPort \notin Ports

VARIABLES
  layer,      \* the layer, a record of LayerType
  blocked,    \* the ports refused and not yet told to retry
  peerOwes    \* the destination refused a port and has not called recvRetry()

vars == <<layer, blocked, peerOwes>>

Init ==
  /\ layer = NewLayer
  /\ blocked = {}
  /\ peerOwes = FALSE

(* Port s, which has the layer, is passed on to the destination, which     *)
(* accepts or refuses the packet.                                          *)
Forward(s) ==
  \/ /\ layer' = SucceededTiming(layer)
     /\ UNCHANGED <<blocked, peerOwes>>
  \/ /\ layer' = FailedTiming(layer, s)
     /\ blocked' = blocked \cup {s}
     /\ peerOwes' = TRUE

(* CoherentXBar::recvTimingReq() called by a port out of its own accord. *)
Send(s) ==
  /\ s \notin blocked
  /\ layer.state # "RETRY"
  /\ IF Taken(layer)
     THEN /\ layer' = PutInLine(layer, s)
          /\ blocked' = blocked \cup {s}
          /\ UNCHANGED peerOwes
     ELSE Forward(s)

(* The port told to retry sends from inside its recvRetry() ... *)
Resend ==
  /\ layer.state = "RETRY"
  /\ Forward(layer.retrying)

(* ... or leaves it for later, and the layer burns a cycle. *)
NoResend ==
  /\ layer.state = "RETRY"
  /\ layer' = BurnCycle(layer)
  /\ UNCHANGED <<blocked, peerOwes>>

(* The release event fires. *)
Release ==
  /\ layer.state = "BUSY"
  /\ layer' = ReleaseLayer(layer)
  /\ blocked' = blocked \ {layer'.retrying}
  /\ UNCHANGED peerOwes

(* The destination calls recvRetry(). *)
PeerRetry ==
  /\ peerOwes
  /\ layer.state # "RETRY"
  /\ layer' = RecvRetry(layer)
  /\ blocked' = blocked \ {layer'.retrying}
  /\ peerOwes' = FALSE

(* Layer::drain(), between two events. *)
Drain ==
  /\ layer.state # "RETRY"
  /\ layer' = DrainLayer(layer)
  /\ UNCHANGED <<blocked, peerOwes>>

Next ==
  \/ \E s \in Ports : Send(s)
  \/ Resend
  \/ NoResend
  \/ Release
  \/ PeerRetry
  \/ Drain

Spec == Init /\ [][Next]_vars

-----------------------------------------------------------------------------
(* The layer is a record of its type (the members of BaseXBar::Layer). *)
TypeOK ==
  /\ layer \in LayerType(Ports)
  /\ blocked \subseteq Ports
  /\ peerOwes \in BOOLEAN

(* A refused port is remembered and nobody else is: the layer forgets no   *)
(* port, and never retries one that is not waiting (xbar.cc:160-307).      *)
NoForgottenPort == blocked = Registered(layer)

(* No port waits twice: in the list at most once, and never in the list    *)
(* while it also waits for the destination (the assertion of tryTiming(),  *)
(* xbar.cc:174, and of failedTiming(), xbar.cc:209).                       *)
WaitsOnce ==
  /\ Distinct(layer.waitingForLayer)
  /\ layer.waitingForPeer \notin Elems(layer.waitingForLayer)

(* Whoever waits for the layer has an event to wait for: the release of a  *)
(* busy layer or the retry the destination owes (xbar.cc:225-307).         *)
NoLostWakeup ==
  layer.waitingForLayer # << >> =>
    layer.state \in {"BUSY", "RETRY"} \/ layer.waitingForPeer # NoPort

(* The destination's retry finds the port it was refused for (the          *)
(* assertions of recvRetry(), xbar.cc:290 and 305).                        *)
RetryIsExpected ==
  /\ peerOwes <=> layer.waitingForPeer # NoPort
  /\ layer.state = "RETRY" => /\ layer.waitingForPeer = NoPort
                              /\ layer.retrying \in Ports \ blocked
  /\ layer.state # "RETRY" => layer.retrying = NoPort
=============================================================================
