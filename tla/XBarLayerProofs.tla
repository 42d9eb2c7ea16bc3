-------------------------- MODULE XBarLayerProofs --------------------------
(***************************************************************************)
(* The invariants of XBarLayer hold for every set of ports.  They are      *)
(* inductive together (LayerInv of LayerFacts): which ports are blocked    *)
(* follows from the two waiting lists only while no port is in both, and a *)
(* port can only be put in line once because it is blocked while it is     *)
(* there.                                                                  *)
(***************************************************************************)
EXTENDS XBarLayer, LayerFacts

Inv ==
  /\ TypeOK
  /\ NoForgottenPort
  /\ WaitsOnce
  /\ NoLostWakeup
  /\ RetryIsExpected

-----------------------------------------------------------------------------
(* The invariants together are LayerInv of the layer. *)
LEMMA InvIsLayerInv == Inv <=> LayerInv(layer, Ports, blocked, peerOwes)
<1>1. ASSUME LayerInv(layer, Ports, blocked, peerOwes)
      PROVE  blocked \subseteq Ports
  <2>1. layer \in LayerType(Ports)
    BY <1>1 DEF LayerInv
  <2>. QED  BY <1>1, <2>1, LayerFields DEF LayerInv, Registered
<1>. QED
  BY <1>1 DEF Inv, LayerInv, TypeOK, NoForgottenPort, WaitsOnce, NoLostWakeup,
              RetryIsExpected

(* A port passed on to the destination, accepted or refused. *)
LEMMA ForwardInv ==
  ASSUME LayerInv(layer, Ports, blocked, peerOwes), NEW s \in Ports \ blocked,
         layer.waitingForPeer = NoPort, Forward(s)
  PROVE  LayerInv(layer', Ports, blocked', peerOwes')
<1>1. CASE /\ layer' = SucceededTiming(layer)
           /\ UNCHANGED <<blocked, peerOwes>>
  BY <1>1, SucceededTimingInv
<1>2. CASE /\ layer' = FailedTiming(layer, s)
           /\ blocked' = blocked \cup {s}
           /\ peerOwes' = TRUE
  BY <1>2, FailedTimingInv, PortsAssumption
<1>. QED  BY <1>1, <1>2 DEF Forward

(* Every step preserves the invariants. *)
LEMMA StepInv ==
  ASSUME LayerInv(layer, Ports, blocked, peerOwes), [Next]_vars
  PROVE  LayerInv(layer', Ports, blocked', peerOwes')
<1>. USE PortsAssumption
<1>1. ASSUME NEW s \in Ports, Send(s)
      PROVE  LayerInv(layer', Ports, blocked', peerOwes')
  <2>1. CASE Taken(layer)
    BY <1>1, <2>1, PutInLineInv DEF Send
  <2>2. CASE ~Taken(layer)
    BY <1>1, <2>2, ForwardInv DEF Send, Taken
  <2>. QED  BY <2>1, <2>2
<1>2. CASE Resend
  <2>1. /\ layer.retrying \in Ports \ blocked
        /\ layer.waitingForPeer = NoPort
    BY <1>2 DEF Resend, LayerInv
  <2>. QED  BY <1>2, <2>1, ForwardInv DEF Resend
<1>3. CASE NoResend
  BY <1>3, BurnCycleInv DEF NoResend
<1>4. CASE Release
  BY <1>4, ReleaseLayerInv DEF Release
<1>5. CASE PeerRetry
  <2>1. peerOwes = TRUE
    BY <1>5 DEF PeerRetry, LayerInv
  <2>. QED  BY <1>5, <2>1, RecvRetryInv DEF PeerRetry
<1>6. CASE Drain
  BY <1>6, DrainLayerInv DEF Drain
<1>7. CASE UNCHANGED vars
  BY <1>7 DEF vars
<1>. QED
  BY <1>1, <1>2, <1>3, <1>4, <1>5, <1>6, <1>7 DEF Next

(* The four invariants hold in every reachable state, for any ports. *)
THEOREM LayerInvariant == Spec => []Inv
<1>1. Init => Inv
  BY NewLayerInv, InvIsLayerInv DEF Init
<1>2. Inv /\ [Next]_vars => Inv'
  <2>1. Inv' <=> LayerInv(layer, Ports, blocked, peerOwes)'
    BY InvIsLayerInv, PTL
  <2>. QED  BY <2>1, InvIsLayerInv, StepInv
<1>. QED  BY <1>1, <1>2, PTL DEF Spec

(* The layer forgets no refused port and retries nobody else. *)
THEOREM LayerForgetsNoPort == Spec => []NoForgottenPort
<1>1. Inv => NoForgottenPort
  BY DEF Inv
<1>. QED  BY <1>1, LayerInvariant, PTL

(* Whoever waits for the layer will be woken. *)
THEOREM LayerLosesNoWakeup == Spec => []NoLostWakeup
<1>1. Inv => NoLostWakeup
  BY DEF Inv
<1>. QED  BY <1>1, LayerInvariant, PTL

(* No assertion of recvRetry() fails. *)
THEOREM LayerExpectsRetry == Spec => []RetryIsExpected
<1>1. Inv => RetryIsExpected
  BY DEF Inv
<1>. QED  BY <1>1, LayerInvariant, PTL
=============================================================================
