------------------------------- MODULE Layer -------------------------------
(***************************************************************************)
(* One layer of the gem5 crossbar (BaseXBar::Layer in                      *)
(* gem5-cache/src/mem/xbar.cc) as operations on a record.  A layer owns    *)
(* one destination port and lets one source port at a time use it.  The    *)
(* request layers lead to the memories, the response layers back to the    *)
(* masters.                                                                *)
(*                                                                         *)
(*   state            IDLE, BUSY or RETRY; BUSY between operations means   *)
(*                    that releaseEvent is scheduled                       *)
(*   waitingForLayer  ports refused because the layer was taken            *)
(*   waitingForPeer   the port refused by the destination itself           *)
(*   retrying         the local variable of retryWaiting(): the port that  *)
(*                    has just been told to send again                     *)
(*   drainManager     a drain was asked for and is not signalled yet       *)
(***************************************************************************)
EXTENDS Integers, Sequences

CONSTANT NoPort     \* the NULL port pointer

LayerType(Ports) ==
  [ state           : {"IDLE", "BUSY", "RETRY"},
    waitingForLayer : Seq(Ports),
    waitingForPeer  : Ports \cup {NoPort},
    retrying        : Ports \cup {NoPort},
    drainManager    : BOOLEAN ]

NewLayer ==
  [ state |-> "IDLE", waitingForLayer |-> << >>, waitingForPeer |-> NoPort,
    retrying |-> NoPort, drainManager |-> FALSE ]

(* The test of tryTiming(): the layer, or its destination, is taken. *)
Taken(L) == L.state = "BUSY" \/ L.waitingForPeer # NoPort

(* tryTiming() when the layer is taken: the port joins the waiting list. *)
PutInLine(L, s) == [L EXCEPT !.waitingForLayer = Append(@, s)]

(* tryTiming() takes the layer and succeededTiming() keeps it occupied. *)
SucceededTiming(L) == [L EXCEPT !.state = "BUSY", !.retrying = NoPort]

(* Mutant: the refused port is not remembered. *)
FailedTimingForgets(L, s) == [L EXCEPT !.state = "BUSY", !.retrying = NoPort]

(* tryTiming() takes the layer and the destination then refuses port s. *)
FailedTiming(L, s) ==
  [L EXCEPT !.state = "BUSY", !.retrying = NoPort, !.waitingForPeer = s]

(* retryWaiting() up to the call of sendRetry() on the first waiting port. *)
RetryWaiting(L) ==
  [L EXCEPT !.state = "RETRY", !.retrying = Head(L.waitingForLayer),
            !.waitingForLayer = Tail(@)]

(* retryWaiting() after a sendRetry() the port did not answer at once. *)
BurnCycle(L) == [L EXCEPT !.state = "BUSY", !.retrying = NoPort]

(* Mutant: releasing the layer wakes nobody. *)
ReleaseLayerSilent(L) == [L EXCEPT !.state = "IDLE"]

(* Mutant: a waiting port is retried although the destination is waited for. *)
ReleaseLayerEager(L) ==
  LET I == [L EXCEPT !.state = "IDLE"] IN
  IF L.waitingForLayer # << >> THEN RetryWaiting(I) ELSE I

(* The release event: somebody waiting is retried unless the destination   *)
(* still owes a retry; an unused layer signals its drain.                  *)
ReleaseLayer(L) ==
  LET I == [L EXCEPT !.state = "IDLE"] IN
  CASE L.waitingForLayer # << >> /\ L.waitingForPeer = NoPort -> RetryWaiting(I)
    [] L.waitingForLayer # << >> /\ L.waitingForPeer # NoPort -> I
    [] L.waitingForLayer = << >> /\ L.waitingForPeer = NoPort ->
         [I EXCEPT !.drainManager = FALSE]
    [] OTHER -> I

(* The destination calls recvRetry(): the refused port goes to the front.  *)
RecvRetry(L) ==
  LET W == [L EXCEPT !.waitingForLayer = <<L.waitingForPeer>> \o @,
                     !.waitingForPeer  = NoPort] IN
  IF L.state = "IDLE" THEN RetryWaiting(W) ELSE W

(* drain(): only a layer that is not idle asks for more simulation. *)
DrainLayer(L) == [L EXCEPT !.drainManager = (L.state # "IDLE")]
-----------------------------------------------------------------------------
Elems(q)    == {q[i] : i \in 1..Len(q)}
Distinct(q) == \A i, j \in 1..Len(q) : q[i] = q[j] => i = j

(* The ports the layer remembers as refused. *)
Registered(L) == Elems(L.waitingForLayer) \cup ({L.waitingForPeer} \ {NoPort})
=============================================================================
