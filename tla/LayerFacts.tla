----------------------------- MODULE LayerFacts -----------------------------
(***************************************************************************)
(* What the operations of a crossbar layer (Layer.tla, BaseXBar::Layer)    *)
(* preserve, whatever the ports are and wherever the layer sits.  LayerInv *)
(* is the invariant of a layer as a predicate of its record, its source    *)
(* ports, the ports it has refused and not yet retried, and whether its    *)
(* destination owes a retry.  XBarLayerProofs uses it for one layer,       *)
(* HybridMemoryProofs for every layer of the crossbar.                     *)
(***************************************************************************)
EXTENDS Layer, TLAPS

LayerInv(L, P, B, o) ==
  /\ L \in LayerType(P)
  /\ o \in BOOLEAN
  /\ B = Registered(L)
  /\ Distinct(L.waitingForLayer)
  /\ L.waitingForPeer \notin Elems(L.waitingForLayer)
  /\ L.waitingForLayer # << >> =>
       L.state \in {"BUSY", "RETRY"} \/ L.waitingForPeer # NoPort
  /\ o <=> L.waitingForPeer # NoPort
  /\ L.state = "RETRY" => L.waitingForPeer = NoPort /\ L.retrying \in P \ B
  /\ L.state # "RETRY" => L.retrying = NoPort

-----------------------------------------------------------------------------
(* A sequence that grows at its end (tryTiming()'s push_back). *)
LEMMA AppendFacts ==
  ASSUME NEW S, NEW q \in Seq(S), NEW s \in S
  PROVE  /\ Append(q, s) \in Seq(S)
         /\ Append(q, s) # << >>
         /\ Elems(Append(q, s)) = Elems(q) \cup {s}
         /\ Distinct(q) /\ s \notin Elems(q) => Distinct(Append(q, s))
<1>1. /\ Append(q, s) \in Seq(S)
      /\ Len(Append(q, s)) = Len(q) + 1
      /\ \A i \in 1..Len(q) : Append(q, s)[i] = q[i]
      /\ Append(q, s)[Len(q) + 1] = s
      /\ Len(q) \in Nat
  OBVIOUS
<1>2. Append(q, s) # << >>
  <2>1. Len(<< >>) = 0
    OBVIOUS
  <2>. QED  BY <1>1, <2>1
<1>3. Elems(Append(q, s)) = Elems(q) \cup {s}
  <2>1. ASSUME NEW x \in Elems(Append(q, s))
        PROVE  x \in Elems(q) \cup {s}
    <3>1. PICK i \in 1..Len(Append(q, s)) : x = Append(q, s)[i]
      BY DEF Elems
    <3>2. i \in 1..Len(q) \/ i = Len(q) + 1
      BY <1>1
    <3>. QED  BY <1>1, <3>1, <3>2 DEF Elems
  <2>2. ASSUME NEW x \in Elems(q) \cup {s}
        PROVE  x \in Elems(Append(q, s))
    <3>1. CASE x = s
      <4>1. Len(q) + 1 \in 1..Len(Append(q, s))
        BY <1>1
      <4>. QED  BY <1>1, <3>1, <4>1 DEF Elems
    <3>2. CASE x \in Elems(q)
      <4>1. PICK i \in 1..Len(q) : x = q[i]
        BY <3>2 DEF Elems
      <4>2. i \in 1..Len(Append(q, s)) /\ x = Append(q, s)[i]
        BY <1>1, <4>1
      <4>. QED  BY <4>2 DEF Elems
    <3>. QED  BY <3>1, <3>2
  <2>. QED  BY <2>1, <2>2
<1>4. ASSUME Distinct(q), s \notin Elems(q)
      PROVE  Distinct(Append(q, s))
  <2>1. SUFFICES ASSUME NEW i \in 1..Len(Append(q, s)),
                        NEW j \in 1..Len(Append(q, s)),
                        Append(q, s)[i] = Append(q, s)[j]
                 PROVE  i = j
    BY DEF Distinct
  <2>2. \A k \in 1..Len(q) : q[k] # s
    BY <1>4 DEF Elems
  <2>3. /\ i \in 1..Len(q) \/ i = Len(q) + 1
        /\ j \in 1..Len(q) \/ j = Len(q) + 1
    BY <1>1
  <2>4. CASE i \in 1..Len(q) /\ j \in 1..Len(q)
    BY <1>1, <1>4, <2>1, <2>4 DEF Distinct
  <2>5. CASE i = Len(q) + 1 \/ j = Len(q) + 1
    BY <1>1, <2>1, <2>2, <2>3, <2>5
  <2>. QED  BY <2>3, <2>4, <2>5
<1>. QED  BY <1>1, <1>2, <1>3, <1>4

(* A sequence that loses its head (retryWaiting()'s pop_front). *)
LEMMA TailFacts ==
  ASSUME NEW S, NEW q \in Seq(S), q # << >>
  PROVE  /\ Head(q) \in S
         /\ Tail(q) \in Seq(S)
         /\ Elems(q) = {Head(q)} \cup Elems(Tail(q))
         /\ Distinct(q) => Distinct(Tail(q)) /\ Head(q) \notin Elems(Tail(q))
<1>1. /\ Len(q) \in Nat
      /\ Len(q) > 0
      /\ Head(q) = q[1]
      /\ Head(q) \in S
      /\ Tail(q) \in Seq(S)
      /\ Len(Tail(q)) = Len(q) - 1
      /\ \A i \in 1..Len(Tail(q)) : Tail(q)[i] = q[i + 1]
  OBVIOUS
<1>2. Elems(q) = {Head(q)} \cup Elems(Tail(q))
  <2>1. ASSUME NEW x \in Elems(q)
        PROVE  x \in {Head(q)} \cup Elems(Tail(q))
    <3>1. PICK i \in 1..Len(q) : x = q[i]
      BY DEF Elems
    <3>2. CASE i = 1
      BY <1>1, <3>1, <3>2
    <3>3. CASE i # 1
      <4>1. i - 1 \in 1..Len(Tail(q)) /\ Tail(q)[i - 1] = q[i]
        BY <1>1, <3>3
      <4>. QED  BY <3>1, <4>1 DEF Elems
    <3>. QED  BY <3>2, <3>3
  <2>2. ASSUME NEW x \in {Head(q)} \cup Elems(Tail(q))
        PROVE  x \in Elems(q)
    <3>1. CASE x = Head(q)
      <4>1. 1 \in 1..Len(q)
        BY <1>1
      <4>. QED  BY <1>1, <3>1, <4>1 DEF Elems
    <3>2. CASE x \in Elems(Tail(q))
      <4>1. PICK i \in 1..Len(Tail(q)) : x = Tail(q)[i]
        BY <3>2 DEF Elems
      <4>2. i + 1 \in 1..Len(q) /\ x = q[i + 1]
        BY <1>1, <4>1
      <4>. QED  BY <4>2 DEF Elems
    <3>. QED  BY <3>1, <3>2
  <2>. QED  BY <2>1, <2>2
<1>3. ASSUME Distinct(q)
      PROVE  Distinct(Tail(q)) /\ Head(q) \notin Elems(Tail(q))
  <2>1. \A i \in 1..Len(Tail(q)) : i + 1 \in 1..Len(q)
    BY <1>1
  <2>2. Distinct(Tail(q))
    <3>1. SUFFICES ASSUME NEW i \in 1..Len(Tail(q)), NEW j \in 1..Len(Tail(q)),
                          Tail(q)[i] = Tail(q)[j]
                   PROVE  i = j
      BY DEF Distinct
    <3>2. q[i + 1] = q[j + 1] /\ i + 1 \in 1..Len(q) /\ j + 1 \in 1..Len(q)
      BY <1>1, <2>1, <3>1
    <3>3. i + 1 = j + 1
      BY <1>3, <3>2 DEF Distinct
    <3>. QED  BY <1>1, <3>3
  <2>3. Head(q) \notin Elems(Tail(q))
    <3>1. SUFFICES ASSUME NEW i \in 1..Len(Tail(q)), Head(q) = Tail(q)[i]
                   PROVE  FALSE
      BY DEF Elems
    <3>2. q[1] = q[i + 1] /\ 1 \in 1..Len(q) /\ i + 1 \in 1..Len(q)
      BY <1>1, <2>1, <3>1
    <3>3. 1 = i + 1
      BY <1>3, <3>2 DEF Distinct
    <3>. QED  BY <1>1, <3>3
  <2>. QED  BY <2>2, <2>3
<1>. QED  BY <1>1, <1>2, <1>3

(* A sequence that grows at its front (recvRetry()'s push_front). *)
LEMMA ConsFacts ==
  ASSUME NEW S, NEW q \in Seq(S), NEW s \in S
  PROVE  /\ <<s>> \o q \in Seq(S)
         /\ <<s>> \o q # << >>
         /\ Head(<<s>> \o q) = s
         /\ Tail(<<s>> \o q) = q
         /\ Elems(<<s>> \o q) = {s} \cup Elems(q)
         /\ Distinct(q) /\ s \notin Elems(q) => Distinct(<<s>> \o q)
<1>. DEFINE c == <<s>> \o q
<1>1. /\ c \in Seq(S)
      /\ Len(c) = Len(q) + 1
      /\ c[1] = s
      /\ \A i \in 1..Len(q) : c[i + 1] = q[i]
      /\ Len(q) \in Nat
  OBVIOUS
<1>2. c # << >> /\ Head(c) = s
  BY <1>1
<1>3. Tail(c) = q
  <2>1. /\ Tail(c) \in Seq(S)
        /\ Len(Tail(c)) = Len(q)
        /\ \A i \in 1..Len(q) : Tail(c)[i] = c[i + 1]
    BY <1>1, <1>2
  <2>2. \A i \in 1..Len(q) : Tail(c)[i] = q[i]
    BY <1>1, <2>1
  <2>. QED  BY <2>1, <2>2
<1>4. Elems(c) = {s} \cup Elems(q)
  BY <1>1, <1>2, <1>3, TailFacts
<1>5. ASSUME Distinct(q), s \notin Elems(q)
      PROVE  Distinct(c)
  <2>1. SUFFICES ASSUME NEW i \in 1..Len(c), NEW j \in 1..Len(c), c[i] = c[j]
                 PROVE  i = j
    BY DEF Distinct
  <2>2. \A k \in 1..Len(q) : q[k] # s
    BY <1>5 DEF Elems
  <2>3. \A k \in 1..Len(c) : k = 1 \/ (k - 1 \in 1..Len(q) /\ c[k] = q[k - 1])
    BY <1>1
  <2>4. CASE i = 1 \/ j = 1
    BY <1>1, <2>1, <2>2, <2>3, <2>4
  <2>5. CASE i # 1 /\ j # 1
    <3>1. i - 1 \in 1..Len(q) /\ j - 1 \in 1..Len(q) /\ q[i - 1] = q[j - 1]
      BY <2>1, <2>3, <2>5
    <3>2. i - 1 = j - 1
      BY <1>5, <3>1 DEF Distinct
    <3>. QED  BY <1>1, <3>2
  <2>. QED  BY <2>4, <2>5
<1>. QED  BY <1>1, <1>2, <1>3, <1>4, <1>5
-----------------------------------------------------------------------------
(* The fields of a layer. *)
LEMMA LayerFields ==
  ASSUME NEW P, NEW L \in LayerType(P)
  PROVE  /\ L.state \in {"IDLE", "BUSY", "RETRY"}
         /\ L.waitingForLayer \in Seq(P)
         /\ L.waitingForPeer \in P \cup {NoPort}
         /\ L.retrying \in P \cup {NoPort}
         /\ L.drainManager \in BOOLEAN
         /\ Elems(L.waitingForLayer) \subseteq P
<1>1. /\ L.state \in {"IDLE", "BUSY", "RETRY"}
      /\ L.waitingForLayer \in Seq(P)
      /\ L.waitingForPeer \in P \cup {NoPort}
      /\ L.retrying \in P \cup {NoPort}
      /\ L.drainManager \in BOOLEAN
  BY DEF LayerType
<1>2. Elems(L.waitingForLayer) \subseteq P
  BY <1>1 DEF Elems
<1>. QED  BY <1>1, <1>2

(* The layer the constructor makes. *)
LEMMA NewLayerInv ==
  ASSUME NEW P
  PROVE  LayerInv(NewLayer, P, {}, FALSE)
<1>1. << >> \in Seq(P) /\ Elems(<< >>) = {} /\ Distinct(<< >>)
  BY DEF Elems, Distinct
<1>. QED  BY <1>1 DEF LayerInv, NewLayer, LayerType, Registered

(* tryTiming() refuses a port that is not waiting yet. *)
LEMMA PutInLineInv ==
  ASSUME NEW P, NoPort \notin P, NEW L, NEW B, NEW o, LayerInv(L, P, B, o),
         NEW s \in P \ B, L.state # "RETRY", Taken(L)
  PROVE  LayerInv(PutInLine(L, s), P, B \cup {s}, o)
<1>. DEFINE wfl == L.waitingForLayer
            M   == PutInLine(L, s)
<1>1. L \in LayerType(P) /\ wfl \in Seq(P)
  BY LayerFields DEF LayerInv
<1>2. /\ Append(wfl, s) \in Seq(P)
      /\ Append(wfl, s) # << >>
      /\ Elems(Append(wfl, s)) = Elems(wfl) \cup {s}
      /\ Distinct(wfl) /\ s \notin Elems(wfl) => Distinct(Append(wfl, s))
  BY <1>1, AppendFacts
<1>3. s \notin Elems(wfl) /\ s # L.waitingForPeer
  BY DEF LayerInv, Registered
<1>4. /\ M \in LayerType(P)
      /\ M.waitingForLayer = Append(wfl, s)
      /\ M.state = L.state
      /\ M.waitingForPeer = L.waitingForPeer
      /\ M.retrying = L.retrying
  BY <1>1, <1>2 DEF PutInLine, LayerType
<1>. QED
  BY <1>2, <1>3, <1>4 DEF LayerInv, Registered, Taken

(* A layer that becomes or stays busy for a port it does not remember. *)
LEMMA SucceededTimingInv ==
  ASSUME NEW P, NEW L, NEW B, NEW o, LayerInv(L, P, B, o)
  PROVE  LayerInv(SucceededTiming(L), P, B, o)
  BY DEF LayerInv, LayerType, Registered, SucceededTiming

(* A port that does not answer a retry at once loses its turn. *)
LEMMA BurnCycleInv ==
  ASSUME NEW P, NEW L, NEW B, NEW o, LayerInv(L, P, B, o)
  PROVE  LayerInv(BurnCycle(L), P, B, o)
  BY DEF LayerInv, LayerType, Registered, BurnCycle

(* The destination refuses a port that is not waiting yet. *)
LEMMA FailedTimingInv ==
  ASSUME NEW P, NoPort \notin P, NEW L, NEW B, NEW o, LayerInv(L, P, B, o),
         NEW s \in P \ B, L.waitingForPeer = NoPort
  PROVE  LayerInv(FailedTiming(L, s), P, B \cup {s}, TRUE)
<1>1. s \notin Elems(L.waitingForLayer)
  BY DEF LayerInv, Registered
<1>. QED
  BY <1>1 DEF LayerInv, LayerType, Registered, FailedTiming

(* retryWaiting() on a layer that has somebody in line. *)
LEMMA RetryWaitingInv ==
  ASSUME NEW P, NoPort \notin P, NEW L \in LayerType(P),
         L.waitingForLayer # << >>, L.waitingForPeer = NoPort,
         Distinct(L.waitingForLayer)
  PROVE  /\ RetryWaiting(L).retrying = Head(L.waitingForLayer)
         /\ LayerInv(RetryWaiting(L), P,
                     Registered(L) \ {Head(L.waitingForLayer)}, FALSE)
<1>. DEFINE wfl == L.waitingForLayer
            M   == RetryWaiting(L)
<1>1. wfl \in Seq(P)
  BY LayerFields
<1>2. /\ Head(wfl) \in P
      /\ Tail(wfl) \in Seq(P)
      /\ Elems(wfl) = {Head(wfl)} \cup Elems(Tail(wfl))
      /\ Distinct(Tail(wfl))
      /\ Head(wfl) \notin Elems(Tail(wfl))
  BY <1>1, TailFacts
<1>3. /\ M \in LayerType(P)
      /\ M.state = "RETRY"
      /\ M.retrying = Head(wfl)
      /\ M.waitingForLayer = Tail(wfl)
      /\ M.waitingForPeer = NoPort
  BY <1>2 DEF RetryWaiting, LayerType
<1>4. Elems(Tail(wfl)) \subseteq P
  BY <1>3, LayerFields
<1>. QED
  BY <1>2, <1>3, <1>4 DEF LayerInv, Registered

(* The release event of a busy layer. *)
LEMMA ReleaseLayerInv ==
  ASSUME NEW P, NoPort \notin P, NEW L, NEW B, NEW o, LayerInv(L, P, B, o),
         L.state = "BUSY"
  PROVE  LET M == ReleaseLayer(L) IN LayerInv(M, P, B \ {M.retrying}, o)
<1>. DEFINE wfl == L.waitingForLayer
            I   == [L EXCEPT !.state = "IDLE"]
            M   == ReleaseLayer(L)
<1>1. /\ L \in LayerType(P)
      /\ I \in LayerType(P)
      /\ I.state = "IDLE"
      /\ I.waitingForLayer = wfl
      /\ I.waitingForPeer = L.waitingForPeer
      /\ I.retrying = NoPort
      /\ I.drainManager = L.drainManager
  BY DEF LayerInv, LayerType
<1>2. CASE wfl # << >> /\ L.waitingForPeer = NoPort
  <2>1. M = RetryWaiting(I)
    BY <1>2 DEF ReleaseLayer
  <2>2. /\ M.retrying = Head(wfl)
        /\ LayerInv(M, P, Registered(I) \ {Head(wfl)}, FALSE)
    <3>1. Distinct(I.waitingForLayer)
      BY <1>1 DEF LayerInv
    <3>. HIDE DEF I
    <3>. QED  BY <1>1, <1>2, <2>1, <3>1, RetryWaitingInv
  <2>3. Registered(I) = B /\ o = FALSE
    BY <1>1, <1>2 DEF LayerInv, Registered
  <2>. QED  BY <2>2, <2>3
<1>3. CASE ~(wfl # << >> /\ L.waitingForPeer = NoPort)
  <2>1. M = I \/ M = [I EXCEPT !.drainManager = FALSE]
    BY <1>3 DEF ReleaseLayer
  <2>2. /\ M \in LayerType(P)
        /\ M.state = "IDLE"
        /\ M.waitingForLayer = wfl
        /\ M.waitingForPeer = L.waitingForPeer
        /\ M.retrying = NoPort
    BY <1>1, <2>1 DEF LayerType
  <2>3. NoPort \notin B
    BY <1>1, LayerFields DEF LayerInv, Registered
  <2>. QED  BY <1>3, <2>2, <2>3 DEF LayerInv, Registered
<1>. QED  BY <1>2, <1>3

(* recvRetry() when the destination refused a port. *)
LEMMA RecvRetryInv ==
  ASSUME NEW P, NoPort \notin P, NEW L, NEW B, LayerInv(L, P, B, TRUE),
         L.state # "RETRY"
  PROVE  LET M == RecvRetry(L) IN LayerInv(M, P, B \ {M.retrying}, FALSE)
<1>. DEFINE wfl == L.waitingForLayer
            wfp == L.waitingForPeer
            W   == [L EXCEPT !.waitingForLayer = <<L.waitingForPeer>> \o @,
                             !.waitingForPeer  = NoPort]
            M   == RecvRetry(L)
<1>1. /\ L \in LayerType(P)
      /\ wfl \in Seq(P)
      /\ wfp \in P
      /\ L.state \in {"IDLE", "BUSY"}
  BY LayerFields DEF LayerInv
<1>2. /\ <<wfp>> \o wfl \in Seq(P)
      /\ <<wfp>> \o wfl # << >>
      /\ Head(<<wfp>> \o wfl) = wfp
      /\ Elems(<<wfp>> \o wfl) = {wfp} \cup Elems(wfl)
      /\ Distinct(<<wfp>> \o wfl)
  BY <1>1, ConsFacts DEF LayerInv
<1>3. /\ W \in LayerType(P)
      /\ W.state = L.state
      /\ W.waitingForLayer = <<wfp>> \o wfl
      /\ W.waitingForPeer = NoPort
      /\ W.retrying = L.retrying
  BY <1>1, <1>2 DEF LayerType
<1>4. Registered(W) = B
  BY <1>1, <1>2, <1>3 DEF LayerInv, Registered
<1>5. CASE L.state = "IDLE"
  <2>1. M = RetryWaiting(W)
    BY <1>5 DEF RecvRetry
  <2>. QED  BY <1>2, <1>3, <1>4, <2>1, RetryWaitingInv, ZenonT(60)
<1>6. CASE L.state = "BUSY"
  <2>1. M = W
    BY <1>6 DEF RecvRetry
  <2>2. W.retrying = NoPort /\ NoPort \notin Elems(<<wfp>> \o wfl)
    BY <1>1, <1>2, <1>3, <1>6, LayerFields DEF LayerInv
  <2>3. B \ {M.retrying} = B
    BY <1>2, <1>3, <1>4, <2>1, <2>2 DEF Registered
  <2>. QED  BY <1>2, <1>3, <1>4, <1>6, <2>1, <2>2, <2>3 DEF LayerInv
<1>. QED  BY <1>1, <1>5, <1>6

(* drain() between two events. *)
LEMMA DrainLayerInv ==
  ASSUME NEW P, NEW L, NEW B, NEW o, LayerInv(L, P, B, o)
  PROVE  LayerInv(DrainLayer(L), P, B, o)
  BY DEF LayerInv, LayerType, Registered, DrainLayer
=============================================================================
