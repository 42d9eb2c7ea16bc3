-------------------------- MODULE EventQueueProofs --------------------------
(***************************************************************************)
(* EventQueue keeps its promises for every set of events, every latency    *)
(* and every step width: no event is lost, no event is passed over, the    *)
(* events of a cycle come in the order of their priorities, and the queue  *)
(* implements Agenda.                                                      *)
(***************************************************************************)
EXTENDS EventQueue, ListFacts

(* A position of a list that Process() has not come to. *)
Pending(t, i) ==
  /\ i \in 1 .. Len(eventMap[t])
  /\ Handling /\ t = nextEventCycle => i > cursor

(* An event object has one place at a time: only what is over may be named *)
(* again.                                                                  *)
PendingOnce ==
  \A t, u \in Cycles : \A i, j \in Nat :
    Pending(t, i) /\ Pending(u, j) /\ eventMap[t][i] = eventMap[u][j] => t = u /\ i = j

(* The clock stands at the cycle that is being processed, and a call of    *)
(* Loop() does not lead past the bound of the clock.                       *)
ClockInv ==
  /\ Handling => nextEventCycle = currentCycle
  /\ currentCycle + stepCycles <= MaxCycle

IInv ==
  /\ TypeOK /\ NextIsFirst /\ NoEventLost /\ SameCycleOrder
  /\ PendingOnce /\ ClockInv

-----------------------------------------------------------------------------
(* The cycles an event can be scheduled for, as numbers. *)
LEMMA CycleFacts ==
  /\ Horizon \in Nat /\ MaxCycle \in Nat /\ MaxCycle <= Horizon
  /\ MaxCycle + tREFI <= Horizon
  /\ Cycles = 0 .. Horizon /\ Infinity = Horizon + 1
  /\ Cycles \subseteq Nat /\ Infinity \in Nat /\ Infinity \notin Cycles
  /\ \A c \in 0 .. MaxCycle : c \in Cycles
  /\ tREFI \in Cycles
<1>1. Max({tREFI, MaxAhead, OffChipLatency}) \in Nat
      /\ tREFI <= Max({tREFI, MaxAhead, OffChipLatency})
  BY MaxOfThree, EventQueueAssumption
<1>2. Horizon \in Nat /\ MaxCycle \in Nat /\ MaxCycle + tREFI <= Horizon
  BY <1>1, EventQueueAssumption DEF Horizon
<1>. QED  BY <1>2, EventQueueAssumption DEF Cycles, Infinity

(* eventMap.begin(): no list before it, and a list at it if there is any. *)
LEMMA FirstCycleFacts ==
  ASSUME NEW map \in [Cycles -> Seq(Events)]
  PROVE  /\ FirstCycle(map) \in Cycles \cup {Infinity}
         /\ FirstCycle(map) # Infinity => map[FirstCycle(map)] # << >>
         /\ \A t \in Cycles : map[t] # << >> => FirstCycle(map) <= t
<1>. DEFINE S == {t \in Cycles : map[t] # << >>} \cup {Infinity}
<1>1. S \subseteq Nat /\ S # {}
  BY CycleFacts
<1>2. FirstCycle(map) = Min(S)
  BY DEF FirstCycle
<1>3. Min(S) \in S /\ \A y \in S : Min(S) <= y
  BY <1>1, MinFacts
<1>. QED  BY <1>2, <1>3, CycleFacts

(* A cycle with a list and none before it is the first. *)
LEMMA FirstCycleIs ==
  ASSUME NEW map \in [Cycles -> Seq(Events)], NEW c \in Cycles, map[c] # << >>,
         \A t \in Cycles : map[t] # << >> => c <= t
  PROVE  FirstCycle(map) = c
<1>. DEFINE S == {t \in Cycles : map[t] # << >>} \cup {Infinity}
<1>1. S \subseteq Nat /\ c \in S /\ \A y \in S : c <= y
  BY CycleFacts
<1>2. Min(S) = c
  BY <1>1, MinIs
<1>. QED  BY <1>2 DEF FirstCycle

(* The priority that is stored is the one that orders the list, except for *)
(* EventCycle.                                                             *)
LEMMA PriorityFacts ==
  ASSUME NEW k \in Kinds
  PROVE  /\ Priority(k) \in Int /\ StoredPriority(k) \in Int
         /\ k # "transaction" => StoredPriority(k) = Priority(k)
         /\ StoredPriority("transaction") = 0
         /\ Priority(k) >= -10
         /\ StoredPriority(k) = -10 => k = "cleanup"
  BY DEF Kinds, Priority, StoredPriority

(* InsertEvent() finds a place: what lies before it has no larger stored   *)
(* priority, and it is the end of the list or held by a larger one.        *)
LEMMA PlaceFacts ==
  ASSUME NEW list \in Seq(Events), NEW k \in Kinds
  PROVE  /\ PlaceIn(list, k) \in 1 .. Len(list) + 1
         /\ \A i \in 1 .. PlaceIn(list, k) - 1 :
              StoredPriority(Kind[list[i]]) <= Priority(k)
         /\ PlaceIn(list, k) <= Len(list) =>
              StoredPriority(Kind[list[PlaceIn(list, k)]]) > Priority(k)
<1>. DEFINE larger == {i \in DOMAIN list : StoredPriority(Kind[list[i]]) > Priority(k)}
            S == larger \cup {Len(list) + 1}
<1>1. /\ S \subseteq Nat /\ S # {} /\ DOMAIN list = 1 .. Len(list)
      /\ \A i \in DOMAIN list : Kind[list[i]] \in Kinds
  BY EventQueueAssumption
<1>2. PlaceIn(list, k) = Min(S)
  BY DEF PlaceIn
<1>3. Min(S) \in S /\ \A y \in S : Min(S) <= y
  BY <1>1, MinFacts
<1>4. PICK p \in S : p = PlaceIn(list, k) /\ \A y \in S : p <= y
  BY <1>2, <1>3
<1>5. p \in 1 .. Len(list) + 1
  BY <1>1, <1>4
<1>6. ASSUME NEW i \in 1 .. p - 1
      PROVE  StoredPriority(Kind[list[i]]) <= Priority(k)
  <2>1. i \in DOMAIN list /\ i \notin larger
    BY <1>1, <1>4, <1>5
  <2>. QED  BY <1>1, <2>1, PriorityFacts
<1>7. p <= Len(list) => StoredPriority(Kind[list[p]]) > Priority(k)
  BY <1>1, <1>4
<1>. QED  BY <1>4, <1>5, <1>6, <1>7

(* The earlier of two cycles. *)
LEMMA MinOfTwo ==
  ASSUME NEW a \in Nat, NEW b \in Nat
  PROVE  Min({a, b}) = IF a <= b THEN a ELSE b
<1>1. CASE a <= b
  BY <1>1, MinIs
<1>2. CASE ~(a <= b)
  BY <1>2, MinIs
<1>. QED  BY <1>1, <1>2

(* What the running code schedules lies in the present only if a response  *)
(* is passed on or a reply wakes the scheduler.                            *)
LEMMA InsertsFacts ==
  ASSUME TypeOK, NEW plan \in Inserts
  PROVE  /\ plan[2] \in Nat
         /\ Handling /\ plan[2] = 0 =>
              \/ Runs = "response" /\ plan[1] = "reply"
              \/ Runs = "reply" /\ plan[1] = "transaction"
<1>1. Runs \in Kinds \cup {"outside"} /\ (Handling => Runs \in Kinds)
  <2>1. CASE Handling
    <3>1. nextEventCycle \in Cycles /\ cursor \in DOMAIN List
      BY <2>1 DEF TypeOK
    <3>2. List[cursor] \in Events
      BY <3>1 DEF TypeOK, List
    <3>. QED  BY <2>1, <3>2, EventQueueAssumption DEF Runs
  <2>2. CASE ~Handling
    BY <2>2 DEF Runs
  <2>. QED  BY <2>1, <2>2
<1>. USE EventQueueAssumption
<1>2. CASE Runs = "outside"
  BY <1>1, <1>2 DEF Inserts, Kinds
<1>3. CASE Runs = "response"
  BY <1>1, <1>3 DEF Inserts, Kinds
<1>4. CASE Runs = "reply"
  BY <1>1, <1>4 DEF Inserts, Kinds
<1>5. CASE Runs = "cleanup"
  BY <1>1, <1>5 DEF Inserts, Kinds
<1>6. CASE Runs = "refresh"
  BY <1>1, <1>6 DEF Inserts, Kinds
<1>7. CASE Runs = "transaction"
  BY <1>1, <1>7 DEF Inserts, Kinds
<1>8. CASE Runs = "command"
  BY <1>1, <1>8 DEF Inserts, Kinds
<1>. QED  BY <1>1, <1>2, <1>3, <1>4, <1>5, <1>6, <1>7, <1>8 DEF Kinds

-----------------------------------------------------------------------------
(* NoEventLost, pair by pair. *)
AgendaInv ==
  \A e \in Events, t \in Cycles :
    <<e, t>> \in agenda <=> \E i \in Nat : Pending(t, i) /\ eventMap[t][i] = e

(* What NoEventLost says of one event, in terms of the agenda. *)
AgendaOf(map, c, n) ==
  UNION {{<<map[t][i], t>> :
            i \in {j \in DOMAIN map[t] : c > 0 /\ t = n => j > c}} : t \in Cycles}

AgendaHas(map, c, n, a) ==
  \A e \in Events, t \in Cycles :
    <<e, t>> \in a <=> \E i \in Nat : /\ i \in 1 .. Len(map[t]) /\ (c > 0 /\ t = n => i > c)
                                     /\ map[t][i] = e

LEMMA AgendaIff ==
  ASSUME NEW map \in [Cycles -> Seq(Events)], NEW c \in Nat, NEW n,
         NEW a \in SUBSET (Events \X Cycles)
  PROVE  a = AgendaOf(map, c, n) <=> AgendaHas(map, c, n, a)
<1>. DEFINE U == UNION {{<<map[t][i], t>> :
                        i \in {j \in DOMAIN map[t] : c > 0 /\ t = n => j > c}} : t \in Cycles}
<1>1. ASSUME NEW t \in Cycles
      PROVE  /\ DOMAIN map[t] = 1 .. Len(map[t])
             /\ \A i \in DOMAIN map[t] : i \in Nat /\ map[t][i] \in Events
  OBVIOUS
<1>2. U \subseteq Events \X Cycles
  BY <1>1
<1>3. ASSUME NEW e \in Events, NEW t \in Cycles
      PROVE  <<e, t>> \in U <=>
               \E i \in Nat : /\ i \in 1 .. Len(map[t]) /\ (c > 0 /\ t = n => i > c)
                              /\ map[t][i] = e
  BY <1>1
<1>. HIDE DEF U
<1>4. a = U <=> \A e \in Events, t \in Cycles : <<e, t>> \in a <=> <<e, t>> \in U
  BY <1>2
<1>5. AgendaHas(map, c, n, a) <=> \A e \in Events, t \in Cycles : <<e, t>> \in a <=> <<e, t>> \in U
  BY <1>3, Zenon DEF AgendaHas
<1>. QED  BY <1>4, <1>5, Zenon DEF U, AgendaOf

(* NoEventLost is the invariant about the agenda ... *)
LEMMA LostIff == TypeOK => (NoEventLost <=> AgendaInv)
<1>. SUFFICES ASSUME TypeOK PROVE NoEventLost <=> AgendaInv
  OBVIOUS
<1>1. /\ eventMap \in [Cycles -> Seq(Events)] /\ cursor \in Nat
      /\ agenda \in SUBSET (Events \X Cycles)
  BY DEF TypeOK
<1>2. NoEventLost <=> agenda = AgendaOf(eventMap, cursor, nextEventCycle)
  BY Zenon DEF NoEventLost, AgendaOf, Handling
<1>3. AgendaInv <=> AgendaHas(eventMap, cursor, nextEventCycle, agenda)
  BY Zenon DEF AgendaInv, AgendaHas, Pending, Handling
<1>. QED  BY <1>1, <1>2, <1>3, AgendaIff, Zenon

(* ... and so after a step. *)
LEMMA LostIffNext == TypeOK' => (NoEventLost' <=> AgendaInv')
<1>. SUFFICES ASSUME TypeOK' PROVE NoEventLost' <=> AgendaInv'
  OBVIOUS
<1>1. /\ eventMap' \in [Cycles -> Seq(Events)] /\ cursor' \in Nat
      /\ agenda' \in SUBSET (Events \X Cycles)
  BY DEF TypeOK
<1>2. NoEventLost' <=> agenda' = AgendaOf(eventMap', cursor', nextEventCycle')
  BY Zenon DEF NoEventLost, AgendaOf, Handling
<1>3. AgendaInv' <=> AgendaHas(eventMap', cursor', nextEventCycle', agenda')
  BY Zenon DEF AgendaInv, AgendaHas, Pending, Handling
<1>. QED  BY <1>1, <1>2, <1>3, AgendaIff, Zenon

-----------------------------------------------------------------------------
(* A step of the queue is a step of Agenda, or none. *)
AgendaStep == [A!Next]_(A!vars)

(* What is to come is not before the first cycle of the map. *)
LEMMA AgendaFromNext ==
  ASSUME IInv
  PROVE  \A x \in agenda : x[2] \in Cycles /\ x[2] >= nextEventCycle
<1>1. TypeOK /\ AgendaInv /\ nextEventCycle = FirstCycle(eventMap)
  BY LostIff DEF IInv, NextIsFirst
<1>2. ASSUME NEW x \in agenda
      PROVE  x[2] \in Cycles /\ x[2] >= nextEventCycle
  <2>1. PICK e \in Events, t \in Cycles : x = <<e, t>>
    BY <1>1, <1>2 DEF TypeOK
  <2>2. PICK i \in Nat : Pending(t, i)
    BY <1>1, <1>2, <2>1 DEF AgendaInv
  <2>3. eventMap[t] # << >>
    BY <2>2 DEF Pending
  <2>. QED  BY <1>1, <2>1, <2>3, FirstCycleFacts, CycleFacts DEF TypeOK
<1>. QED  BY <1>2

(* Process() comes to the next position of the list of the first cycle.    *)
LEMMA BeginStep ==
  ASSUME IInv, nextEventCycle \in Cycles,
         cursor + 1 \in 1 .. Len(eventMap[nextEventCycle]),
         Begin(cursor + 1, nextEventCycle), UNCHANGED <<eventMap, nextEventCycle>>
  PROVE  /\ AgendaInv' /\ SameCycleOrder' /\ PendingOnce'
         /\ cursor' \in Nat /\ cursor' > 0 /\ cursor' \in DOMAIN (List')
         /\ agenda' \in SUBSET (Events \X Cycles)
         /\ \E x \in agenda : /\ x[2] = nextEventCycle
                              /\ x = <<x[1], x[2]>> /\ agenda' = agenda \ {x}
<1>. DEFINE n == nextEventCycle
            c == cursor + 1
            e == eventMap[n][c]
<1>1. TypeOK /\ AgendaInv /\ cursor \in Nat /\ n \in Cycles /\ c \in Nat
  BY LostIff DEF IInv, TypeOK
<1>2. cursor' = c /\ agenda' = agenda \ {<<e, n>>} /\ e \in Events
  BY <1>1 DEF Begin, TypeOK
<1>3. Pending(n, c)
  BY <1>1 DEF Pending
<1>4. \A t \in Cycles, i \in Nat : Pending(t, i)' <=> Pending(t, i) /\ ~(t = n /\ i = c)
  <2>. SUFFICES ASSUME NEW t \in Cycles, NEW i \in Nat
                PROVE  Pending(t, i)' <=> Pending(t, i) /\ ~(t = n /\ i = c)
    OBVIOUS
  <2>. QED  BY <1>1, <1>2 DEF Pending, Handling
<1>5. <<e, n>> \in agenda
  BY <1>1, <1>2, <1>3 DEF AgendaInv
<1>6. PendingOnce'
  <2>. SUFFICES ASSUME NEW t \in Cycles, NEW u \in Cycles, NEW i \in Nat, NEW j \in Nat,
                       Pending(t, i)', Pending(u, j)', eventMap[t][i] = eventMap[u][j]
                PROVE  t = u /\ i = j
    BY DEF PendingOnce
  <2>. QED  BY <1>4 DEF IInv, PendingOnce
<1>7. AgendaInv'
  <2>. SUFFICES ASSUME NEW f \in Events, NEW t \in Cycles
                PROVE  <<f, t>> \in agenda' <=>
                         \E i \in Nat : Pending(t, i)' /\ eventMap[t][i] = f
    BY DEF AgendaInv
  <2>1. CASE f = e /\ t = n
    <3>1. ASSUME NEW i \in Nat, Pending(n, i), eventMap[n][i] = e
          PROVE  i = c
      BY <1>1, <1>3, <3>1 DEF IInv, PendingOnce
    <3>. QED  BY <1>2, <1>4, <2>1, <3>1
  <2>2. CASE ~(f = e /\ t = n)
    <3>1. <<f, t>> \in agenda' <=> <<f, t>> \in agenda
      BY <1>2, <2>2
    <3>2. \A i \in Nat : eventMap[t][i] = f => (Pending(t, i)' <=> Pending(t, i))
      BY <1>4, <2>2
    <3>. QED  BY <1>1, <3>1, <3>2 DEF AgendaInv
  <2>. QED  BY <2>1, <2>2
<1>8. SameCycleOrder'
  BY DEF IInv, SameCycleOrder
<1>9. cursor' \in Nat /\ cursor' > 0 /\ cursor' \in DOMAIN (List')
  BY <1>1, <1>2 DEF List, TypeOK
<1>10. agenda' \in SUBSET (Events \X Cycles)
  BY <1>1, <1>2 DEF TypeOK
<1>. QED  BY <1>2, <1>5, <1>6, <1>7, <1>8, <1>9, <1>10

(* An event that begins in the cycle the clock is brought to happens in    *)
(* the sense of Agenda.                                                    *)
LEMMA BeginHappens ==
  ASSUME IInv, nextEventCycle \in Cycles,
         NEW x \in agenda, x[2] = nextEventCycle, agenda' = agenda \ {x},
         x = <<x[1], x[2]>>, currentCycle' = nextEventCycle
  PROVE  AgendaStep
<1>1. nextEventCycle >= currentCycle
  BY DEF IInv, NextIsFirst
<1>2. A!Happen(x[1], x[2])
  BY <1>1, AgendaFromNext DEF A!Happen
<1>. QED  BY <1>2 DEF AgendaStep, A!Next

(* The first cycle has a list, so that Process() finds an event in it. *)
LEMMA FirstHasEvent ==
  ASSUME IInv, nextEventCycle \in Cycles
  PROVE  1 \in 1 .. Len(eventMap[nextEventCycle])
<1>1. /\ eventMap[nextEventCycle] # << >>
      /\ eventMap[nextEventCycle] \in Seq(Events)
  BY FirstCycleFacts, CycleFacts DEF IInv, TypeOK, NextIsFirst
<1>. QED  BY <1>1

(* Loop() is called. *)
LEMMA LoopStep ==
  ASSUME IInv, NEW steps \in 0 .. MaxSteps, Loop(steps)
  PROVE  IInv' /\ AgendaStep
<1>1. /\ TypeOK /\ cursor = 0 /\ stepCycles = 0
      /\ currentCycle + steps <= MaxCycle /\ stepCycles' = steps
      /\ UNCHANGED <<eventDriven, eventMap, nextEventCycle, lastEventCycle, currentCycle>>
  BY DEF IInv, TypeOK, Loop, Outside, Handling
<1>2. CASE steps = 0
  <2>1. nextEventCycle = currentCycle /\ Begin(1, nextEventCycle) /\ nextEventCycle \in Cycles
    BY <1>1, <1>2, CycleFacts DEF Loop, TypeOK
  <2>2. cursor + 1 = 1 /\ cursor + 1 \in 1 .. Len(eventMap[nextEventCycle])
    BY <1>1, <2>1, FirstHasEvent
  <2>3. /\ AgendaInv' /\ SameCycleOrder' /\ PendingOnce'
        /\ cursor' \in Nat /\ cursor' > 0 /\ cursor' \in DOMAIN (List')
        /\ agenda' \in SUBSET (Events \X Cycles)
        /\ \E x \in agenda : /\ x[2] = nextEventCycle
                             /\ x = <<x[1], x[2]>> /\ agenda' = agenda \ {x}
    BY <1>1, <2>1, <2>2, BeginStep
  <2>4. TypeOK'
    BY <1>1, <2>1, <2>3, CycleFacts DEF TypeOK, Handling
  <2>5. NextIsFirst' /\ ClockInv'
    BY <1>1, <2>1, <2>3 DEF IInv, NextIsFirst, ClockInv, Handling
  <2>6. AgendaStep
    BY <1>1, <2>1, <2>3, BeginHappens
  <2>. QED  BY <2>3, <2>4, <2>5, <2>6, LostIffNext DEF IInv
<1>3. CASE steps # 0
  <2>1. UNCHANGED <<cursor, agenda>>
    BY <1>3 DEF Loop
  <2>2. TypeOK'
    BY <1>1, <2>1 DEF TypeOK, Handling, List
  <2>3. NextIsFirst' /\ NoEventLost' /\ SameCycleOrder'
    BY <1>1, <2>1 DEF IInv, NextIsFirst, NoEventLost, SameCycleOrder, Handling
  <2>4. PendingOnce'
    BY <1>1, <2>1 DEF IInv, PendingOnce, Pending, Handling
  <2>5. ClockInv'
    BY <1>1, <2>1 DEF ClockInv, Handling
  <2>6. AgendaStep
    BY <1>1, <2>1 DEF AgendaStep, A!vars
  <2>. QED  BY <2>2, <2>3, <2>4, <2>5, <2>6 DEF IInv
<1>. QED  BY <1>2, <1>3

(* A round of Loop() without an event keeps the invariant ... *)
LEMMA LoopPassesStep ==
  ASSUME IInv, LoopPasses
  PROVE  IInv' /\ AgendaStep
<1>1. /\ TypeOK /\ cursor = 0 /\ stepCycles > 0
      /\ nextEventCycle > currentCycle + stepCycles
      /\ currentCycle' = currentCycle + stepCycles /\ stepCycles' = 0
      /\ UNCHANGED <<eventDriven, eventMap, nextEventCycle, lastEventCycle, cursor, agenda>>
  BY DEF IInv, TypeOK, LoopPasses, NothingInStep, Handling
<1>2. /\ currentCycle \in Nat /\ stepCycles \in Nat /\ nextEventCycle \in Nat
      /\ currentCycle + stepCycles <= MaxCycle /\ MaxSteps \in Nat
  BY <1>1, CycleFacts, EventQueueAssumption DEF IInv, TypeOK, ClockInv
<1>3. TypeOK'
  BY <1>1, <1>2, CycleFacts DEF TypeOK, Handling, List
<1>4. NextIsFirst' /\ NoEventLost' /\ SameCycleOrder'
  BY <1>1, <1>2 DEF IInv, NextIsFirst, NoEventLost, SameCycleOrder, Handling
<1>5. PendingOnce'
  BY <1>1 DEF IInv, PendingOnce, Pending, Handling
<1>6. ClockInv'
  BY <1>1, <1>2, CycleFacts DEF ClockInv, Handling
<1>7. AgendaStep
  <2>1. PICK t \in Cycles : t = currentCycle + stepCycles
    BY <1>2, CycleFacts
  <2>2. \A x \in agenda : x[2] > t
    BY <1>1, <1>2, <2>1, AgendaFromNext, CycleFacts
  <2>3. A!Pass(t)
    BY <1>1, <1>2, <2>1, <2>2 DEF A!Pass
  <2>. QED  BY <2>3 DEF AgendaStep, A!Next
<1>. QED  BY <1>3, <1>4, <1>5, <1>6, <1>7 DEF IInv

(* ... and so does one that begins Process(). *)
LEMMA LoopProcessesStep ==
  ASSUME IInv, LoopProcesses
  PROVE  IInv' /\ AgendaStep
<1>1. /\ TypeOK /\ cursor = 0 /\ stepCycles > 0
      /\ ~(nextEventCycle > currentCycle + stepCycles)
      /\ currentCycle' = nextEventCycle
      /\ stepCycles' = stepCycles - (nextEventCycle - currentCycle)
      /\ Begin(1, nextEventCycle)
      /\ UNCHANGED <<eventDriven, eventMap, nextEventCycle, lastEventCycle>>
  BY DEF IInv, TypeOK, LoopProcesses, NothingInStep, Handling
<1>2. /\ currentCycle \in Nat /\ stepCycles \in Nat /\ nextEventCycle \in Nat
      /\ currentCycle + stepCycles <= MaxCycle /\ MaxSteps \in Nat
      /\ stepCycles <= MaxSteps /\ nextEventCycle >= currentCycle
  <2>1. /\ currentCycle \in 0 .. MaxCycle /\ stepCycles \in 0 .. MaxSteps
        /\ nextEventCycle \in Cycles \cup {Infinity}
    BY DEF IInv, TypeOK
  <2>2. currentCycle + stepCycles <= MaxCycle /\ nextEventCycle >= currentCycle
    BY DEF IInv, ClockInv, NextIsFirst
  <2>3. MaxSteps \in Nat
    BY EventQueueAssumption
  <2>4. MaxCycle \in Nat /\ Cycles \subseteq Nat /\ Infinity \in Nat
    BY CycleFacts
  <2>. QED  BY <2>1, <2>2, <2>3, <2>4, SMTT(60)
<1>3. nextEventCycle \in Cycles /\ nextEventCycle <= MaxCycle
  BY <1>1, <1>2, CycleFacts
<1>4. cursor + 1 = 1 /\ cursor + 1 \in 1 .. Len(eventMap[nextEventCycle])
  BY <1>1, <1>3, FirstHasEvent
<1>5. /\ AgendaInv' /\ SameCycleOrder' /\ PendingOnce'
      /\ cursor' \in Nat /\ cursor' > 0 /\ cursor' \in DOMAIN (List')
      /\ agenda' \in SUBSET (Events \X Cycles)
      /\ \E x \in agenda : /\ x[2] = nextEventCycle
                           /\ x = <<x[1], x[2]>> /\ agenda' = agenda \ {x}
  BY <1>1, <1>3, <1>4, BeginStep
<1>6. TypeOK'
  <2>1. stepCycles' \in 0 .. MaxSteps /\ currentCycle' \in 0 .. MaxCycle
    BY <1>1, <1>2, <1>3, CycleFacts
  <2>2. nextEventCycle # Infinity
    BY <1>3, CycleFacts
  <2>. QED  BY <1>1, <1>5, <2>1, <2>2 DEF TypeOK, Handling
<1>7. NextIsFirst'
  BY <1>1, <1>2 DEF IInv, NextIsFirst
<1>8. ClockInv'
  BY <1>1, <1>2, CycleFacts DEF ClockInv
<1>9. AgendaStep
  BY <1>1, <1>3, <1>5, BeginHappens
<1>. QED  BY <1>5, <1>6, <1>7, <1>8, <1>9, LostIffNext DEF IInv

(* A handler returns and Process() goes on to the next event. *)
LEMMA NextEventStep ==
  ASSUME IInv, NextEvent
  PROVE  IInv' /\ AgendaStep
<1>1. /\ TypeOK /\ Handling /\ cursor # Len(List)
      /\ Begin(cursor + 1, nextEventCycle)
      /\ UNCHANGED <<eventDriven, eventMap, nextEventCycle, lastEventCycle,
                     currentCycle, stepCycles>>
  BY DEF IInv, NextEvent, HandlerDone, LastOfList
<1>2. /\ nextEventCycle \in Cycles /\ nextEventCycle = currentCycle
      /\ nextEventCycle # Infinity
      /\ cursor \in 1 .. Len(eventMap[nextEventCycle])
      /\ cursor # Len(eventMap[nextEventCycle])
      /\ Len(eventMap[nextEventCycle]) \in Nat
  BY <1>1, CycleFacts DEF IInv, ClockInv, TypeOK, List
<1>3. cursor + 1 \in 1 .. Len(eventMap[nextEventCycle])
  BY <1>2
<1>4. /\ AgendaInv' /\ SameCycleOrder' /\ PendingOnce'
      /\ cursor' \in Nat /\ cursor' > 0 /\ cursor' \in DOMAIN (List')
      /\ agenda' \in SUBSET (Events \X Cycles)
      /\ \E x \in agenda : /\ x[2] = nextEventCycle
                           /\ x = <<x[1], x[2]>> /\ agenda' = agenda \ {x}
  BY <1>1, <1>2, <1>3, BeginStep
<1>5. TypeOK'
  BY <1>1, <1>2, <1>4 DEF TypeOK, Handling
<1>6. NextIsFirst' /\ ClockInv'
  BY <1>1 DEF IInv, NextIsFirst, ClockInv, Handling
<1>7. AgendaStep
  BY <1>1, <1>2, <1>4, BeginHappens
<1>. QED  BY <1>4, <1>5, <1>6, <1>7, LostIffNext DEF IInv

(* Process() has come to the end of the list: nothing of it is pending, so *)
(* erasing it loses no event.                                              *)
LEMMA ProcessEndsStep ==
  ASSUME IInv, ProcessEnds
  PROVE  IInv' /\ AgendaStep
<1>. DEFINE n == nextEventCycle
<1>1. /\ TypeOK /\ AgendaInv /\ Handling /\ cursor = Len(eventMap[n])
      /\ eventMap' = [eventMap EXCEPT ![n] = << >>]
      /\ lastEventCycle' = n /\ nextEventCycle' = FirstCycle(eventMap')
      /\ cursor' = 0
      /\ UNCHANGED <<eventDriven, currentCycle, stepCycles, agenda>>
  BY LostIff DEF IInv, ProcessEnds, HandlerDone, LastOfList, List
<1>2. n \in Cycles /\ eventMap[n] \in Seq(Events)
  BY <1>1 DEF TypeOK
<1>3. /\ eventMap' \in [Cycles -> Seq(Events)]
      /\ eventMap'[n] = << >> /\ \A t \in Cycles \ {n} : eventMap'[t] = eventMap[t]
  BY <1>1, <1>2 DEF TypeOK
<1>4. /\ nextEventCycle' \in Cycles \cup {Infinity}
      /\ nextEventCycle' # Infinity => eventMap'[nextEventCycle'] # << >>
  BY <1>1, <1>3, FirstCycleFacts
<1>5. TypeOK'
  BY <1>1, <1>2, <1>3, <1>4 DEF TypeOK, Handling
<1>6. NextIsFirst'
  <2>1. CASE nextEventCycle' = Infinity
    BY <1>1, <2>1, CycleFacts DEF TypeOK, NextIsFirst
  <2>2. CASE nextEventCycle' # Infinity
    <3>1. PICK t \in Cycles : t = nextEventCycle'
      BY <1>4, <2>2
    <3>2. eventMap[t] # << >> /\ t >= n
      BY <1>1, <1>2, <1>3, <1>4, <2>2, <3>1, FirstCycleFacts, CycleFacts, ZenonT(60)
         DEF TypeOK, IInv, NextIsFirst
    <3>3. n >= currentCycle /\ n \in Nat /\ currentCycle \in Nat /\ t \in Nat
      BY <1>1, <1>2, CycleFacts DEF TypeOK, IInv, NextIsFirst
    <3>4. nextEventCycle' >= currentCycle'
      BY <1>1, <3>1, <3>2, <3>3
    <3>. QED  BY <1>1, <3>4 DEF NextIsFirst
  <2>. QED  BY <2>1, <2>2
<1>7. \A t \in Cycles, i \in Nat :
        (Pending(t, i)' <=> Pending(t, i)) /\ (Pending(t, i) => eventMap'[t][i] = eventMap[t][i])
  <2>. SUFFICES ASSUME NEW t \in Cycles, NEW i \in Nat
                PROVE  /\ Pending(t, i)' <=> Pending(t, i)
                       /\ Pending(t, i) => eventMap'[t][i] = eventMap[t][i]
    OBVIOUS
  <2>1. CASE t = n
    BY <1>1, <1>2, <1>3, <2>1 DEF Pending
  <2>2. CASE t # n
    BY <1>1, <1>3, <2>2 DEF Pending, Handling
  <2>. QED  BY <2>1, <2>2
<1>8. AgendaInv' /\ PendingOnce'
  BY <1>1, <1>7 DEF AgendaInv, PendingOnce, IInv
<1>9. SameCycleOrder'
  <2>1. DOMAIN (eventMap'[n]) = {}
    BY <1>3
  <2>. QED  BY <1>3, <2>1 DEF IInv, SameCycleOrder
<1>10. ClockInv'
  BY <1>1 DEF IInv, ClockInv, Handling
<1>11. AgendaStep
  BY <1>1 DEF AgendaStep, A!vars
<1>. QED  BY <1>5, <1>6, <1>8, <1>9, <1>10, <1>11, LostIffNext DEF IInv

(* A pending response is taken out of its list: the others keep their      *)
(* order, and the iterator of Process() its event.                         *)
LEMMA TakeBackStep ==
  ASSUME IInv, TakeBack
  PROVE  IInv' /\ AgendaStep
<1>0. PICK t \in Cycles : \E i \in DOMAIN eventMap[t] :
        /\ Handling /\ t = nextEventCycle => i > cursor
        /\ RemoveEvent(i, t)
  BY DEF TakeBack
<1>1. PICK i \in DOMAIN eventMap[t] :
        /\ Handling /\ t = nextEventCycle => i > cursor
        /\ RemoveEvent(i, t)
  BY <1>0
<1>. DEFINE s == eventMap[t]
            e == eventMap[t][i]
<1>2. /\ TypeOK /\ AgendaInv
      /\ eventMap' = [eventMap EXCEPT ![t] = RemoveAt(@, i)]
      /\ nextEventCycle' = FirstCycle(eventMap')
      /\ agenda' = agenda \ {<<e, t>>}
      /\ UNCHANGED <<eventDriven, lastEventCycle, currentCycle, stepCycles, cursor>>
  BY <1>1, LostIff DEF IInv, RemoveEvent, TakeBack
<1>3. s \in Seq(Events) /\ i \in 1 .. Len(s) /\ i \in Nat /\ e \in Events /\ Len(s) \in Nat
  BY <1>1, <1>2 DEF TypeOK
<1>4. /\ RemoveAt(s, i) \in Seq(Events)
      /\ Len(RemoveAt(s, i)) = Len(s) - 1
      /\ \A j \in 1 .. i - 1 : RemoveAt(s, i)[j] = s[j]
      /\ \A j \in i .. Len(s) - 1 : RemoveAt(s, i)[j] = s[j + 1]
  BY <1>3, RemoveAtFacts
<1>5. /\ eventMap' \in [Cycles -> Seq(Events)]
      /\ eventMap'[t] = RemoveAt(s, i)
      /\ \A u \in Cycles \ {t} : eventMap'[u] = eventMap[u]
  BY <1>2, <1>4 DEF TypeOK
<1>6. Pending(t, i) /\ <<e, t>> \in agenda
  BY <1>1, <1>2, <1>3 DEF Pending, AgendaInv
<1>7. \A u \in Cycles : eventMap'[u] # << >> => eventMap[u] # << >>
  BY <1>3, <1>4, <1>5
<1>8. nextEventCycle = FirstCycle(eventMap) /\ nextEventCycle >= currentCycle
  BY DEF IInv, NextIsFirst
<1>9. /\ nextEventCycle' \in Cycles \cup {Infinity}
      /\ nextEventCycle' # Infinity => eventMap'[nextEventCycle'] # << >>
      /\ nextEventCycle' >= nextEventCycle
  <2>1. /\ nextEventCycle' \in Cycles \cup {Infinity}
        /\ nextEventCycle' # Infinity => eventMap'[nextEventCycle'] # << >>
    BY <1>2, <1>5, FirstCycleFacts
  <2>2. CASE nextEventCycle' = Infinity
    BY <1>2, <2>2, CycleFacts DEF TypeOK
  <2>3. CASE nextEventCycle' # Infinity
    BY <1>2, <1>7, <1>8, <2>1, <2>3, FirstCycleFacts DEF TypeOK
  <2>. QED  BY <2>1, <2>2, <2>3
<1>10. Handling => /\ nextEventCycle' = nextEventCycle
                   /\ nextEventCycle \in Cycles
                   /\ cursor \in 1 .. Len(eventMap'[nextEventCycle])
  <2>. SUFFICES ASSUME Handling
                PROVE  /\ nextEventCycle' = nextEventCycle
                       /\ nextEventCycle \in Cycles
                       /\ cursor \in 1 .. Len(eventMap'[nextEventCycle])
    OBVIOUS
  <2>1. /\ nextEventCycle \in Cycles
        /\ cursor \in 1 .. Len(eventMap[nextEventCycle])
        /\ cursor \in Nat
    BY <1>2 DEF TypeOK, List
  <2>2. cursor \in 1 .. Len(eventMap'[nextEventCycle])
    <3>1. CASE nextEventCycle = t
      BY <1>1, <1>3, <1>4, <1>5, <2>1, <3>1
    <3>2. CASE nextEventCycle # t
      BY <1>5, <2>1, <3>2
    <3>. QED  BY <3>1, <3>2
  <2>3. eventMap'[nextEventCycle] # << >>
    BY <1>5, <2>1, <2>2
  <2>4. nextEventCycle' <= nextEventCycle
    BY <1>2, <1>5, <2>1, <2>3, FirstCycleFacts
  <2>. QED  BY <1>9, <2>1, <2>2, <2>4, CycleFacts
<1>11. TypeOK'
  <2>1. Handling' => nextEventCycle' # Infinity /\ cursor' \in DOMAIN (List')
    BY <1>2, <1>5, <1>10, CycleFacts DEF Handling, List
  <2>2. agenda' \in SUBSET (Events \X Cycles)
    BY <1>2 DEF TypeOK
  <2>. QED  BY <1>2, <1>5, <1>9, <2>1, <2>2 DEF TypeOK
<1>12. NextIsFirst' /\ ClockInv'
  <2>1. nextEventCycle' >= currentCycle
    BY <1>2, <1>8, <1>9, CycleFacts DEF TypeOK
  <2>. QED  BY <1>2, <1>10, <2>1 DEF IInv, NextIsFirst, ClockInv, Handling
<1>13. ASSUME NEW u \in Cycles, NEW j \in Nat
       PROVE  /\ u # t => /\ Pending(u, j)' <=> Pending(u, j)
                          /\ eventMap'[u][j] = eventMap[u][j]
              /\ Pending(t, j)' =>
                   IF j < i THEN Pending(t, j) /\ eventMap'[t][j] = eventMap[t][j]
                   ELSE Pending(t, j + 1) /\ eventMap'[t][j] = eventMap[t][j + 1]
              /\ Pending(t, j) /\ j < i =>
                   Pending(t, j)' /\ eventMap'[t][j] = eventMap[t][j]
              /\ Pending(t, j) /\ j > i =>
                   Pending(t, j - 1)' /\ eventMap'[t][j - 1] = eventMap[t][j]
  <2>1. u # t => /\ Pending(u, j)' <=> Pending(u, j)
                 /\ eventMap'[u][j] = eventMap[u][j]
    BY <1>2, <1>5, <1>10 DEF Pending, Handling
  <2>2. Pending(t, j)' =>
          IF j < i THEN Pending(t, j) /\ eventMap'[t][j] = eventMap[t][j]
          ELSE Pending(t, j + 1) /\ eventMap'[t][j] = eventMap[t][j + 1]
    BY <1>2, <1>3, <1>4, <1>5, <1>10, SMTT(60) DEF Pending, Handling, TypeOK
  <2>3. Pending(t, j) /\ j < i => Pending(t, j)' /\ eventMap'[t][j] = eventMap[t][j]
    BY <1>2, <1>3, <1>4, <1>5, <1>10 DEF Pending, Handling, TypeOK
  <2>4. Pending(t, j) /\ j > i =>
          Pending(t, j - 1)' /\ eventMap'[t][j - 1] = eventMap[t][j]
    BY <1>1, <1>2, <1>3, <1>4, <1>5, <1>10 DEF Pending, Handling, TypeOK
  <2>. QED  BY <2>1, <2>2, <2>3, <2>4
<1>14. ASSUME NEW u \in Cycles, NEW j \in Nat, Pending(u, j)'
       PROVE  \E k \in Nat : /\ Pending(u, k) /\ eventMap[u][k] = eventMap'[u][j]
                             /\ ~(u = t /\ k = i)
                             /\ j = IF u = t /\ k > i THEN k - 1 ELSE k
  <2>1. CASE u # t
    BY <1>13, <1>14, <2>1
  <2>2. CASE u = t /\ j < i
    BY <1>3, <1>13, <1>14, <2>2
  <2>3. CASE u = t /\ ~(j < i)
    <3>1. j + 1 \in Nat /\ j + 1 > i /\ j = (j + 1) - 1 /\ j + 1 # i
      BY <1>3, <2>3
    <3>. QED  BY <1>13, <1>14, <2>3, <3>1
  <2>. QED  BY <2>1, <2>2, <2>3
<1>15. ASSUME NEW u \in Cycles, NEW k \in Nat, Pending(u, k), ~(u = t /\ k = i)
       PROVE  \E j \in Nat : Pending(u, j)' /\ eventMap'[u][j] = eventMap[u][k]
  <2>1. CASE u # t
    BY <1>13, <1>15, <2>1
  <2>2. CASE u = t /\ k < i
    BY <1>13, <1>15, <2>2
  <2>3. CASE u = t /\ k > i
    <3>1. k - 1 \in Nat
      BY <1>3, <2>3
    <3>. QED  BY <1>13, <1>15, <2>3, <3>1
  <2>. QED  BY <1>3, <1>15, <2>1, <2>2, <2>3
<1>16. PendingOnce'
  <2>. SUFFICES ASSUME NEW u \in Cycles, NEW v \in Cycles, NEW j \in Nat, NEW l \in Nat,
                       Pending(u, j)', Pending(v, l)', eventMap'[u][j] = eventMap'[v][l]
                PROVE  u = v /\ j = l
    BY DEF PendingOnce
  <2>1. PICK k \in Nat : /\ Pending(u, k) /\ eventMap[u][k] = eventMap'[u][j]
                         /\ j = IF u = t /\ k > i THEN k - 1 ELSE k
    BY <1>14
  <2>2. PICK m \in Nat : /\ Pending(v, m) /\ eventMap[v][m] = eventMap'[v][l]
                         /\ l = IF v = t /\ m > i THEN m - 1 ELSE m
    BY <1>14
  <2>3. u = v /\ k = m
    BY <2>1, <2>2 DEF IInv, PendingOnce
  <2>. QED  BY <2>1, <2>2, <2>3
<1>17. AgendaInv'
  <2>. SUFFICES ASSUME NEW f \in Events, NEW u \in Cycles
                PROVE  <<f, u>> \in agenda' <=>
                         \E j \in Nat : Pending(u, j)' /\ eventMap'[u][j] = f
    BY DEF AgendaInv
  <2>1. ASSUME <<f, u>> \in agenda'
        PROVE  \E j \in Nat : Pending(u, j)' /\ eventMap'[u][j] = f
    <3>1. <<f, u>> \in agenda /\ ~(f = e /\ u = t)
      BY <1>2, <2>1
    <3>2. PICK k \in Nat : Pending(u, k) /\ eventMap[u][k] = f
      BY <1>2, <3>1 DEF AgendaInv
    <3>. QED  BY <1>15, <3>1, <3>2
  <2>2. ASSUME NEW j \in Nat, Pending(u, j)', eventMap'[u][j] = f
        PROVE  <<f, u>> \in agenda'
    <3>1. PICK k \in Nat : /\ Pending(u, k) /\ eventMap[u][k] = f
                           /\ ~(u = t /\ k = i)
      BY <1>14, <2>2
    <3>2. <<f, u>> \in agenda
      BY <1>2, <3>1 DEF AgendaInv
    <3>3. <<f, u>> # <<e, t>>
      BY <1>3, <1>6, <3>1 DEF IInv, PendingOnce
    <3>. QED  BY <1>2, <3>2, <3>3
  <2>. QED  BY <2>1, <2>2
<1>18. SameCycleOrder'
  <2>1. /\ \A j \in 1 .. i - 1 : eventMap'[t][j] = s[j]
        /\ \A j \in i .. Len(s) - 1 : eventMap'[t][j] = s[j + 1]
    BY <1>4, <1>5
  <2>2. DOMAIN (eventMap'[t]) = 1 .. Len(s) - 1 /\ DOMAIN s = 1 .. Len(s)
    BY <1>3, <1>4, <1>5
  <2>. DEFINE Ordered(k, l) == "transaction" \notin {k, l} => Priority(k) <= Priority(l)
  <2>3. \A j, l \in 1 .. Len(s) : j < l => Ordered(Kind[s[j]], Kind[s[l]])
    BY <2>2 DEF IInv, SameCycleOrder
  <2>. HIDE DEF Ordered
  <2>4. ASSUME NEW j \in 1 .. Len(s) - 1, NEW l \in 1 .. Len(s) - 1, j < l
        PROVE  Ordered(Kind[eventMap'[t][j]], Kind[eventMap'[t][l]])
    <3>1. CASE l < i
      <4>1. /\ j \in 1 .. i - 1 /\ l \in 1 .. i - 1
            /\ j \in 1 .. Len(s) /\ l \in 1 .. Len(s)
        BY <1>3, <2>4, <3>1
      <4>. QED  BY <2>1, <2>3, <2>4, <4>1
    <3>2. CASE j < i /\ ~(l < i)
      <4>1. /\ j \in 1 .. i - 1 /\ l \in i .. Len(s) - 1
            /\ j \in 1 .. Len(s) /\ l + 1 \in 1 .. Len(s) /\ j < l + 1
        BY <1>3, <2>4, <3>2
      <4>. QED  BY <2>1, <2>3, <4>1
    <3>3. CASE ~(j < i)
      <4>1. /\ j \in i .. Len(s) - 1 /\ l \in i .. Len(s) - 1
            /\ j + 1 \in 1 .. Len(s) /\ l + 1 \in 1 .. Len(s) /\ j + 1 < l + 1
        BY <1>3, <2>4, <3>3
      <4>. QED  BY <2>1, <2>3, <4>1
    <3>. QED  BY <1>3, <2>4, <3>1, <3>2, <3>3
  <2>5. ASSUME NEW u \in Cycles, NEW j \in DOMAIN (eventMap'[u]),
               NEW l \in DOMAIN (eventMap'[u]), j < l
        PROVE  Ordered(Kind[eventMap'[u][j]], Kind[eventMap'[u][l]])
    <3>1. CASE u = t
      BY <2>2, <2>4, <2>5, <3>1
    <3>2. CASE u # t
      BY <1>5, <2>5, <3>2 DEF IInv, SameCycleOrder, Ordered
    <3>. QED  BY <3>1, <3>2
  <2>. QED  BY <2>5 DEF SameCycleOrder, Ordered
<1>19. AgendaStep
  <2>1. A!Cancel(e, t)
    BY <1>2, <1>6 DEF A!Cancel
  <2>2. \E x \in agenda : A!Cancel(x[1], x[2])
    BY <1>6, <2>1
  <2>. QED  BY <2>2 DEF AgendaStep, A!Next
<1>. QED  BY <1>11, <1>12, <1>16, <1>17, <1>18, <1>19, LostIffNext DEF IInv

(* InsertEvent() puts nothing behind the iterator of Process(): what a     *)
(* handler schedules for the cycle in progress is a reply or a wakeup, and *)
(* neither precedes the event that is being handled.                       *)
LEMMA PlaceAhead ==
  ASSUME IInv, NEW plan \in Inserts, plan[1] \in Kinds,
         Handling, currentCycle + plan[2] = nextEventCycle
  PROVE  PlaceIn(List, plan[1]) > cursor
<1>1. /\ TypeOK /\ nextEventCycle = currentCycle /\ nextEventCycle \in Cycles
      /\ currentCycle \in Nat /\ List \in Seq(Events) /\ cursor \in 1 .. Len(List)
      /\ cursor \in Nat
  BY CycleFacts DEF IInv, TypeOK, ClockInv, List
<1>2. plan[2] = 0 /\ plan[2] \in Nat
  BY <1>1, InsertsFacts
<1>3. /\ Runs \in {"response", "reply"} /\ plan[1] \in {"reply", "transaction"}
      /\ Runs = Kind[List[cursor]]
  BY <1>1, <1>2, InsertsFacts DEF Runs
<1>4. Priority(plan[1]) \in Int /\ Priority(plan[1]) >= 0
  BY <1>3 DEF Priority
<1>5. ASSUME NEW i \in 1 .. cursor
      PROVE  StoredPriority(Kind[List[i]]) <= 0
  <2>1. i \in 1 .. Len(List) /\ i \in DOMAIN List /\ cursor \in DOMAIN List
    BY <1>1
  <2>2. Kind[List[i]] \in Kinds
    BY <1>1, <2>1, EventQueueAssumption
  <2>3. CASE Kind[List[i]] = "transaction"
    BY <2>3, <1>3, PriorityFacts DEF StoredPriority
  <2>4. CASE i = cursor
    BY <1>3, <2>4 DEF StoredPriority
  <2>5. CASE i < cursor /\ Kind[List[i]] # "transaction"
    <3>1. Priority(Kind[List[i]]) <= Priority(Kind[List[cursor]])
      BY <1>1, <1>3, <2>1, <2>5 DEF IInv, SameCycleOrder, List
    <3>2. Priority(Kind[List[cursor]]) = 0
      BY <1>3 DEF Priority
    <3>. QED  BY <2>2, <2>5, <3>1, <3>2, PriorityFacts
  <2>. QED  BY <1>1, <2>3, <2>4, <2>5
<1>6. PICK p \in 1 .. Len(List) + 1 :
        /\ p = PlaceIn(List, plan[1])
        /\ p <= Len(List) => StoredPriority(Kind[List[p]]) > Priority(plan[1])
  BY <1>1, PlaceFacts
<1>7. ASSUME p <= cursor PROVE FALSE
  <2>1. p \in 1 .. cursor /\ p <= Len(List) /\ p \in DOMAIN List
    BY <1>1, <1>6, <1>7
  <2>2. Kind[List[p]] \in Kinds
    BY <1>1, <2>1, EventQueueAssumption
  <2>. QED  BY <1>4, <1>5, <1>6, <2>1, <2>2, PriorityFacts
<1>. QED  BY <1>1, <1>6, <1>7

(* A list that is in order stays so when InsertEvent() adds an event. *)
LEMMA InsertKeepsOrder ==
  ASSUME NEW s \in Seq(Events), NEW e \in Events, NEW p, p = PlaceIn(s, Kind[e]),
         \A i, j \in DOMAIN s :
           i < j /\ "transaction" \notin {Kind[s[i]], Kind[s[j]]}
             => Priority(Kind[s[i]]) <= Priority(Kind[s[j]]),
         NEW r, r = InsertAt(s, p, e)
  PROVE  \A i, j \in DOMAIN r :
           i < j /\ "transaction" \notin {Kind[r[i]], Kind[r[j]]}
             => Priority(Kind[r[i]]) <= Priority(Kind[r[j]])
<1>1. Kind[e] \in Kinds /\ \A i \in 1 .. Len(s) : Kind[s[i]] \in Kinds
  BY EventQueueAssumption
<1>2. /\ p \in 1 .. Len(s) + 1
      /\ \A i \in 1 .. p - 1 : StoredPriority(Kind[s[i]]) <= Priority(Kind[e])
      /\ p <= Len(s) => StoredPriority(Kind[s[p]]) > Priority(Kind[e])
  BY <1>1, PlaceFacts
<1>3. /\ r \in Seq(Events) /\ Len(r) = Len(s) + 1
      /\ \A j \in 1 .. p - 1 : r[j] = s[j]
      /\ r[p] = e
      /\ \A j \in p .. Len(s) : r[j + 1] = s[j]
  BY <1>2, InsertAtFacts, SMTT(60)
<1>. DEFINE Ordered(k, l) == "transaction" \notin {k, l} => Priority(k) <= Priority(l)
<1>4. \A i, j \in 1 .. Len(s) : i < j => Ordered(Kind[s[i]], Kind[s[j]])
  OBVIOUS
<1>5. \A i \in 1 .. p - 1 : Ordered(Kind[s[i]], Kind[e])
  <2>. SUFFICES ASSUME NEW i \in 1 .. p - 1, Kind[s[i]] # "transaction"
                PROVE  Priority(Kind[s[i]]) <= Priority(Kind[e])
    OBVIOUS
  <2>1. i \in 1 .. Len(s)
    BY <1>2
  <2>. QED  BY <1>1, <1>2, <2>1, PriorityFacts
<1>6. \A j \in p .. Len(s) : Ordered(Kind[e], Kind[s[j]])
  <2>. SUFFICES ASSUME NEW j \in p .. Len(s), Kind[e] # "transaction",
                       Kind[s[j]] # "transaction"
                PROVE  Priority(Kind[e]) <= Priority(Kind[s[j]])
    OBVIOUS
  <2>1. j \in 1 .. Len(s) /\ p \in 1 .. Len(s) /\ p <= j
    BY <1>2
  <2>2. /\ StoredPriority(Kind[s[p]]) > Priority(Kind[e])
        /\ Kind[s[p]] \in Kinds /\ Kind[s[j]] \in Kinds
    BY <1>1, <1>2, <2>1
  <2>3. CASE Kind[s[p]] = "transaction"
    <3>1. Priority(Kind[e]) < 0
      BY <1>1, <2>2, <2>3, PriorityFacts
    <3>2. Kind[e] = "cleanup"
      BY <1>1, <3>1 DEF Kinds, Priority
    <3>. QED  BY <2>2, <3>2, PriorityFacts DEF Priority
  <2>4. CASE Kind[s[p]] # "transaction" /\ p = j
    BY <1>1, <2>2, <2>4, PriorityFacts
  <2>5. CASE Kind[s[p]] # "transaction" /\ p < j
    <3>1. Priority(Kind[s[p]]) <= Priority(Kind[s[j]])
      BY <1>4, <2>1, <2>5
    <3>. QED  BY <1>1, <2>2, <2>5, <3>1, PriorityFacts
  <2>. QED  BY <1>2, <2>1, <2>3, <2>4, <2>5
<1>. HIDE DEF Ordered
<1>7. ASSUME NEW i \in 1 .. Len(s) + 1, NEW j \in 1 .. Len(s) + 1, i < j
      PROVE  Ordered(Kind[r[i]], Kind[r[j]])
  <2>1. Len(s) \in Nat /\ p \in Nat
    BY <1>2
  <2>2. CASE j < p
    <3>1. /\ i \in 1 .. p - 1 /\ j \in 1 .. p - 1
          /\ i \in 1 .. Len(s) /\ j \in 1 .. Len(s)
      BY <1>2, <1>7, <2>1, <2>2
    <3>. QED  BY <1>3, <1>4, <1>7, <3>1
  <2>3. CASE j = p
    <3>1. i \in 1 .. p - 1
      BY <1>7, <2>1, <2>3
    <3>. QED  BY <1>3, <1>5, <2>3, <3>1
  <2>4. CASE j > p
    <3>1. PICK l \in p .. Len(s) : j = l + 1
      <4>1. j - 1 \in p .. Len(s) /\ j = (j - 1) + 1
        BY <2>1, <2>4
      <4>. QED  BY <4>1
    <3>2. CASE i < p
      <4>1. i \in 1 .. p - 1 /\ i \in 1 .. Len(s) /\ l \in 1 .. Len(s) /\ i < l
        BY <1>2, <2>1, <3>1, <3>2
      <4>. QED  BY <1>3, <1>4, <3>1, <4>1
    <3>3. CASE i = p
      BY <1>3, <1>6, <3>1, <3>3
    <3>4. CASE i > p
      <4>1. PICK k \in p .. Len(s) : i = k + 1
        <5>1. i - 1 \in p .. Len(s) /\ i = (i - 1) + 1
          BY <2>1, <3>4
        <5>. QED  BY <5>1
      <4>2. k \in 1 .. Len(s) /\ l \in 1 .. Len(s) /\ k < l
        BY <1>7, <1>2, <2>1, <3>1, <4>1
      <4>. QED  BY <1>3, <1>4, <3>1, <4>1, <4>2
    <3>. QED  BY <2>1, <3>2, <3>3, <3>4
  <2>. QED  BY <2>1, <2>2, <2>3, <2>4
<1>8. DOMAIN r = 1 .. Len(s) + 1
  BY <1>3
<1>. QED  BY <1>7, <1>8 DEF Ordered

(* An event is put into the list of its cycle, ahead of the iterator.      *)
LEMMA ScheduleStep ==
  ASSUME IInv, NEW e \in Events, Schedule(e)
  PROVE  IInv' /\ AgendaStep
<1>1. PICK plan \in Inserts :
        /\ plan[1] = Kind[e] /\ currentCycle + plan[2] <= Horizon
        /\ InsertEvent(e, currentCycle + plan[2])
  BY DEF Schedule
<1>2. /\ TypeOK /\ AgendaInv /\ \A x \in agenda : x[1] # e
      /\ UNCHANGED <<eventDriven, lastEventCycle, currentCycle, stepCycles>>
  BY LostIff DEF IInv, Schedule
<1>3. /\ plan[2] \in Nat /\ currentCycle \in Nat /\ Kind[e] \in Kinds
      /\ nextEventCycle \in Nat /\ nextEventCycle >= currentCycle /\ cursor \in Nat
  BY <1>2, InsertsFacts, CycleFacts, EventQueueAssumption DEF TypeOK, IInv, NextIsFirst
<1>4. PICK t \in Cycles : t = currentCycle + plan[2] /\ t >= currentCycle /\ t \in Nat
  BY <1>1, <1>3, CycleFacts
<1>5. PICK s \in Seq(Events) : s = eventMap[t]
  BY <1>2 DEF TypeOK
<1>6. PICK p \in 1 .. Len(s) + 1 : p = PlaceIn(s, Kind[e])
  BY <1>3, PlaceFacts
<1>7. /\ nextEventCycle' = Min({t, nextEventCycle})
      /\ eventMap' = [eventMap EXCEPT ![t] = InsertAt(@, p, e)]
      /\ cursor' = IF Handling /\ t = nextEventCycle /\ p <= cursor THEN cursor + 1 ELSE cursor
      /\ agenda' = agenda \cup {<<e, t>>}
  BY <1>1, <1>4, <1>5, <1>6 DEF InsertEvent
<1>8. Handling => nextEventCycle = currentCycle /\ nextEventCycle \in Cycles
  BY <1>2 DEF IInv, ClockInv, TypeOK
<1>9. Handling /\ t = nextEventCycle => p > cursor
  BY <1>1, <1>3, <1>4, <1>5, <1>6, PlaceAhead DEF List
<1>10. /\ cursor' = cursor
       /\ nextEventCycle' = IF t <= nextEventCycle THEN t ELSE nextEventCycle
       /\ Handling => nextEventCycle' = nextEventCycle
  <2>1. cursor' = cursor
    BY <1>3, <1>6, <1>7, <1>9
  <2>2. nextEventCycle' = IF t <= nextEventCycle THEN t ELSE nextEventCycle
    BY <1>3, <1>4, <1>7, MinOfTwo
  <2>3. Handling => nextEventCycle' = nextEventCycle
    BY <1>3, <1>4, <1>8, <2>2
  <2>. QED  BY <2>1, <2>2, <2>3
<1>11. PICK r : r = InsertAt(s, p, e)
  OBVIOUS
<1>12. /\ r \in Seq(Events) /\ Len(r) = Len(s) + 1
       /\ \A j \in 1 .. p - 1 : r[j] = s[j]
       /\ r[p] = e
       /\ \A j \in p .. Len(s) : r[j + 1] = s[j]
  BY <1>11, InsertAtFacts
<1>13. /\ eventMap' \in [Cycles -> Seq(Events)] /\ eventMap'[t] = r
       /\ \A u \in Cycles \ {t} : eventMap'[u] = eventMap[u]
  BY <1>2, <1>5, <1>7, <1>11, <1>12 DEF TypeOK
<1>14. /\ eventMap'[t] # << >>
       /\ \A u \in Cycles : eventMap[u] # << >> => nextEventCycle <= u
       /\ nextEventCycle # Infinity => nextEventCycle \in Cycles /\ eventMap[nextEventCycle] # << >>
  <2>1. r # << >>
    BY <1>12
  <2>2. nextEventCycle = FirstCycle(eventMap) /\ eventMap \in [Cycles -> Seq(Events)]
    BY <1>2 DEF IInv, NextIsFirst, TypeOK
  <2>. QED  BY <1>13, <2>1, <2>2, FirstCycleFacts
<1>15. nextEventCycle' = FirstCycle(eventMap') /\ nextEventCycle' \in Cycles
  <2>1. CASE t <= nextEventCycle
    <3>1. ASSUME NEW u \in Cycles, eventMap'[u] # << >>
          PROVE  t <= u
      <4>1. CASE u = t
        BY <1>4, <4>1
      <4>2. CASE u # t
        <5>1. nextEventCycle <= u /\ u \in Nat
          BY <1>13, <1>14, <3>1, <4>2, CycleFacts
        <5>. QED  BY <1>3, <1>4, <2>1, <5>1
      <4>. QED  BY <4>1, <4>2
    <3>. QED  BY <1>10, <1>13, <1>14, <2>1, <3>1, FirstCycleIs
  <2>2. CASE ~(t <= nextEventCycle)
    <3>1. nextEventCycle \in Cycles /\ nextEventCycle # t
      BY <1>3, <1>4, <1>14, <2>2, CycleFacts
    <3>2. \A u \in Cycles : eventMap'[u] # << >> => nextEventCycle <= u
      <4>. SUFFICES ASSUME NEW u \in Cycles, eventMap'[u] # << >>, u # t
                    PROVE  nextEventCycle <= u
        BY <1>3, <1>4, <2>2, <3>1, CycleFacts
      <4>. QED  BY <1>13, <1>14, Zenon
    <3>3. eventMap'[nextEventCycle] # << >>
      BY <1>13, <1>14, <3>1, CycleFacts
    <3>. QED  BY <1>10, <1>13, <2>2, <3>1, <3>2, <3>3, FirstCycleIs
  <2>. QED  BY <2>1, <2>2
<1>16. NextIsFirst' /\ ClockInv'
  BY <1>2, <1>3, <1>4, <1>8, <1>10, <1>15 DEF IInv, NextIsFirst, ClockInv, Handling
<1>17. TypeOK'
  <2>1. Handling' => cursor' \in DOMAIN (List')
    <3>. SUFFICES ASSUME Handling
                  PROVE  cursor \in DOMAIN (eventMap'[nextEventCycle])
      BY <1>10 DEF Handling, List
    <3>1. cursor \in 1 .. Len(eventMap[nextEventCycle]) /\ nextEventCycle \in Cycles
      BY <1>2, <1>8 DEF TypeOK, List
    <3>2. CASE t = nextEventCycle
      BY <1>5, <1>12, <1>13, <3>1, <3>2
    <3>3. CASE t # nextEventCycle
      BY <1>13, <3>1, <3>3
    <3>. QED  BY <3>2, <3>3
  <2>2. agenda' \in SUBSET (Events \X Cycles)
    BY <1>2, <1>7 DEF TypeOK
  <2>. QED  BY <1>2, <1>3, <1>10, <1>13, <1>15, <2>1, <2>2, CycleFacts DEF TypeOK
<1>18. \A u \in Cycles, j \in Nat : Pending(u, j) => eventMap[u][j] # e
  <2>. SUFFICES ASSUME NEW u \in Cycles, NEW j \in Nat, Pending(u, j), eventMap[u][j] = e
                PROVE  FALSE
    OBVIOUS
  <2>1. <<e, u>> \in agenda
    BY <1>2 DEF AgendaInv
  <2>. QED  BY <1>2, <2>1
<1>19. /\ p \in Nat /\ Len(s) \in Nat /\ Pending(t, p)' /\ eventMap'[t][p] = e
  BY <1>9, <1>10, <1>12, <1>13 DEF Pending, Handling
<1>20. ASSUME NEW u \in Cycles, NEW j \in Nat, u # t
       PROVE  /\ Pending(u, j)' <=> Pending(u, j)
              /\ eventMap'[u][j] = eventMap[u][j]
  BY <1>10, <1>13, <1>20 DEF Pending, Handling
<1>21. ASSUME NEW j \in Nat, j < p
       PROVE  /\ Pending(t, j)' <=> Pending(t, j)
              /\ Pending(t, j) => eventMap'[t][j] = eventMap[t][j]
  BY <1>5, <1>10, <1>12, <1>13, <1>19, <1>21 DEF Pending, Handling
<1>22. ASSUME NEW j \in Nat, j >= p
       PROVE  /\ Pending(t, j + 1)' <=> Pending(t, j)
              /\ Pending(t, j) => eventMap'[t][j + 1] = eventMap[t][j]
  <2>1. Pending(t, j + 1)' <=> Pending(t, j)
    <3>1. Len(eventMap'[t]) = Len(eventMap[t]) + 1 /\ Len(eventMap[t]) \in Nat /\ p > 0
      BY <1>5, <1>6, <1>12, <1>13, <1>19
    <3>2. j + 1 \in 1 .. Len(eventMap'[t]) <=> j \in 1 .. Len(eventMap[t])
      BY <1>22, <1>19, <3>1
    <3>3. (Handling' <=> Handling) /\ (Handling /\ t = nextEventCycle => j > cursor /\ j + 1 > cursor)
      BY <1>2, <1>9, <1>10, <1>19, <1>22 DEF Handling, TypeOK
    <3>. QED  BY <1>10, <3>2, <3>3 DEF Pending, Handling
  <2>2. Pending(t, j) => j \in p .. Len(s)
    BY <1>5, <1>19, <1>22 DEF Pending
  <2>. QED  BY <1>5, <1>12, <1>13, <2>1, <2>2
<1>23. ASSUME NEW u \in Cycles, NEW j \in Nat, Pending(u, j)', ~(u = t /\ j = p)
       PROVE  \E k \in Nat : /\ Pending(u, k) /\ eventMap[u][k] = eventMap'[u][j]
                             /\ j = IF u = t /\ k >= p THEN k + 1 ELSE k
  <2>1. CASE u # t
    BY <1>20, <1>23, <2>1
  <2>2. CASE u = t /\ j < p
    BY <1>19, <1>21, <1>23, <2>2
  <2>3. CASE u = t /\ j > p
    <3>1. PICK k \in Nat : j = k + 1 /\ k >= p
      <4>1. j - 1 \in Nat /\ j = (j - 1) + 1 /\ j - 1 >= p
        BY <1>19, <2>3
      <4>. QED  BY <4>1
    <3>. QED  BY <1>22, <1>23, <2>3, <3>1
  <2>. QED  BY <1>19, <1>23, <2>1, <2>2, <2>3
<1>24. ASSUME NEW u \in Cycles, NEW k \in Nat, Pending(u, k)
       PROVE  \E j \in Nat : Pending(u, j)' /\ eventMap'[u][j] = eventMap[u][k]
  <2>1. CASE u # t
    BY <1>20, <1>24, <2>1
  <2>2. CASE u = t /\ k < p
    BY <1>21, <1>24, <2>2
  <2>3. CASE u = t /\ k >= p
    BY <1>22, <1>24, <2>3
  <2>. QED  BY <1>19, <2>1, <2>2, <2>3
<1>25. PendingOnce'
  <2>. SUFFICES ASSUME NEW u \in Cycles, NEW v \in Cycles, NEW j \in Nat, NEW l \in Nat,
                       Pending(u, j)', Pending(v, l)', eventMap'[u][j] = eventMap'[v][l]
                PROVE  u = v /\ j = l
    BY DEF PendingOnce
  <2>1. CASE (u = t /\ j = p) \/ (v = t /\ l = p)
    BY <1>18, <1>19, <1>23, <2>1
  <2>2. CASE ~((u = t /\ j = p) \/ (v = t /\ l = p))
    <3>1. PICK k \in Nat : /\ Pending(u, k) /\ eventMap[u][k] = eventMap'[u][j]
                           /\ j = IF u = t /\ k >= p THEN k + 1 ELSE k
      BY <1>23, <2>2
    <3>2. PICK m \in Nat : /\ Pending(v, m) /\ eventMap[v][m] = eventMap'[v][l]
                           /\ l = IF v = t /\ m >= p THEN m + 1 ELSE m
      BY <1>23, <2>2
    <3>3. u = v /\ k = m
      BY <3>1, <3>2 DEF IInv, PendingOnce
    <3>. QED  BY <3>1, <3>2, <3>3
  <2>. QED  BY <2>1, <2>2
<1>26. AgendaInv'
  <2>. SUFFICES ASSUME NEW f \in Events, NEW u \in Cycles
                PROVE  <<f, u>> \in agenda' <=>
                         \E j \in Nat : Pending(u, j)' /\ eventMap'[u][j] = f
    BY DEF AgendaInv
  <2>1. ASSUME <<f, u>> \in agenda'
        PROVE  \E j \in Nat : Pending(u, j)' /\ eventMap'[u][j] = f
    <3>1. CASE f = e /\ u = t
      BY <1>19, <3>1
    <3>2. CASE ~(f = e /\ u = t)
      <4>1. <<f, u>> \in agenda
        BY <1>7, <2>1, <3>2
      <4>2. PICK k \in Nat : Pending(u, k) /\ eventMap[u][k] = f
        BY <1>2, <4>1 DEF AgendaInv
      <4>. QED  BY <1>24, <4>2
    <3>. QED  BY <3>1, <3>2
  <2>2. ASSUME NEW j \in Nat, Pending(u, j)', eventMap'[u][j] = f
        PROVE  <<f, u>> \in agenda'
    <3>1. CASE u = t /\ j = p
      BY <1>7, <1>19, <2>2, <3>1
    <3>2. CASE ~(u = t /\ j = p)
      <4>1. PICK k \in Nat : Pending(u, k) /\ eventMap[u][k] = f
        BY <1>23, <2>2, <3>2
      <4>. QED  BY <1>2, <1>7, <4>1 DEF AgendaInv
    <3>. QED  BY <3>1, <3>2
  <2>. QED  BY <2>1, <2>2
<1>27. SameCycleOrder'
  <2>1. \A i, j \in DOMAIN r :
          i < j /\ "transaction" \notin {Kind[r[i]], Kind[r[j]]}
            => Priority(Kind[r[i]]) <= Priority(Kind[r[j]])
    <3>1. \A i, j \in DOMAIN s :
            i < j /\ "transaction" \notin {Kind[s[i]], Kind[s[j]]}
              => Priority(Kind[s[i]]) <= Priority(Kind[s[j]])
      BY <1>5 DEF IInv, SameCycleOrder
    <3>. QED  BY <1>6, <1>11, <3>1, InsertKeepsOrder
  <2>2. \A u \in Cycles \ {t} : \A i, j \in DOMAIN eventMap[u] :
          i < j /\ "transaction" \notin {Kind[eventMap[u][i]], Kind[eventMap[u][j]]}
            => Priority(Kind[eventMap[u][i]]) <= Priority(Kind[eventMap[u][j]])
    BY DEF IInv, SameCycleOrder
  <2>. QED  BY <1>13, <2>1, <2>2 DEF SameCycleOrder
<1>28. AgendaStep
  <2>1. A!Schedule(e, t)
    BY <1>2, <1>4, <1>7 DEF A!Schedule
  <2>. QED  BY <2>1 DEF AgendaStep, A!Next
<1>. QED  BY <1>16, <1>17, <1>25, <1>26, <1>27, <1>28, LostIffNext DEF IInv

-----------------------------------------------------------------------------
(* SetConfig() leaves one list, with every refresh pulse once. *)
LEMMA InitInv ==
  ASSUME Init
  PROVE  IInv /\ A!Init
<1>. DEFINE s == SetToSeq(Pulses)
<1>1. IsFiniteSet(Pulses) /\ Pulses \subseteq Events
  BY FS_Subset, EventQueueAssumption DEF Pulses
<1>2. /\ s \in Seq(Pulses)
      /\ \A x \in Pulses : \E i \in DOMAIN s : s[i] = x
      /\ \A i, j \in DOMAIN s : s[i] = s[j] => i = j
  BY <1>1, SetToSeqFacts
<1>3. s \in Seq(Events) /\ DOMAIN s = 1 .. Len(s) /\ Len(s) \in Nat
      /\ \A i \in DOMAIN s : i \in Nat /\ s[i] \in Pulses
  BY <1>1, <1>2
<1>. HIDE DEF s
<1>4. /\ eventDriven \in BOOLEAN
      /\ eventMap = [t \in Cycles |-> IF t = tREFI THEN s ELSE << >>]
      /\ nextEventCycle = FirstCycle(eventMap)
      /\ lastEventCycle = 0 /\ currentCycle = 0 /\ stepCycles = 0 /\ cursor = 0
      /\ agenda = {<<e, tREFI>> : e \in Pulses}
  BY DEF Init, s
<1>5. eventMap \in [Cycles -> Seq(Events)]
  BY <1>3, <1>4
<1>6. nextEventCycle \in Cycles \cup {Infinity}
  BY <1>4, <1>5, FirstCycleFacts
<1>7. agenda \in SUBSET (Events \X Cycles)
  BY <1>1, <1>4, CycleFacts
<1>8. TypeOK
  BY <1>4, <1>5, <1>6, <1>7, CycleFacts, EventQueueAssumption DEF TypeOK, Handling
<1>9. NextIsFirst /\ ClockInv
  BY <1>4, <1>6, CycleFacts DEF NextIsFirst, ClockInv, Handling
<1>10. ASSUME NEW t \in Cycles, NEW i \in Nat
       PROVE  /\ Pending(t, i) <=> t = tREFI /\ i \in DOMAIN s
              /\ Pending(t, i) => eventMap[t][i] = s[i]
  BY <1>3, <1>4 DEF Pending, Handling
<1>11. PendingOnce
  BY <1>2, <1>10 DEF PendingOnce
<1>12. AgendaInv
  <2>. SUFFICES ASSUME NEW f \in Events, NEW t \in Cycles
                PROVE  <<f, t>> \in agenda <=>
                         \E i \in Nat : Pending(t, i) /\ eventMap[t][i] = f
    BY DEF AgendaInv
  <2>1. <<f, t>> \in agenda <=> f \in Pulses /\ t = tREFI
    BY <1>4
  <2>2. f \in Pulses <=> \E i \in DOMAIN s : s[i] = f
    BY <1>2, <1>3
  <2>. QED  BY <1>3, <1>10, <2>1, <2>2
<1>13. SameCycleOrder
  <2>. SUFFICES ASSUME NEW t \in Cycles, NEW i \in DOMAIN eventMap[t],
                       NEW j \in DOMAIN eventMap[t]
                PROVE  Priority(Kind[eventMap[t][i]]) <= Priority(Kind[eventMap[t][j]])
    BY DEF SameCycleOrder
  <2>1. eventMap[t] = s
    BY <1>4
  <2>2. Kind[s[i]] = "refresh" /\ Kind[s[j]] = "refresh"
    BY <1>3, <2>1 DEF Pulses
  <2>. QED  BY <2>1, <2>2 DEF Priority
<1>14. A!Init
  BY <1>4, <1>7 DEF A!Init
<1>. QED  BY <1>8, <1>9, <1>11, <1>12, <1>13, <1>14, LostIff DEF IInv

(* Every step keeps the invariant. *)
LEMMA StepInv ==
  ASSUME IInv, [Next]_vars
  PROVE  IInv' /\ AgendaStep
<1>1. CASE Next
  BY <1>1, ScheduleStep, TakeBackStep, LoopStep, LoopPassesStep, LoopProcessesStep,
     NextEventStep, ProcessEndsStep DEF Next
<1>2. CASE UNCHANGED vars
  <2>1. UNCHANGED <<eventDriven, eventMap, nextEventCycle, lastEventCycle, currentCycle,
                    stepCycles, cursor, agenda>>
    BY <1>2 DEF vars
  <2>2. TypeOK' /\ NextIsFirst' /\ NoEventLost' /\ SameCycleOrder' /\ ClockInv'
    BY <2>1 DEF IInv, TypeOK, NextIsFirst, NoEventLost, SameCycleOrder, ClockInv,
                Handling, List
  <2>3. PendingOnce'
    BY <2>1 DEF IInv, PendingOnce, Pending, Handling
  <2>4. AgendaStep
    BY <2>1 DEF AgendaStep, A!vars
  <2>. QED  BY <2>2, <2>3, <2>4 DEF IInv
<1>. QED  BY <1>1, <1>2

(* The inductive invariant of the queue: the types, the first cycle, what  *)
(* is pending, the order of priorities and the clock, together.            *)
THEOREM QueueInvariant == Spec => []IInv
<1>1. Init => IInv
  BY InitInv
<1>2. IInv /\ [Next]_vars => IInv'
  BY StepInv
<1>. QED  BY <1>1, <1>2, PTL DEF Spec

(* The variables of the queue keep their types: the iterator of Process()  *)
(* always stands at an element of the list of nextEventCycle.              *)
THEOREM QueueTypes == Spec => []TypeOK
<1>1. IInv => TypeOK
  BY DEF IInv
<1>. QED  BY <1>1, QueueInvariant, PTL

(* The assertion of Process() holds and the subtraction in Loop() does not *)
(* wrap: nextEventCycle is the first key of the map and not in the past.   *)
THEOREM QueueNextIsFirst == Spec => []NextIsFirst
<1>1. IInv => NextIsFirst
  BY DEF IInv
<1>. QED  BY <1>1, QueueInvariant, PTL

(* No event is lost: what was scheduled and neither removed nor begun is   *)
(* in its list ahead of the iterator, also when handlers insert into the   *)
(* list that is being processed and take events out of it.                 *)
THEOREM QueueLosesNoEvent == Spec => []NoEventLost
<1>1. IInv => NoEventLost
  BY DEF IInv
<1>. QED  BY <1>1, QueueInvariant, PTL

(* The events of a cycle, but those of type EventCycle, are handled in the *)
(* order of their priorities, each of which is fixed (InsertEvent()).      *)
THEOREM QueueInOrder == Spec => []SameCycleOrder
<1>1. IInv => SameCycleOrder
  BY DEF IInv
<1>. QED  BY <1>1, QueueInvariant, PTL

(* The queue implements Agenda: every event happens in the cycle it was    *)
(* scheduled for, and Loop() passes over none.                             *)
THEOREM QueueKeepsAgenda == Spec => KeepsAgenda
<1>1. Init => A!Init
  BY InitInv
<1>2. IInv /\ [Next]_vars => [A!Next]_(A!vars)
  BY StepInv DEF AgendaStep
<1>. QED  BY <1>1, <1>2, QueueInvariant, PTL DEF Spec, KeepsAgenda, A!Spec
=============================================================================
