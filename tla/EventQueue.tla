----------------------------- MODULE EventQueue -----------------------------
(***************************************************************************)
(* NVMain's EventQueue (src/EventQueue.cpp) with those who use it.         *)
(*                                                                         *)
(* The handlers of the events schedule and remove other events while       *)
(* Process() walks through the list of a cycle, so that the list may       *)
(* change under its iterator.  A handler is the phase while the cursor     *)
(* stands at its event; what it may insert, and how far ahead, is read off *)
(* the controllers and devices (Inserts).                                  *)
(***************************************************************************)
EXTENDS Integers, SequencesExt

CONSTANTS
  Events,          \* names of event objects, free again when an event is over
  Kind,            \* the kind of an event, a member of Kinds
  OffChipLatency,  \* a parameter of OffChipBus, may be 0
  tREFI,           \* cycles between refresh pulses
  MaxSteps,        \* bound: the largest argument of Loop()
  MaxAhead,        \* bound: the longest time a device schedules ahead
  MaxCycle         \* bound: the clock stops there

Kinds == {"response", "reply", "cleanup", "refresh", "transaction", "command"}

ASSUME EventQueueAssumption ==
  /\ IsFiniteSet(Events) /\ Kind \in [Events -> Kinds]
  /\ OffChipLatency \in Nat
  /\ tREFI \in Nat \ {0} /\ MaxSteps \in Nat /\ MaxAhead \in Nat /\ MaxCycle \in Nat

VARIABLES
  eventDriven,      \* the configuration: who drives the queue
  eventMap,         \* per cycle, the list of its events; << >> for no entry
  nextEventCycle,
  lastEventCycle,
  currentCycle,
  stepCycles,       \* local variable of Loop()
  cursor,           \* iterator of Process(): a position in the list, or 0
  agenda            \* auxiliary: what was scheduled, neither removed nor begun

vars == <<eventDriven, eventMap, nextEventCycle, lastEventCycle, currentCycle,
          stepCycles, cursor, agenda>>

(* The cycles anything can be scheduled for, and numeric_limits::max().    *)
Horizon == MaxCycle + Max({tREFI, MaxAhead, OffChipLatency})
Cycles == 0 .. Horizon
Infinity == Horizon + 1

-----------------------------------------------------------------------------
(* The priority passed to InsertEvent() or InsertCallback(): a constant of *)
(* MemoryController.h, or 0 by default.                                    *)
Priority(k) ==
  CASE k = "cleanup" -> -10
    [] k \in {"response", "reply"} -> 0
    [] k = "refresh" -> 20
    [] k = "transaction" -> 30
    [] k = "command" -> 40

\* Mutant: InsertCallback() does not store the priority.
StoredPriorityNone(k) == 0

(* The priority the event object carries: InsertCallback() stores the one  *)
(* it is given, InsertEvent() does not.                                    *)
StoredPriority(k) == IF k \in {"cleanup", "refresh", "command"} THEN Priority(k) ELSE 0

\* Mutant: events of the same priority are put before each other.
PlaceInReversed(list, k) ==
  LET others == {i \in DOMAIN list : StoredPriority(Kind[list[i]]) >= Priority(k)}
  IN Min(others \cup {Len(list) + 1})

(* Where InsertEvent() puts an event: before the first of larger priority. *)
PlaceIn(list, k) ==
  LET larger == {i \in DOMAIN list : StoredPriority(Kind[list[i]]) > Priority(k)}
  IN Min(larger \cup {Len(list) + 1})

(* eventMap.begin()->first, or the maximum if the map is empty. *)
FirstCycle(map) == Min({t \in Cycles : map[t] # << >>} \cup {Infinity})

(* FindEvent() and FindCallback(): is an event of the kind in the list of  *)
(* cycle t?  The events Process() has handled are still in its list, but   *)
(* deleted; what is read of them is undefined.  So a caller that looks is  *)
(* sure to find only the ones to come, and may believe to find another.    *)
Find(k, t) == \E x \in agenda : Kind[x[1]] = k /\ x[2] = t

-----------------------------------------------------------------------------
Handling == cursor > 0
Outside == ~Handling /\ stepCycles = 0
List == eventMap[nextEventCycle]

(* The code that is running: the handler of an event, or whoever calls the *)
(* queue between two calls of Loop().                                      *)
Runs == IF Handling THEN Kind[List[cursor]] ELSE "outside"

(* What the running code inserts, as pairs of a kind and a distance.       *)
(* Between calls of Loop(): the controller's Cycle() issues a command, or  *)
(* (event driven) a request arrives and Enqueue() wakes the scheduler.     *)
(* RequestComplete() of a device may start an implicit precharge, that of  *)
(* the off-chip bus sends a reply to the controller, and gem5 may answer   *)
(* the reply with a new request.  A refresh pulse inserts the next.        *)
(* Cycle() of the controller queues commands and wakes itself again;       *)
(* CommandQueueCallback() issues one.                                      *)
Inserts ==
  LET ahead(k) == {k} \X (1 .. MaxAhead)
      ifDriven(S) == IF eventDriven THEN S ELSE {}
  IN CASE Runs = "outside" ->
            ahead("response") \cup (IF eventDriven THEN {<<"transaction", 0>>}
                                    ELSE {<<"cleanup", 1>>})
       [] Runs = "response" -> ahead("response") \cup {<<"reply", OffChipLatency>>}
       [] Runs = "reply" -> ifDriven({<<"transaction", 0>>})
       [] Runs = "cleanup" -> {}
       [] Runs = "refresh" -> {<<"refresh", tREFI>>} \cup ifDriven(ahead("command"))
       [] Runs = "transaction" -> ahead("command") \cup {<<"transaction", 1>>}
       [] Runs = "command" ->
            ahead("response") \cup ahead("command")
              \cup {<<"cleanup", 1>>, <<"transaction", 1>>}

(* Callers that look before they insert.  CycleCommandQueues() inserts its *)
(* EventCycle without looking.                                             *)
Looks(k) == k \in {"cleanup", "command"} \/ (k = "transaction" /\ Runs # "command")

-----------------------------------------------------------------------------
(* EventQueue::InsertEvent().  An iterator of a std::list keeps its        *)
(* element when another one is inserted in front of it.                    *)
InsertEvent(e, t) ==
  LET place == PlaceIn(eventMap[t], Kind[e]) IN
  /\ nextEventCycle' = Min({t, nextEventCycle})
  /\ eventMap' = [eventMap EXCEPT ![t] = InsertAt(@, place, e)]
  /\ cursor' = IF Handling /\ t = nextEventCycle /\ place <= cursor THEN cursor + 1 ELSE cursor
  /\ agenda' = agenda \cup {<<e, t>>}

(* The running code schedules an event. *)
Schedule(e) ==
  /\ Outside \/ Handling
  /\ \A x \in agenda : x[1] # e
  /\ \E plan \in Inserts :
       LET t == currentCycle + plan[2] IN
       /\ plan[1] = Kind[e] /\ t <= Horizon
       /\ Looks(Kind[e]) => ~Find(Kind[e], t)
       /\ InsertEvent(e, t)
  /\ UNCHANGED <<eventDriven, lastEventCycle, currentCycle, stepCycles>>

\* Mutant: nextEventCycle still names the cycle of the removed event.
RemoveEventStale(i, t) ==
  /\ eventMap' = [eventMap EXCEPT ![t] = RemoveAt(@, i)]
  /\ UNCHANGED nextEventCycle
  /\ agenda' = agenda \ {<<eventMap[t][i], t>>}

(* EventQueue::RemoveEvent() of the event at position i of cycle t. *)
RemoveEvent(i, t) ==
  /\ eventMap' = [eventMap EXCEPT ![t] = RemoveAt(@, i)]
  /\ nextEventCycle' = FirstCycle(eventMap')
  /\ agenda' = agenda \ {<<eventMap[t][i], t>>}

(* A write is paused, or a traced request completes: a response that was   *)
(* to come is taken back.  The caller knows that it has not come yet.      *)
TakeBack ==
  /\ Outside \/ Runs \in {"response", "reply", "command"}
  /\ \E t \in Cycles : \E i \in DOMAIN eventMap[t] :
       /\ Kind[eventMap[t][i]] = "response"
       /\ Handling /\ t = nextEventCycle => i > cursor
       /\ RemoveEvent(i, t)
  /\ UNCHANGED <<eventDriven, lastEventCycle, currentCycle, stepCycles, cursor>>

-----------------------------------------------------------------------------
(* Process() calls the handler of the event at position i of cycle t. *)
Begin(i, t) ==
  /\ cursor' = i
  /\ agenda' = agenda \ {<<eventMap[t][i], t>>}

(* Loop( steps ) is called.  NVMain::Cycle() passes 1, the global queue of *)
(* the event-driven mode any number; for 0 there must be an event now.     *)
Loop(steps) ==
  /\ Outside
  /\ eventDriven \/ steps = 1
  /\ currentCycle + steps <= MaxCycle
  /\ stepCycles' = steps
  /\ IF steps = 0
     THEN nextEventCycle = currentCycle /\ Begin(1, nextEventCycle)
     ELSE UNCHANGED <<cursor, agenda>>
  /\ UNCHANGED <<eventDriven, eventMap, nextEventCycle, lastEventCycle, currentCycle>>

\* Mutant: an event in the last cycle of the step is passed over.
NothingInStepShort == nextEventCycle >= currentCycle + stepCycles

\* Mutant: off by one the other way.
NothingInStepLate == nextEventCycle > currentCycle + stepCycles + 1

NothingInStep == nextEventCycle > currentCycle + stepCycles

(* A round of Loop() without an event ... *)
LoopPasses ==
  /\ ~Handling /\ stepCycles > 0
  /\ NothingInStep
  /\ currentCycle' = currentCycle + stepCycles
  /\ stepCycles' = 0
  /\ UNCHANGED <<eventDriven, eventMap, nextEventCycle, lastEventCycle, cursor, agenda>>

\* Mutant: Loop() returns when it has processed one cycle.
LoopProcessesOnce ==
  /\ ~Handling /\ stepCycles > 0
  /\ ~NothingInStep
  /\ currentCycle' = nextEventCycle
  /\ stepCycles' = 0
  /\ Begin(1, nextEventCycle)
  /\ UNCHANGED <<eventDriven, eventMap, nextEventCycle, lastEventCycle>>

(* ... and one that begins Process(). *)
LoopProcesses ==
  /\ ~Handling /\ stepCycles > 0
  /\ ~NothingInStep
  /\ currentCycle' = nextEventCycle
  /\ stepCycles' = stepCycles - (nextEventCycle - currentCycle)
  /\ Begin(1, nextEventCycle)
  /\ UNCHANGED <<eventDriven, eventMap, nextEventCycle, lastEventCycle>>

LastOfList == cursor = Len(List)

(* A refresh pulse does not return before it has inserted the next one. *)
HandlerDone == Handling /\ (Runs = "refresh" => Find("refresh", currentCycle + tREFI))

(* A handler returns and Process() goes to the next event of the list ... *)
NextEvent ==
  /\ HandlerDone /\ ~LastOfList
  /\ Begin(cursor + 1, nextEventCycle)
  /\ UNCHANGED <<eventDriven, eventMap, nextEventCycle, lastEventCycle, currentCycle, stepCycles>>

(* ... or it erases the list and looks for the next cycle. *)
ProcessEnds ==
  /\ HandlerDone /\ LastOfList
  /\ eventMap' = [eventMap EXCEPT ![nextEventCycle] = << >>]
  /\ lastEventCycle' = nextEventCycle
  /\ nextEventCycle' = FirstCycle(eventMap')
  /\ cursor' = 0
  /\ UNCHANGED <<eventDriven, currentCycle, stepCycles, agenda>>

-----------------------------------------------------------------------------
(* MemoryController::SetConfig() inserts the first refresh pulse of each   *)
(* group; here all fall into one cycle.                                    *)
Pulses == {e \in Events : Kind[e] = "refresh"}

Init ==
  /\ eventDriven \in BOOLEAN
  /\ eventMap = [t \in Cycles |-> IF t = tREFI THEN SetToSeq(Pulses) ELSE << >>]
  /\ nextEventCycle = FirstCycle(eventMap)
  /\ lastEventCycle = 0 /\ currentCycle = 0
  /\ stepCycles = 0 /\ cursor = 0
  /\ agenda = {<<e, tREFI>> : e \in Pulses}

Next ==
  \/ \E e \in Events : Schedule(e)
  \/ TakeBack
  \/ \E steps \in 0 .. MaxSteps : Loop(steps)
  \/ LoopPasses \/ LoopProcesses \/ NextEvent \/ ProcessEnds

Spec == Init /\ [][Next]_vars

(* A loop and a handler that were begun run on, and time passes: tick()    *)
(* keeps calling Loop() with a positive number of cycles, whatever else is *)
(* done with the queue between two calls.                                  *)
Advance == \E steps \in 1 .. MaxSteps : Loop(steps)

RunsOn ==
  \/ LoopPasses \/ LoopProcesses \/ NextEvent \/ ProcessEnds
  \/ Runs = "refresh" /\ \E e \in Pulses : Schedule(e)

FairSpec == Spec /\ WF_vars(RunsOn) /\ SF_vars(Advance)

-----------------------------------------------------------------------------
TypeOK ==
  /\ eventDriven \in BOOLEAN
  /\ eventMap \in [Cycles -> Seq(Events)]
  /\ nextEventCycle \in Cycles \cup {Infinity}
  /\ lastEventCycle \in Cycles /\ currentCycle \in 0 .. MaxCycle
  /\ stepCycles \in 0 .. MaxSteps
  /\ cursor \in Nat /\ (Handling => nextEventCycle # Infinity /\ cursor \in DOMAIN List)
  /\ agenda \in SUBSET (Events \X Cycles)

(* The assertion of Process() and the arithmetic of Loop(): nextEventCycle *)
(* is the first cycle of the map, so Process() finds a list, and it does   *)
(* not lie before the clock, so the unsigned subtraction                   *)
(* nextEventCycle - currentCycle does not wrap.                            *)
NextIsFirst ==
  /\ nextEventCycle = FirstCycle(eventMap)
  /\ nextEventCycle >= currentCycle

(* Whatever was scheduled and neither removed nor handled is in the list   *)
(* of its cycle, ahead of the iterator if Process() is at work on it.  An  *)
(* event put behind the iterator would be erased unhandled.                *)
NoEventLost ==
  agenda = UNION {{<<eventMap[t][i], t>> :
                     i \in {j \in DOMAIN eventMap[t] :
                              Handling /\ t = nextEventCycle => j > cursor}} : t \in Cycles}

(* Responses and callbacks of one cycle are handled in the order of their  *)
(* priorities: first CleanupCallback(), which takes issued commands out of *)
(* the queues, then what the devices report, then refresh pulses, then the *)
(* next commands.  (EventCycle takes a place of its own, because its       *)
(* priority is not stored.)                                                *)
SameCycleOrder ==
  \A t \in Cycles : \A i, j \in DOMAIN eventMap[t] :
    LET k == Kind[eventMap[t][i]]
        l == Kind[eventMap[t][j]]
    IN i < j /\ "transaction" \notin {k, l} => Priority(k) <= Priority(l)

(* The queue keeps the promise of Agenda: every event happens in its       *)
(* cycle, and Loop() passes over none, however many cycles it steps and    *)
(* whatever the handlers insert and remove.                                *)
A == INSTANCE Agenda WITH now <- currentCycle

KeepsAgenda == A!Spec

(* What is scheduled for a cycle is handled or taken back: Process() comes *)
(* to the end of a list that grows while it is walked, and the clock goes  *)
(* on.                                                                     *)
EventsHappen ==
  \A t \in 0 .. MaxCycle - 1 :
    (\E x \in agenda : x[2] = t) ~> (currentCycle > t /\ \A x \in agenda : x[2] # t)
=============================================================================
