------------------------------- MODULE Agenda -------------------------------
(***************************************************************************)
(* What an event queue promises to those who schedule events in it: an     *)
(* event happens in the cycle it was scheduled for, and time does not pass *)
(* a cycle in which something is still to happen.                          *)
(***************************************************************************)
EXTENDS Naturals

CONSTANTS Events, Cycles

VARIABLES
  now,       \* the current cycle
  agenda     \* what is to happen, as pairs of an event and its cycle

vars == <<now, agenda>>

Init == now = 0 /\ agenda \subseteq Events \X Cycles

Schedule(e, t) ==
  /\ t >= now
  /\ agenda' = agenda \cup {<<e, t>>}
  /\ UNCHANGED now

Cancel(e, t) ==
  /\ <<e, t>> \in agenda
  /\ agenda' = agenda \ {<<e, t>>}
  /\ UNCHANGED now

(* Time passes up to the cycle of event e, which happens. *)
Happen(e, t) ==
  /\ <<e, t>> \in agenda
  /\ t >= now
  /\ \A x \in agenda : x[2] >= t
  /\ now' = t
  /\ agenda' = agenda \ {<<e, t>>}

(* Time passes, and no cycle in which something is to happen. *)
Pass(t) ==
  /\ t > now
  /\ \A x \in agenda : x[2] > t
  /\ now' = t
  /\ UNCHANGED agenda

Next ==
  \/ \E e \in Events : \E t \in Cycles : Schedule(e, t)
  \/ \E x \in agenda : Cancel(x[1], x[2]) \/ Happen(x[1], x[2])
  \/ \E t \in Cycles : Pass(t)

Spec == Init /\ [][Next]_vars
=============================================================================
