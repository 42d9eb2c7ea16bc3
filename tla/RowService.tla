----------------------------- MODULE RowService -----------------------------
(***************************************************************************)
(* What a memory controller promises to NVMain, and NVMain to the memory   *)
(* objects of gem5: every request it accepts is handed to the devices once *)
(* and completed once, and the requests for one row are handed over in the *)
(* order in which they came, so that a read after a write to an address    *)
(* cannot overtake it.  Nothing is promised about different rows.          *)
(***************************************************************************)
CONSTANTS Requests, Address   \* the address of a request: its row

VARIABLES
  waiting,     \* the requests not yet handed over
  before,      \* of two such requests for one row, which came first
  inService    \* the requests the devices are working on

vars == <<waiting, before, inService>>

Init == waiting = {} /\ before = {} /\ inService = {}

(* A request comes after all those that wait for its row. *)
Accept(r) ==
  /\ r \notin waiting \cup inService
  /\ waiting' = waiting \cup {r}
  /\ before' = before \cup ({s \in waiting : Address[s] = Address[r]} \X {r})
  /\ UNCHANGED inService

(* The first one of its row is handed over. *)
HandOver(r) ==
  /\ r \in waiting
  /\ \A s \in waiting : <<s, r>> \notin before
  /\ waiting' = waiting \ {r}
  /\ before' = before \ ({r} \X waiting)
  /\ inService' = inService \cup {r}

Complete(r) ==
  /\ r \in inService
  /\ inService' = inService \ {r}
  /\ UNCHANGED <<waiting, before>>

Next == \E r \in Requests : Accept(r) \/ HandOver(r) \/ Complete(r)

Spec == Init /\ [][Next]_vars
=============================================================================
