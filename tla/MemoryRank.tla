----------------------------- MODULE MemoryRank -----------------------------
(***************************************************************************)
(* A rank of memory devices as NVMain simulates it: StandardRank           *)
(* (Ranks/StandardRank/StandardRank.cpp), its banks (Banks/DDR3Bank) and   *)
(* the one subarray of each bank (src/SubArray.cpp; the configurations of  *)
(* this repository set MATHeight = ROWS).  A rank is a record:             *)
(*                                                                         *)
(*   state    the rank's own state                                         *)
(*   bank     the state of each DDR3Bank                                   *)
(*   array    the state of its SubArray                                    *)
(*   openRow  the row in the row buffer of the SubArray                    *)
(*                                                                         *)
(* The nextActivate, nextRead, ... timers are left out: IsIssuable says    *)
(* when the states allow a command, and a caller may find it too early.    *)
(* Writes are not paused (WritePausing false).                             *)
(***************************************************************************)
EXTENDS Integers

CONSTANTS
  BANKS,            \* banks of a rank
  BanksPerRefresh,  \* banks one REFRESH covers
  NoRow             \* p->ROWS, the row number that stands for none

Banks == 0 .. BANKS - 1

PoweredDown == {"PDA", "PDPF"}

RankType(Rows) ==
  [ state   : {"CLOSED", "OPEN", "REFRESHING"} \cup PoweredDown,
    bank    : [Banks -> {"CLOSED", "OPEN"} \cup PoweredDown],
    array   : [Banks -> {"CLOSED", "OPEN", "PRECHARGING", "REFRESHING"}],
    openRow : [Banks -> Rows \cup {NoRow}] ]

NewRank ==
  [ state   |-> "CLOSED",
    bank    |-> [b \in Banks |-> "CLOSED"],
    array   |-> [b \in Banks |-> "CLOSED"],
    openRow |-> [b \in Banks |-> NoRow] ]

(* The banks a REFRESH sent to bank b covers. *)
RefreshedBanks(b) == b .. b + BanksPerRefresh - 1

(* StandardRank::Idle(): no row is open and none is being refreshed. *)
Idle(d) == \A b \in Banks : d.array[b] \in {"CLOSED", "PRECHARGING"}

(* The rank notices that it has become idle. *)
CloseIfIdle(d) == IF Idle(d) THEN [d EXCEPT !.state = "CLOSED"] ELSE d

-----------------------------------------------------------------------------
(* IsIssuable() of rank, bank and subarray together, per command. *)

CanActivate(d, b) == d.bank[b] \notin PoweredDown /\ d.array[b] = "CLOSED"

CanAccess(d, b, row) ==
  d.bank[b] = "OPEN" /\ d.array[b] = "OPEN" /\ d.openRow[b] = row

CanPrecharge(d, b) ==
  d.bank[b] \notin PoweredDown /\ d.array[b] \in {"CLOSED", "OPEN"}

(* PRECHARGE_ALL asks the active subarrays only. *)
CanPrechargeAll(d, b) ==
  \/ d.bank[b] = "CLOSED"
  \/ d.bank[b] = "OPEN" /\ d.array[b] \in {"CLOSED", "OPEN"}

CanRefresh(d, b) ==
  \A c \in RefreshedBanks(b) :
    d.bank[c] \notin PoweredDown /\ d.array[c] = "CLOSED"

(* Mutant: a refreshing rank may be powered down. *)
CanPowerDownRefreshing(d, op) ==
  \A b \in Banks : d.bank[b] = "CLOSED" \/ (d.bank[b] = "OPEN" /\ op = "PDA")

CanPowerDown(d, op) ==
  /\ d.state # "REFRESHING"
  /\ \A b \in Banks : d.bank[b] = "CLOSED" \/ (d.bank[b] = "OPEN" /\ op = "PDA")

CanPowerUp(d) == \A b \in Banks : d.bank[b] \in PoweredDown

IsIssuable(d, c) ==
  CASE c.type = "ACTIVATE"      -> CanActivate(d, c.bank)
    [] c.type = "ACCESS"        -> CanAccess(d, c.bank, c.row)
    [] c.type = "ACCESS_PRE"    -> CanAccess(d, c.bank, c.row)
    [] c.type = "PRECHARGE"     -> CanPrecharge(d, c.bank)
    [] c.type = "PRECHARGE_ALL" -> CanPrechargeAll(d, c.bank)
    [] c.type = "REFRESH"       -> CanRefresh(d, c.bank)

-----------------------------------------------------------------------------
(* What an issued command does to the rank. *)

Activate(d, b, row) ==
  [d EXCEPT !.state = IF @ = "CLOSED" THEN "OPEN" ELSE @,
            !.bank[b] = "OPEN", !.array[b] = "OPEN", !.openRow[b] = row]

(* READ_PRECHARGE and WRITE_PRECHARGE: the bank counts as closed at once,  *)
(* the subarray stays open until its implicit precharge begins.            *)
AccessPrecharge(d, b) == [d EXCEPT !.bank[b] = "CLOSED"]

Precharge(d, b) ==
  CloseIfIdle([d EXCEPT !.bank[b] = "CLOSED", !.array[b] = "PRECHARGING"])

(* PRECHARGE_ALL reaches the active subarrays only. *)
PrechargeAll(d, b) ==
  IF d.bank[b] = "OPEN" THEN Precharge(d, b) ELSE CloseIfIdle(d)

Refresh(d, b) ==
  [d EXCEPT !.state = "REFRESHING",
            !.array = [c \in Banks |->
              IF c \in RefreshedBanks(b) THEN "REFRESHING" ELSE d.array[c]]]

IssueCommand(d, c) ==
  CASE c.type = "ACTIVATE"      -> Activate(d, c.bank, c.row)
    [] c.type = "ACCESS"        -> d
    [] c.type = "ACCESS_PRE"    -> AccessPrecharge(d, c.bank)
    [] c.type = "PRECHARGE"     -> Precharge(d, c.bank)
    [] c.type = "PRECHARGE_ALL" -> PrechargeAll(d, c.bank)
    [] c.type = "REFRESH"       -> Refresh(d, c.bank)

(* Every bank is powered down, an open one in active powerdown. *)
PowerDown(d, op) ==
  [d EXCEPT !.state = op,
            !.bank = [b \in Banks |->
              IF d.bank[b] = "OPEN" THEN "PDA" ELSE "PDPF"]]

(* Mutant: a bank in active powerdown comes back closed. *)
PowerUpForgets(d) ==
  [d EXCEPT !.state = IF @ = "PDA" THEN "OPEN" ELSE "CLOSED",
            !.bank = [b \in Banks |-> "CLOSED"]]

PowerUp(d) ==
  [d EXCEPT !.state = IF @ = "PDA" THEN "OPEN" ELSE "CLOSED",
            !.bank = [b \in Banks |->
              IF d.bank[b] = "PDA" THEN "OPEN" ELSE "CLOSED"]]

-----------------------------------------------------------------------------
(* The events the devices schedule for themselves. *)

(* The implicit precharge of an ACCESS_PRE is due. *)
PrechargePending(d, b) ==
  d.array[b] = "OPEN" /\ d.bank[b] \in {"CLOSED", "PDPF"}

StartPrecharge(d, b) == [d EXCEPT !.array[b] = "PRECHARGING"]

(* The rank has an event of its own for it, in the same cycle after a read *)
(* (after a write it may come before, and finds the subarray open yet).    *)
StartPrechargeOfRank(d, b) == CloseIfIdle(StartPrecharge(d, b))

EndPrecharge(d, b) == [d EXCEPT !.array[b] = "CLOSED", !.openRow[b] = NoRow]

(* The subarrays of the group close, then the rank looks at its banks. *)
EndRefresh(d, b) ==
  CloseIfIdle([d EXCEPT
     !.array = [c \in Banks |->
       IF c \in RefreshedBanks(b) THEN "CLOSED" ELSE d.array[c]],
     !.openRow = [c \in Banks |->
       IF c \in RefreshedBanks(b) THEN NoRow ELSE d.openRow[c]]])
=============================================================================
