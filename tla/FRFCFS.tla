------------------------------- MODULE FRFCFS -------------------------------
(***************************************************************************)
(* The first-ready first-come-first-served memory controller of NVMain:    *)
(* FRFCFS (MemControl/FRFCFS/FRFCFS.cpp) on top of MemoryController        *)
(* (src/MemoryController.cpp), driving the ranks of MemoryRank.            *)
(*                                                                         *)
(* One memory cycle is FRFCFS::Cycle() followed by the events of the next  *)
(* cycle.  Cycle() runs to its end with nothing in between; pc says which  *)
(* part of it comes next:                                                  *)
(*                                                                         *)
(*   events    between two calls of Cycle(): requests arrive, refresh      *)
(*             pulses and device events are processed; Schedule begins     *)
(*             the next Cycle()                                            *)
(*   lowpower  HandleLowPower()                                            *)
(*   refresh   HandleRefresh() looks for a group of banks that is due      *)
(*   precharge HandleRefresh() queues the commands of that refresh         *)
(*   issue     the loop of CycleCommandQueues()                            *)
(*   cleanup   CleanupCallback(), which its priority puts before every     *)
(*             other event of the next cycle                               *)
(*                                                                         *)
(* A request is read or write alike (ACCESS); its address is a rank, a     *)
(* bank and a row, where the row stands for row and column mux together.   *)
(* A bank has one subarray, so activeSubArray equals activateQueued.       *)
(* The execution-driven mode (EventDriven false) is modelled, with         *)
(* UsePrecharge true and WritePausing false.                               *)
(***************************************************************************)
EXTENDS MemoryRank, SequencesExt

CONSTANTS
  RANKS,                   \* ranks of the channel
  UseRefresh, UseLowPower,
  DelayedRefreshThreshold, \* pulses a group may accumulate
  QueueModel,              \* "PerRank" or "PerBank"
  ScheduleScheme,          \* 1 rank first, 2 bank first
  ClosePage,               \* 0 open page, 1 relaxed, 2 restricted close page
  StarvationThreshold,     \* row hits in a row before a miss goes first
  QueueSize,               \* capacity of the transaction queue
  Requests, Rows,          \* requests; a completed one may come again
  Address,                 \* rank, bank and row of a request
  RowNumber,               \* the row alone, of a row and a column mux
  NoRequest                \* no request

Ranks == 0 .. RANKS - 1

ASSUME ControllerAssumption ==
  /\ RANKS \in Nat \ {0} /\ BANKS \in Nat \ {0}
  /\ BanksPerRefresh \in 1 .. BANKS
  /\ UseRefresh \in BOOLEAN /\ UseLowPower \in BOOLEAN
  /\ DelayedRefreshThreshold \in Nat \ {0}
  /\ QueueModel \in {"PerRank", "PerBank"}
  /\ ScheduleScheme \in 0 .. 2 /\ ClosePage \in 0 .. 2
  /\ StarvationThreshold \in Nat /\ QueueSize \in Nat \ {0}
  /\ NoRow \notin Rows /\ NoRequest \notin Requests
  /\ Address \in [Requests -> [rank : Ranks, bank : Banks, row : Rows]]
  /\ DOMAIN RowNumber = Rows

VARIABLES
  memQueue,               \* the transaction queue, oldest first
  fresh,                  \* requests whose arrivalCycle is the current cycle
  commandQueues,          \* commands on their way to the ranks
  issued,                 \* queues whose head carries FLAG_ISSUED
  activateQueued,         \* per bank: a row is, or is about to be, open
  effectiveRow,           \* per bank: that row
  starvationCounter,      \* per bank: row hits since the last activate
  delayedRefreshCounter,  \* per bank group: refreshes not yet queued
  bankNeedRefresh,        \* per bank: its group waits for a REFRESH
  refreshQueued,          \* per bank: a REFRESH of its group is queued
  nextRefreshRank, nextRefreshBank,   \* where HandleRefresh() starts
  rankPowerDown,          \* per rank: the controller powered it down
  curQueue,               \* the command queue that is tried first
  rank,                   \* the devices
  inService,              \* requests the devices are working on
  owed,                   \* requests accepted and not yet completed
  refreshLoop,            \* rank, bank and tmpBank of HandleRefresh()
  pc

vars == <<memQueue, fresh, commandQueues, issued, activateQueued,
          effectiveRow, starvationCounter, delayedRefreshCounter,
          bankNeedRefresh, refreshQueued, nextRefreshRank, nextRefreshBank,
          rankPowerDown, curQueue, rank, inService, owed, refreshLoop, pc>>

\* What the parts of a step have in common.
queueVars   == <<memQueue, fresh, owed>>
pageVars    == <<activateQueued, effectiveRow, starvationCounter>>
refreshVars == <<delayedRefreshCounter, bankNeedRefresh, refreshQueued,
                 nextRefreshRank, nextRefreshBank>>

-----------------------------------------------------------------------------
(* Queues, addresses, bank groups.                                         *)

commandQueueCount == IF QueueModel = "PerRank" THEN RANKS ELSE RANKS * BANKS

Queues == 0 .. commandQueueCount - 1

(* GetCommandQueueId(); ScheduleScheme 0 leaves the id of a bank queue at  *)
(* the maximal number, here the first that is no queue.                    *)
GetCommandQueueId(rk, b) ==
  CASE QueueModel = "PerRank" -> rk
    [] QueueModel = "PerBank" /\ ScheduleScheme = 1 -> b * RANKS + rk
    [] QueueModel = "PerBank" /\ ScheduleScheme = 2 -> rk * BANKS + b
    [] OTHER -> commandQueueCount

RankOf(r)  == Address[r].rank
BankOf(r)  == Address[r].bank
QueueOf(r) == GetCommandQueueId(RankOf(r), BankOf(r))

Command(type, rk, b, row, r) ==
  [type |-> type, rank |-> rk, bank |-> b, row |-> row, req |-> r]

m_refreshBankNum == BANKS \div BanksPerRefresh

Groups   == 0 .. m_refreshBankNum - 1
GroupOf(b) == b \div BanksPerRefresh
GroupBanks(g) == RefreshedBanks(g * BanksPerRefresh)

RankQueueEmpty(rk) ==
  \A b \in Banks : commandQueues[GetCommandQueueId(rk, b)] = << >>

-----------------------------------------------------------------------------
NoLoop == [rank |-> 0, bank |-> 0, tmpBank |-> 0]

(* SetConfig(): nothing queued, all rows closed, the pulses scheduled, the *)
(* ranks powered up (InitPD is false in every configuration).              *)
Init ==
  /\ memQueue = << >> /\ fresh = {} /\ owed = {} /\ inService = {}
  /\ commandQueues = [q \in Queues |-> << >>] /\ issued = {}
  /\ activateQueued = [rk \in Ranks |-> [b \in Banks |-> FALSE]]
  /\ effectiveRow = [rk \in Ranks |-> [b \in Banks |-> NoRow]]
  /\ starvationCounter = [rk \in Ranks |-> [b \in Banks |-> 0]]
  /\ delayedRefreshCounter = [rk \in Ranks |-> [g \in Groups |-> 0]]
  /\ bankNeedRefresh = [rk \in Ranks |-> [b \in Banks |-> FALSE]]
  /\ refreshQueued = [rk \in Ranks |-> [b \in Banks |-> FALSE]]
  /\ nextRefreshRank = 0 /\ nextRefreshBank = 0
  /\ rankPowerDown = [rk \in Ranks |-> FALSE]
  /\ curQueue = 0
  /\ rank = [rk \in Ranks |-> NewRank]
  /\ refreshLoop = NoLoop
  /\ pc = "events"

-----------------------------------------------------------------------------
(* Between two cycles.                                                     *)

(* IssueCommand() of a request NVMain sends: refused when the queue is     *)
(* full, else the request joins its end.                                   *)
Arrive(r) ==
  /\ pc = "events"
  /\ r \notin owed
  /\ Len(memQueue) < QueueSize
  /\ memQueue' = Append(memQueue, r)
  /\ fresh' = fresh \cup {r}
  /\ owed' = owed \cup {r}
  /\ UNCHANGED <<commandQueues, issued, pageVars, refreshVars, rankPowerDown,
                 curQueue, rank, inService, pc, refreshLoop>>

(* RequestComplete(): the data has been transferred, NVMain is told. *)
RequestComplete(r) ==
  /\ pc = "events"
  /\ r \in inService
  /\ inService' = inService \ {r}
  /\ owed' = owed \ {r}
  /\ UNCHANGED <<memQueue, fresh, commandQueues, issued, pageVars,
                 refreshVars, rankPowerDown, curQueue, rank, pc, refreshLoop>>

NeedRefresh(rk, g) ==
  /\ UseRefresh
  /\ delayedRefreshCounter[rk][g] >= DelayedRefreshThreshold

(* The refresh interval tREFI is long against the time a REFRESH waits in  *)
(* its queue: the last one of a group is gone when its next pulse comes.   *)
RefreshKeepsUp(rk, g) ==
  /\ ~NeedRefresh(rk, g)
  /\ \A b \in GroupBanks(g) : ~refreshQueued[rk][b]

(* Mutant: only the head of the group is marked. *)
ProcessRefreshPulseHead(rk, g) ==
  LET count == delayedRefreshCounter[rk][g] + 1 IN
  /\ delayedRefreshCounter' = [delayedRefreshCounter EXCEPT ![rk][g] = count]
  /\ bankNeedRefresh' =
       IF count >= DelayedRefreshThreshold
       THEN [bankNeedRefresh EXCEPT ![rk][g * BanksPerRefresh] = TRUE]
       ELSE bankNeedRefresh

(* ProcessRefreshPulse(): one more refresh is due; at the threshold the    *)
(* banks of the group take no new requests.                                *)
ProcessRefreshPulse(rk, g) ==
  LET count == delayedRefreshCounter[rk][g] + 1 IN
  /\ delayedRefreshCounter' = [delayedRefreshCounter EXCEPT ![rk][g] = count]
  /\ bankNeedRefresh' =
       IF count >= DelayedRefreshThreshold
       THEN [bankNeedRefresh EXCEPT ![rk] =
              [b \in Banks |-> b \in GroupBanks(g) \/ @[b]]]
       ELSE bankNeedRefresh

RefreshCallback(rk, g) ==
  /\ pc = "events"
  /\ UseRefresh
  /\ RefreshKeepsUp(rk, g)
  /\ ProcessRefreshPulse(rk, g)
  /\ UNCHANGED <<queueVars, commandQueues, issued, pageVars, refreshQueued,
                 nextRefreshRank, nextRefreshBank, rankPowerDown, curQueue,
                 rank, inService, pc, refreshLoop>>

(* An event a device scheduled for itself. *)
DeviceEvent(rk, b) ==
  /\ pc = "events"
  /\ \/ /\ PrechargePending(rank[rk], b)
        /\ rank' = [rank EXCEPT ![rk] = StartPrecharge(@, b)]
     \/ /\ PrechargePending(rank[rk], b) /\ rank[rk].bank[b] = "CLOSED"
        /\ rank' = [rank EXCEPT ![rk] = StartPrechargeOfRank(@, b)]
     \/ /\ rank[rk].array[b] = "PRECHARGING"
        /\ rank' = [rank EXCEPT ![rk] = EndPrecharge(@, b)]
     \/ /\ rank[rk].array[b] = "REFRESHING"
        /\ b % BanksPerRefresh = 0
        /\ rank' = [rank EXCEPT ![rk] = EndRefresh(@, b)]
  /\ UNCHANGED <<queueVars, commandQueues, issued, pageVars, refreshVars,
                 rankPowerDown, curQueue, inService, pc, refreshLoop>>

-----------------------------------------------------------------------------
(* The first half of Cycle(): a transaction becomes commands.              *)

Active(r) == activateQueued[RankOf(r)][BankOf(r)]

Hit(r) == Active(r) /\ effectiveRow[RankOf(r)][BankOf(r)] = Address[r].row

(* Mutant: the command queue need not be empty. *)
EligibleBusy(r) ==
  /\ r \notin fresh
  /\ ~bankNeedRefresh[RankOf(r)][BankOf(r)]
  /\ ~refreshQueued[RankOf(r)][BankOf(r)]

(* Mutant: a queued REFRESH does not hold the requests of its group back. *)
EligibleDuringRefresh(r) ==
  /\ commandQueues[QueueOf(r)] = << >>
  /\ r \notin fresh
  /\ ~bankNeedRefresh[RankOf(r)][BankOf(r)]

(* What every Find...() asks of a request. *)
Eligible(r) ==
  /\ commandQueues[QueueOf(r)] = << >>
  /\ r \notin fresh
  /\ ~bankNeedRefresh[RankOf(r)][BankOf(r)]
  /\ ~refreshQueued[RankOf(r)][BankOf(r)]

Starved(r) ==
  /\ Active(r) /\ ~Hit(r)
  /\ starvationCounter[RankOf(r)][BankOf(r)] >= StarvationThreshold

EligiblePositions(found) ==
  {i \in DOMAIN memQueue : Eligible(memQueue[i]) /\ memQueue[i] \in found}

(* Mutant: row hits before starved requests. *)
CandidatesHitFirst ==
  LET starved == EligiblePositions({r \in Requests : Starved(r)})
      hits    == EligiblePositions({r \in Requests : Hit(r)})
      ready   == EligiblePositions({r \in Requests : Active(r)})
      closed  == EligiblePositions({r \in Requests : ~Active(r)})
  IN CASE hits # {}    -> hits
       [] starved # {} -> starved
       [] ready # {}   -> ready
       [] OTHER        -> closed

(* The order of the searches in Cycle(): starved requests, row hits, then  *)
(* requests to active banks, then requests to closed ones.                 *)
Candidates ==
  LET starved == EligiblePositions({r \in Requests : Starved(r)})
      hits    == EligiblePositions({r \in Requests : Hit(r)})
      ready   == EligiblePositions({r \in Requests : Active(r)})
      closed  == EligiblePositions({r \in Requests : ~Active(r)})
  IN CASE starved # {} -> starved
       [] hits # {}    -> hits
       [] ready # {}   -> ready
       [] OTHER        -> closed

(* Mutant: the youngest candidate is taken. *)
PickYoungest == Max(Candidates)

(* A search goes through the queue from its oldest end. *)
PickOldest == Min(Candidates)

SameRowNumber(o, r) ==
  /\ RankOf(o) = RankOf(r) /\ BankOf(o) = BankOf(r)
  /\ RowNumber[Address[o].row] = RowNumber[Address[r].row]

(* IsLastRequest(): may the row be closed after request r?  A request for  *)
(* another column mux of the row counts, although it is no row hit.        *)
IsLastRequest(queue, r) ==
  CASE ClosePage = 0 -> FALSE
    [] ClosePage = 1 -> \A o \in Range(queue) : ~SameRowNumber(o, r)
    [] OTHER -> TRUE

(* IssueMemoryCommands() has nothing to queue, and drops the request, when *)
(* it is no row hit and its command queue is in use.                       *)
Dropped(r) == ~Hit(r) /\ commandQueues[QueueOf(r)] # << >>

(* The commands IssueMemoryCommands() queues for request r. *)
CommandsFor(r, last) ==
  LET rk == RankOf(r)
      b  == BankOf(r)
      act    == Command("ACTIVATE", rk, b, Address[r].row, NoRequest)
      pre    == Command("PRECHARGE", rk, b, effectiveRow[rk][b], NoRequest)
      access == Command("ACCESS", rk, b, Address[r].row, r)
      accessPre == Command("ACCESS_PRE", rk, b, Address[r].row, r)
      final  == IF last THEN accessPre ELSE access
  IN CASE Dropped(r) -> << >>
       [] Hit(r) -> <<final>>
       [] ~Active(r) /\ ~Dropped(r) -> <<act, final>>
       [] OTHER -> <<pre, act, access>>

(* Mutant: the controller keeps the row after an implicit precharge. *)
EffectiveRowStays(r, last) == Address[r].row

(* The row the bank of r will hold after those commands. *)
EffectiveRowAfter(r, last) ==
  CASE Dropped(r) -> effectiveRow[RankOf(r)][BankOf(r)]
    [] last /\ (Hit(r) \/ ~Active(r)) /\ ~Dropped(r) -> NoRow
    [] OTHER -> Address[r].row

(* An activate resets the counter, a row hit advances it; it is kept at    *)
(* the threshold, past which it is only compared.                          *)
StarvationAfter(r) ==
  LET n == starvationCounter[RankOf(r)][BankOf(r)] IN
  CASE ~Hit(r) /\ ~Dropped(r) -> 0
    [] Hit(r) /\ n < StarvationThreshold -> n + 1
    [] OTHER -> n

(* IssueMemoryCommands(): the request leaves the transaction queue, its    *)
(* commands enter the command queue, and the view of the bank is updated.  *)
IssueMemoryCommands(i) ==
  LET r    == memQueue[i]
      rk   == RankOf(r)
      b    == BankOf(r)
      left == RemoveAt(memQueue, i)
      last == IsLastRequest(left, r)
  IN /\ memQueue' = left
     /\ commandQueues' =
          [commandQueues EXCEPT ![QueueOf(r)] = @ \o CommandsFor(r, last)]
     /\ effectiveRow' =
          [effectiveRow EXCEPT ![rk][b] = EffectiveRowAfter(r, last)]
     /\ activateQueued' =
          [activateQueued EXCEPT ![rk][b] = EffectiveRowAfter(r, last) # NoRow]
     /\ starvationCounter' =
          [starvationCounter EXCEPT ![rk][b] = StarvationAfter(r)]

Schedule ==
  /\ pc = "events"
  /\ \/ Candidates = {} /\ UNCHANGED <<memQueue, commandQueues, pageVars>>
     \/ Candidates # {} /\ IssueMemoryCommands(PickOldest)
  /\ fresh' = {}
  /\ pc' = "lowpower"
  /\ UNCHANGED <<issued, refreshVars, rankPowerDown, curQueue, rank,
                 inService, owed, refreshLoop>>

-----------------------------------------------------------------------------
(* The second half of Cycle(): CycleCommandQueues().                       *)

(* MemoryController::PowerDown(): precharge or active powerdown, if the    *)
(* rank has nothing to do and the devices agree.                           *)
PowerDownOp(rk) ==
  LET op == IF Idle(rank[rk]) THEN "PDPF" ELSE "PDA" IN
  IF RankQueueEmpty(rk) /\ CanPowerDown(rank[rk], op) THEN op ELSE "none"

(* A powered-down rank is woken for a due refresh or for queued commands. *)
WantsPowerUp(rk) ==
  /\ rankPowerDown[rk]
  /\ (\E g \in Groups : NeedRefresh(rk, g)) \/ ~RankQueueEmpty(rk)
  /\ CanPowerUp(rank[rk])

WantsPowerDown(rk) ==
  /\ ~rankPowerDown[rk]
  /\ ~ \E g \in Groups : NeedRefresh(rk, g)
  /\ PowerDownOp(rk) # "none"

(* HandleLowPower() for the ranks in ready, the ones whose powerdown       *)
(* timers have run out.                                                    *)
HandleLowPower(ready) ==
  LET up   == {rk \in ready : WantsPowerUp(rk)}
      down == {rk \in ready : WantsPowerDown(rk)}
  IN /\ pc = "lowpower"
     /\ IF UseLowPower
        THEN /\ rank' = [rk \in Ranks |->
                  CASE rk \in up -> PowerUp(rank[rk])
                    [] rk \in down -> PowerDown(rank[rk], PowerDownOp(rk))
                    [] OTHER -> rank[rk]]
             /\ rankPowerDown' = [rk \in Ranks |->
                  rk \in down \/ (rk \notin up /\ rankPowerDown[rk])]
        ELSE UNCHANGED <<rank, rankPowerDown>>
     /\ pc' = "refresh"
     /\ UNCHANGED <<queueVars, commandQueues, issued, pageVars, refreshVars,
                    curQueue, inService, refreshLoop>>

(* Mutant: the inner loop does not come back to the first bank. *)
RefreshBankRuns(k) == nextRefreshBank + (k % m_refreshBankNum) * BanksPerRefresh

(* The places HandleRefresh() looks at, in its order. *)
RefreshRank(k) == (nextRefreshRank + k \div m_refreshBankNum) % RANKS
RefreshBank(k) ==
  (nextRefreshBank + (k % m_refreshBankNum) * BanksPerRefresh) % BANKS

RefreshNeeds ==
  {k \in 0 .. RANKS * m_refreshBankNum - 1 :
     NeedRefresh(RefreshRank(k), GroupOf(RefreshBank(k)))}

(* HandleRefresh() looks for the first group that is due. *)
FindRefresh ==
  /\ pc = "refresh"
  /\ \/ /\ RefreshNeeds = {}
        /\ pc' = "issue"
        /\ UNCHANGED refreshLoop
     \/ /\ RefreshNeeds # {}
        /\ refreshLoop' = [rank    |-> RefreshRank(Min(RefreshNeeds)),
                           bank    |-> RefreshBank(Min(RefreshNeeds)),
                           tmpBank |-> 0]
        /\ pc' = "precharge"
  /\ UNCHANGED <<queueVars, commandQueues, issued, pageVars, refreshVars,
                 rankPowerDown, curQueue, rank, inService>>

Push(q, c) == commandQueues' = [commandQueues EXCEPT ![q] = Append(@, c)]

(* Mutant: the PRECHARGE_ALL is not queued. *)
PrechargeActiveBankNot(rk, b) ==
  /\ activateQueued' = [activateQueued EXCEPT ![rk][b] = FALSE]
  /\ effectiveRow' = [effectiveRow EXCEPT ![rk][b] = NoRow]
  /\ UNCHANGED commandQueues

(* An active bank is precharged, by a command in its own queue. *)
PrechargeActiveBank(rk, b) ==
  /\ Push(GetCommandQueueId(rk, b),
          Command("PRECHARGE_ALL", rk, b, NoRow, NoRequest))
  /\ activateQueued' = [activateQueued EXCEPT ![rk][b] = FALSE]
  /\ effectiveRow' = [effectiveRow EXCEPT ![rk][b] = NoRow]

(* One round of the loop over the banks of the group. *)
PrechargeForRefresh ==
  LET rk == refreshLoop.rank
      b  == (refreshLoop.bank + refreshLoop.tmpBank) % BANKS
  IN /\ pc = "precharge"
     /\ refreshLoop.tmpBank < BanksPerRefresh
     /\ \/ activateQueued[rk][b] /\ PrechargeActiveBank(rk, b)
        \/ ~activateQueued[rk][b]
           /\ UNCHANGED <<commandQueues, activateQueued, effectiveRow>>
     /\ refreshLoop' = [refreshLoop EXCEPT !.tmpBank = @ + 1]
     /\ UNCHANGED <<queueVars, issued, starvationCounter, refreshVars,
                    rankPowerDown, curQueue, rank, inService, pc>>

(* The banks a REFRESH queued for bank j is about. *)
RefreshTargets(j) == {(j + t) % BANKS : t \in 0 .. BanksPerRefresh - 1}

(* The REFRESH goes to the queue of the first bank, the banks of the group *)
(* are marked, one refresh less is due, the rotation moves on.  A queued   *)
(* refresh ends the cycle: nothing is issued in it.                        *)
QueueRefresh ==
  LET rk    == refreshLoop.rank
      j     == refreshLoop.bank
      count == delayedRefreshCounter[rk][GroupOf(j)] - 1
      wraps == nextRefreshBank + BanksPerRefresh >= BANKS
  IN /\ pc = "precharge"
     /\ refreshLoop.tmpBank = BanksPerRefresh
     /\ Push(GetCommandQueueId(rk, j),
             Command("REFRESH", rk, j, NoRow, NoRequest))
     /\ refreshQueued' = [refreshQueued EXCEPT ![rk] =
          [b \in Banks |-> b \in RefreshTargets(j) \/ @[b]]]
     /\ delayedRefreshCounter' =
          [delayedRefreshCounter EXCEPT ![rk][GroupOf(j)] = count]
     /\ bankNeedRefresh' =
          IF count < DelayedRefreshThreshold
          THEN [bankNeedRefresh EXCEPT ![rk] =
                 [b \in Banks |-> @[b] /\ b \notin GroupBanks(GroupOf(j))]]
          ELSE bankNeedRefresh
     /\ nextRefreshBank' = IF wraps THEN 0 ELSE nextRefreshBank + BanksPerRefresh
     /\ nextRefreshRank' =
          IF wraps THEN (nextRefreshRank + 1) % RANKS ELSE nextRefreshRank
     /\ refreshLoop' = NoLoop
     /\ pc' = "cleanup"
     /\ UNCHANGED <<queueVars, issued, pageVars, rankPowerDown, curQueue,
                    rank, inService>>

QueueIssuable(q) ==
  /\ commandQueues[q] # << >>
  /\ IsIssuable(rank[Head(commandQueues[q]).rank], Head(commandQueues[q]))

(* Mutant: the banks of every rank are released. *)
ResetRefreshQueuedAll(c) ==
  IF c.type # "REFRESH" THEN refreshQueued
  ELSE [rk \in Ranks |->
         [b \in Banks |-> refreshQueued[rk][b] /\ b \notin GroupBanks(GroupOf(c.bank))]]

(* ResetRefreshQueued() when a REFRESH is issued. *)
ResetRefreshQueued(c) ==
  IF c.type # "REFRESH" THEN refreshQueued
  ELSE [refreshQueued EXCEPT ![c.rank] =
         [b \in Banks |-> @[b] /\ b \notin GroupBanks(GroupOf(c.bank))]]

(* Mutant: the counter is never set back. *)
MoveCurrentQueueRuns == IF ScheduleScheme = 0 THEN curQueue ELSE curQueue + 1

(* MoveCurrentQueue(): the counter reaches the number of queues before it  *)
(* is set back; the users of curQueue take it modulo that number.          *)
MoveCurrentQueue ==
  CASE ScheduleScheme = 0 -> curQueue
    [] ScheduleScheme # 0 /\ curQueue < commandQueueCount -> curQueue + 1
    [] OTHER -> 0

(* The head of queue q goes to its rank. *)
IssueHead(q) ==
  LET c == Head(commandQueues[q]) IN
  /\ rank' = [rank EXCEPT ![c.rank] = IssueCommand(@, c)]
  /\ inService' = inService \cup ({c.req} \ {NoRequest})
  /\ issued' = {q}
  /\ refreshQueued' = ResetRefreshQueued(c)
  /\ curQueue' = MoveCurrentQueue

(* The loop over the command queues, from curQueue on: the first whose     *)
(* head can be issued.  ready holds the queues whose timers have run out.  *)
CycleCommandQueues(ready) ==
  LET can == {k \in 0 .. commandQueueCount - 1 :
                LET q == (curQueue + k) % commandQueueCount
                IN q \in ready /\ QueueIssuable(q)}
  IN /\ pc = "issue"
     /\ \/ /\ can = {}
           /\ UNCHANGED <<rank, inService, issued, refreshQueued, curQueue>>
        \/ /\ can # {}
           /\ IssueHead((curQueue + Min(can)) % commandQueueCount)
     /\ pc' = "cleanup"
     /\ UNCHANGED <<queueVars, commandQueues, pageVars, delayedRefreshCounter,
                    bankNeedRefresh, nextRefreshRank, nextRefreshBank,
                    rankPowerDown, refreshLoop>>

(* CleanupCallback(): issued commands leave their queues. *)
CleanupCallback ==
  /\ pc = "cleanup"
  /\ commandQueues' = [q \in Queues |->
       IF q \in issued THEN Tail(commandQueues[q]) ELSE commandQueues[q]]
  /\ issued' = {}
  /\ pc' = "events"
  /\ UNCHANGED <<queueVars, pageVars, refreshVars, rankPowerDown, curQueue,
                 rank, inService, refreshLoop>>

Next ==
  \/ \E r \in Requests : Arrive(r) \/ RequestComplete(r)
  \/ \E rk \in Ranks, g \in Groups : RefreshCallback(rk, g)
  \/ \E rk \in Ranks, b \in Banks : DeviceEvent(rk, b)
  \/ Schedule
  \/ \E ready \in SUBSET Ranks : HandleLowPower(ready)
  \/ FindRefresh \/ PrechargeForRefresh \/ QueueRefresh
  \/ \E ready \in SUBSET Queues : CycleCommandQueues(ready)
  \/ CleanupCallback

Spec == Init /\ [][Next]_vars

(* NVMain is cycled for ever, and every event a device has scheduled comes *)
(* at its cycle.  A timer runs out: a command that the devices would take  *)
(* time and again is issued at last, and a rank that is to be woken time   *)
(* and again wakes.  Refresh pulses leave cycles between them: a request   *)
(* that could be scheduled time and again is.                              *)
CycleStep ==
  \/ Schedule
  \/ \E ready \in SUBSET Ranks : HandleLowPower(ready)
  \/ FindRefresh \/ PrechargeForRefresh \/ QueueRefresh
  \/ \E ready \in SUBSET Queues : CycleCommandQueues(ready)
  \/ CleanupCallback

ScheduleSome == Schedule /\ Candidates # {}

IssueFrom(q) ==
  \E ready \in SUBSET Queues : CycleCommandQueues(ready) /\ issued' = {q}

Wake(rk) ==
  \E ready \in SUBSET Ranks :
    HandleLowPower(ready) /\ rankPowerDown[rk] /\ ~rankPowerDown'[rk]

Fairness ==
  /\ WF_vars(CycleStep)
  /\ SF_vars(ScheduleSome)
  /\ \A q \in Queues : SF_vars(IssueFrom(q))
  /\ \A rk \in Ranks : SF_vars(Wake(rk))
  /\ \A rk \in Ranks, b \in Banks : SF_vars(DeviceEvent(rk, b))
  /\ \A r \in Requests : SF_vars(RequestComplete(r))

FairSpec == Spec /\ Fairness

-----------------------------------------------------------------------------
(* Properties.                                                             *)

CommandType ==
  [ type : {"ACTIVATE", "ACCESS", "ACCESS_PRE", "PRECHARGE", "PRECHARGE_ALL",
            "REFRESH"},
    rank : Ranks, bank : Banks, row : Rows \cup {NoRow},
    req  : Requests \cup {NoRequest} ]

(* The variables hold values of their types: delayedRefreshCounter stays   *)
(* between zero and the threshold, and MoveCurrentQueue() keeps curQueue   *)
(* at most one past the last queue.                                        *)
TypeOK ==
  /\ memQueue \in Seq(Requests)
  /\ fresh \subseteq Requests /\ inService \subseteq Requests
  /\ owed \subseteq Requests
  /\ commandQueues \in [Queues -> Seq(CommandType)] /\ issued \subseteq Queues
  /\ activateQueued \in [Ranks -> [Banks -> BOOLEAN]]
  /\ effectiveRow \in [Ranks -> [Banks -> Rows \cup {NoRow}]]
  /\ starvationCounter \in [Ranks -> [Banks -> 0 .. StarvationThreshold]]
  /\ delayedRefreshCounter \in [Ranks -> [Groups -> 0 .. DelayedRefreshThreshold]]
  /\ bankNeedRefresh \in [Ranks -> [Banks -> BOOLEAN]]
  /\ refreshQueued \in [Ranks -> [Banks -> BOOLEAN]]
  /\ nextRefreshRank \in Ranks /\ nextRefreshBank \in Banks
  /\ rankPowerDown \in [Ranks -> BOOLEAN]
  /\ curQueue \in 0 .. commandQueueCount
  /\ rank \in [Ranks -> RankType(Rows)]
  /\ refreshLoop \in [rank : Ranks, bank : Banks, tmpBank : 0 .. BanksPerRefresh]
  /\ pc \in {"events", "lowpower", "refresh", "precharge", "issue", "cleanup"}

(* The commands of queue q the devices have not got yet. *)
Unissued(q) ==
  IF q \in issued THEN 2 .. Len(commandQueues[q]) ELSE DOMAIN commandQueues[q]

(* The places of request r: the transaction queue, the command queues, the *)
(* devices.                                                                *)
Places(r) ==
  ({"memory"} \X {i \in DOMAIN memQueue : memQueue[i] = r})
  \cup (UNION {{q} \X {k \in Unissued(q) : commandQueues[q][k].req = r} : q \in Queues})
  \cup ({"device"} \X {0 : x \in inService \cap {r}})

(* A request NVMain was promised an answer for is in exactly one place,    *)
(* and any other request in none: IssueMemoryCommands() loses no request   *)
(* that a Find...() took from the queue, and none is sent to the devices   *)
(* twice.                                                                  *)
RequestConserved ==
  \A r \in Requests : Cardinality(Places(r)) = IF r \in owed THEN 1 ELSE 0

(* The commands of queue q before position n that change the row of bank   *)
(* b of rank rk.                                                           *)
RowCommands(q, n, rk, b) ==
  {k \in Unissued(q) : /\ k < n
                       /\ commandQueues[q][k].rank = rk
                       /\ commandQueues[q][k].bank = b
                       /\ commandQueues[q][k].type \notin {"ACCESS", "REFRESH"}}

(* The row bank b will hold when the devices reach position n of queue q:  *)
(* the one of the last such command, or else the one it holds now.         *)
RowBefore(q, n, rk, b) ==
  LET before == RowCommands(q, n, rk, b) IN
  CASE before = {} /\ rank[rk].bank[b] \in {"OPEN", "PDA"} -> rank[rk].openRow[b]
    [] before = {} /\ rank[rk].bank[b] \notin {"OPEN", "PDA"} -> NoRow
    [] OTHER -> LET c == commandQueues[q][Max(before)]
                IN IF c.type = "ACTIVATE" THEN c.row ELSE NoRow

RowAtEnd(rk, b) ==
  LET q == GetCommandQueueId(rk, b)
  IN RowBefore(q, Len(commandQueues[q]) + 1, rk, b)

(* What the controller believes of a bank (activateQueued, effectiveRow)   *)
(* is what the devices will have done once the queued commands are issued, *)
(* through refreshes, implicit precharges and powerdowns.                  *)
ControllerPicture ==
  \A rk \in Ranks, b \in Banks :
    /\ effectiveRow[rk][b] = RowAtEnd(rk, b)
    /\ activateQueued[rk][b] = (effectiveRow[rk][b] # NoRow)

(* Does command c at position n of queue q find the row it is made for?    *)
(* A REFRESH may share its queue with the commands of the other banks of   *)
(* its group, or wait for theirs.                                          *)
Fits(q, n, c) ==
  CASE c.type = "ACTIVATE" -> RowBefore(q, n, c.rank, c.bank) = NoRow
    [] c.type \in {"ACCESS", "ACCESS_PRE"} ->
         RowBefore(q, n, c.rank, c.bank) = c.row
    [] c.type \in {"PRECHARGE", "PRECHARGE_ALL"} ->
         RowBefore(q, n, c.rank, c.bank) # NoRow
    [] c.type = "REFRESH" ->
         \A b \in RefreshedBanks(c.bank) :
           IF GetCommandQueueId(c.rank, b) = q
           THEN RowBefore(q, n, c.rank, b) = NoRow
           ELSE RowAtEnd(c.rank, b) = NoRow

(* Every queued command will find its bank as it needs it, so that the     *)
(* head of a queue is only ever waiting for time to pass (the warning of   *)
(* CycleCommandQueues() after DeadlockTimer cycles is never deserved).     *)
CommandsFit ==
  \A q \in Queues : \A n \in Unissued(q) : Fits(q, n, commandQueues[q][n])

(* A bank is marked as waiting behind a REFRESH exactly when one REFRESH   *)
(* of its group is queued: the assertion of ResetRefreshQueued(), and no   *)
(* bank stays blocked for ever.                                            *)
RefreshFlagsAgree ==
  \A rk \in Ranks, g \in Groups, b \in Banks :
    b \in GroupBanks(g) =>
      Cardinality(UNION {{q} \X {k \in Unissued(q) :
                            /\ commandQueues[q][k].type = "REFRESH"
                            /\ commandQueues[q][k].rank = rk
                            /\ GroupOf(commandQueues[q][k].bank) = g} : q \in Queues})
        = IF refreshQueued[rk][b] THEN 1 ELSE 0

(* The controller's idea of powerdown is true of every bank (CanPowerUp()  *)
(* asserts that all banks are powered down or none), and a rank is never   *)
(* powered down while commands that it cannot take are at the devices.     *)
PowerDownAgrees ==
  \A rk \in Ranks, b \in Banks :
    /\ (rank[rk].bank[b] \in PoweredDown) = rankPowerDown[rk]
    /\ rankPowerDown[rk] => rank[rk].state \in PoweredDown
    /\ rankPowerDown[rk] => rank[rk].array[b] # "REFRESHING"

(* With restricted close page no bank is active when requests are chosen:  *)
(* the assertion in IssueMemoryCommands() ("if Restricted Close-Page is    *)
(* applied, we should never be here").                                     *)
ClosePageCloses ==
  ClosePage = 2 => \A rk \in Ranks, b \in Banks : ~activateQueued[rk][b]

(* Wherever the rotation of HandleRefresh() stands, its two loops look at  *)
(* the head of every group of every rank and at no other bank (which would *)
(* be a read past delayedRefreshCounter): no group that is due is passed   *)
(* over.  BanksPerRefresh must divide BANKS for this.                      *)
RefreshVisitsGroups ==
  {<<RefreshRank(k), RefreshBank(k)>> : k \in 0 .. RANKS * m_refreshBankNum - 1}
    = Ranks \X {g * BanksPerRefresh : g \in Groups}

(* The commands the devices have not got yet, per queue.  CleanupCallback  *)
(* leaves them alone.                                                      *)
Unsent ==
  [q \in Queues |-> IF q \in issued THEN Tail(commandQueues[q]) ELSE commandQueues[q]]

(* Request r is in the transaction queue m; r stands in front of s there.  *)
Queued(m, r) == \E i \in 1 .. Len(m) : m[i] = r

QueuedBefore(m, r, s) ==
  \E i, j \in 1 .. Len(m) : i < j /\ m[i] = r /\ m[j] = s

(* The access of r is in the command queues u, in front of that of s.      *)
Taken(u, r) == \E q \in Queues : \E k \in 1 .. Len(u[q]) : u[q][k].req = r

TakenBefore(u, r, s) ==
  \E q \in Queues : \E k, l \in 1 .. Len(u[q]) :
    k < l /\ u[q][k].req = r /\ u[q][l].req = s

(* A REFRESH of the group waits in a command queue. *)
RefreshWaits(rk, g) ==
  \E q \in Queues : \E k \in 1 .. Len(Unsent[q]) :
    /\ Unsent[q][k].type = "REFRESH" /\ Unsent[q][k].rank = rk
    /\ GroupOf(Unsent[q][k].bank) = g

(* The requests for the banks of the group in the command queues. *)
TakenOf(rk, g) ==
  {r \in Requests : RankOf(r) = rk /\ BankOf(r) \in GroupBanks(g) /\ Taken(Unsent, r)}

(* From the pulse that makes a group due until the devices have its        *)
(* REFRESH, no request for one of its banks leaves the transaction queue:  *)
(* the marks of SetRefresh() and SetRefreshQueued() pass the group from    *)
(* one to the other without a gap, and the REFRESH waits for nothing but   *)
(* what was taken before the pulse.                                        *)
RefreshComesFirst ==
  [][\A rk \in Ranks, g \in Groups :
       NeedRefresh(rk, g) \/ RefreshWaits(rk, g) => TakenOf(rk, g)' \subseteq TakenOf(rk, g)]_vars

(* The controller implements the service: a request waits for its row      *)
(* until its access is issued, first in the transaction queue and then in  *)
(* the command queue of its bank.                                          *)
Waiting(m, u) == {r \in Requests : Queued(m, r) \/ Taken(u, r)}

Ahead(m, u, r, s) ==
  \/ QueuedBefore(m, r, s)
  \/ Taken(u, r) /\ Queued(m, s)
  \/ TakenBefore(u, r, s)

WaitsBefore(m, u) ==
  {p \in Requests \X Requests : Address[p[1]] = Address[p[2]] /\ Ahead(m, u, p[1], p[2])}

Service == INSTANCE RowService WITH
  waiting <- Waiting(memQueue, Unsent), before <- WaitsBefore(memQueue, Unsent)

ServesRowsInOrder == Service!Spec

(* A refresh that is due reaches the devices of each of its banks, however *)
(* many requests keep coming: the group is closed to new requests, its     *)
(* rank is woken, and the command queue in front of the REFRESH drains.    *)
RefreshHappens ==
  \A rk \in Ranks, b \in Banks :
    bankNeedRefresh[rk][b] ~> rank[rk].array[b] = "REFRESHING"

(* Even while requests keep coming, every accepted one is completed.  True *)
(* of one bank, where the starvation counter bounds the row hits that      *)
(* overtake a miss; across banks the counters do not protect a request     *)
(* (each counts the row hits of its own bank only).                        *)
EveryRequestServed == \A r \in Requests : (r \in owed) ~> (r \notin owed)
=============================================================================
