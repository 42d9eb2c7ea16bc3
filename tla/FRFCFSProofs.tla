---------------------------- MODULE FRFCFSProofs ----------------------------
(***************************************************************************)
(* What FRFCFS keeps straight, for every number of ranks, banks, groups,   *)
(* queues and requests and for every policy.  First the types, the picture *)
(* of powerdown, the blocking of groups that are due and the close-page    *)
(* assertion, without further conditions.  Then what lies between the      *)
(* transaction queue, the command queues, the flags and the devices: the   *)
(* rotation of refreshes reaches every group, a REFRESH is queued once and *)
(* the banks behind it know, no request is lost or sent twice, the         *)
(* controller's picture of every bank is what the devices will make true,  *)
(* and the requests for one row are served in order.                       *)
(***************************************************************************)
EXTENDS FRFCFS, ListFacts

-----------------------------------------------------------------------------
(* A command queue grows at its end by commands only, also when no queue   *)
(* has the given number.                                                   *)
LEMMA QueueGrows ==
  ASSUME NEW S, NEW D, NEW f \in [D -> Seq(S)], NEW q
  PROVE  /\ \A s \in Seq(S) : [f EXCEPT ![q] = @ \o s] \in [D -> Seq(S)]
         /\ \A c \in S : [f EXCEPT ![q] = Append(@, c)] \in [D -> Seq(S)]
<1>1. \A t, s \in Seq(S) : t \o s \in Seq(S)
  OBVIOUS
<1>2. \A t \in Seq(S), c \in S : Append(t, c) \in Seq(S)
  OBVIOUS
<1>. QED  BY <1>1, <1>2

(* There is at least one command queue. *)
LEMMA QueueCount == commandQueueCount \in Nat \ {0}
<1>1. RANKS * BANKS \in Nat \ {0}
  BY ControllerAssumption
<1>. QED  BY <1>1, ControllerAssumption DEF commandQueueCount

(* BanksPerRefresh divides the banks of a rank into at least one group,    *)
(* and the groups fit into the rank.                                       *)
LEMMA GroupCount ==
  /\ m_refreshBankNum \in Nat \ {0}
  /\ m_refreshBankNum * BanksPerRefresh <= BANKS
<1>. /\ BANKS \in Nat /\ BanksPerRefresh \in Nat
     /\ BanksPerRefresh >= 1 /\ BANKS >= BanksPerRefresh
  BY ControllerAssumption
<1>. QED BY DEF m_refreshBankNum

(* A request addresses a rank, a bank and a row that exist. *)
LEMMA AddressFacts ==
  ASSUME NEW r \in Requests
  PROVE  /\ RankOf(r) \in Ranks /\ BankOf(r) \in Banks
         /\ Address[r].row \in Rows
BY ControllerAssumption DEF RankOf, BankOf

(* The rotation of HandleRefresh() stays within the ranks and banks. *)
LEMMA RefreshPlace ==
  ASSUME NEW k \in Nat, nextRefreshRank \in Ranks, nextRefreshBank \in Banks
  PROVE  RefreshRank(k) \in Ranks /\ RefreshBank(k) \in Banks
<1>. RANKS \in Nat \ {0} /\ BANKS \in Nat \ {0} /\ BanksPerRefresh \in Nat
  BY ControllerAssumption
<1>. DEFINE n == m_refreshBankNum
<1>1. n \in Nat \ {0}
  BY GroupCount
<1>. HIDE DEF n
<1>2. k \div n \in Int /\ (k % n) * BanksPerRefresh \in Int
  BY <1>1
<1>. DEFINE a == k \div n
            c == (k % n) * BanksPerRefresh
<1>3. a \in Int /\ c \in Int
  BY <1>2
<1>. HIDE DEF a, c
<1>4. (nextRefreshRank + a) % RANKS \in 0 .. RANKS - 1
  BY <1>3 DEF Ranks
<1>5. (nextRefreshBank + c) % BANKS \in 0 .. BANKS - 1
  BY <1>3 DEF Banks
<1>. QED  BY <1>4, <1>5 DEF a, c, n, RefreshRank, RefreshBank, Ranks, Banks

(* No bank is in two groups, so that one REFRESH never answers for the     *)
(* pulse of another group.                                                 *)
LEMMA GroupsDisjoint ==
  ASSUME NEW g \in Groups, NEW h \in Int,
         NEW b \in GroupBanks(g), b \in GroupBanks(h)
  PROVE  g = h
<1>. BanksPerRefresh \in Nat \ {0} /\ g \in Int /\ b \in Int
  BY ControllerAssumption DEF Groups, GroupBanks, RefreshedBanks
<1>1. g * BanksPerRefresh <= b /\ b < (g + 1) * BanksPerRefresh
  BY DEF GroupBanks, RefreshedBanks
<1>2. h * BanksPerRefresh <= b /\ b < (h + 1) * BanksPerRefresh
  BY DEF GroupBanks, RefreshedBanks
<1>. QED  BY <1>1, <1>2

(* The banks of a group are banks of the rank. *)
LEMMA GroupBanksExist ==
  ASSUME NEW g \in Groups
  PROVE  GroupBanks(g) \subseteq Banks
<1>. BanksPerRefresh \in Nat \ {0} /\ BANKS \in Nat /\ g \in Nat
  BY ControllerAssumption DEF Groups
<1>1. g + 1 <= m_refreshBankNum /\ m_refreshBankNum \in Nat
  BY GroupCount DEF Groups
<1>2. (g + 1) * BanksPerRefresh <= m_refreshBankNum * BanksPerRefresh
  BY <1>1
<1>3. (g + 1) * BanksPerRefresh <= BANKS
  BY <1>2, GroupCount
<1>. QED  BY <1>3 DEF GroupBanks, RefreshedBanks, Banks
-----------------------------------------------------------------------------
(* What a device operation leaves behind is a rank again. *)
LEMMA RankTypes ==
  ASSUME NEW d \in RankType(Rows), NEW b \in Banks,
         NEW row \in Rows \cup {NoRow}
  PROVE  /\ Activate(d, b, row) \in RankType(Rows)
         /\ AccessPrecharge(d, b) \in RankType(Rows)
         /\ Precharge(d, b) \in RankType(Rows)
         /\ PrechargeAll(d, b) \in RankType(Rows)
         /\ Refresh(d, b) \in RankType(Rows)
         /\ StartPrecharge(d, b) \in RankType(Rows)
         /\ StartPrechargeOfRank(d, b) \in RankType(Rows)
         /\ EndPrecharge(d, b) \in RankType(Rows)
         /\ EndRefresh(d, b) \in RankType(Rows)
         /\ PowerUp(d) \in RankType(Rows)
         /\ \A op \in PoweredDown : PowerDown(d, op) \in RankType(Rows)
<1>1. Activate(d, b, row) \in RankType(Rows)
  BY DEF Activate, RankType, PoweredDown
<1>2. AccessPrecharge(d, b) \in RankType(Rows)
  BY DEF AccessPrecharge, RankType, PoweredDown
<1>3. ASSUME NEW e \in RankType(Rows)
      PROVE  CloseIfIdle(e) \in RankType(Rows)
  BY DEF CloseIfIdle, RankType, PoweredDown
<1>4. Precharge(d, b) \in RankType(Rows)
  <2>1. [d EXCEPT !.bank[b] = "CLOSED", !.array[b] = "PRECHARGING"] \in RankType(Rows)
    BY DEF RankType, PoweredDown
  <2>. QED  BY <2>1, <1>3 DEF Precharge
<1>5. PrechargeAll(d, b) \in RankType(Rows)
  BY <1>3, <1>4 DEF PrechargeAll
<1>6. Refresh(d, b) \in RankType(Rows)
  BY DEF Refresh, RankType, PoweredDown
<1>7. StartPrecharge(d, b) \in RankType(Rows)
  BY DEF StartPrecharge, RankType, PoweredDown
<1>8. EndPrecharge(d, b) \in RankType(Rows)
  BY DEF EndPrecharge, RankType, PoweredDown
<1>9. EndRefresh(d, b) \in RankType(Rows)
  <2>1. [d EXCEPT
           !.array = [c \in Banks |->
             IF c \in RefreshedBanks(b) THEN "CLOSED" ELSE d.array[c]],
           !.openRow = [c \in Banks |->
             IF c \in RefreshedBanks(b) THEN NoRow ELSE d.openRow[c]]]
        \in RankType(Rows)
    BY ZenonT(60) DEF RankType, PoweredDown
  <2>. QED  BY <2>1, <1>3 DEF EndRefresh
<1>10. PowerUp(d) \in RankType(Rows)
  BY DEF PowerUp, RankType, PoweredDown
<1>11. \A op \in PoweredDown : PowerDown(d, op) \in RankType(Rows)
  BY DEF PowerDown, RankType, PoweredDown
<1>12. StartPrechargeOfRank(d, b) \in RankType(Rows)
  BY <1>3, <1>7 DEF StartPrechargeOfRank
<1>. QED  BY <1>1, <1>2, <1>4, <1>5, <1>6, <1>7, <1>8, <1>9, <1>10, <1>11, <1>12

(* An issued command leaves a rank behind. *)
LEMMA IssueType ==
  ASSUME NEW d \in RankType(Rows), NEW c \in CommandType
  PROVE  IssueCommand(d, c) \in RankType(Rows)
<1>1. c.bank \in Banks /\ c.row \in Rows \cup {NoRow}
      /\ c.type \in {"ACTIVATE", "ACCESS", "ACCESS_PRE", "PRECHARGE",
                     "PRECHARGE_ALL", "REFRESH"}
  BY DEF CommandType
<1>. QED  BY <1>1, RankTypes DEF IssueCommand

-----------------------------------------------------------------------------
(* FLAG_ISSUED is only ever seen by CleanupCallback(), on the head of a    *)
(* queue that is not empty: its erase() finds something to remove.         *)
IssuedAtCleanup ==
  /\ issued # {} => pc = "cleanup"
  /\ \A q \in issued : commandQueues[q] # << >>

(* The group HandleRefresh() is queueing commands for stays due until its  *)
(* counter is decremented, so the counter does not wrap below zero.        *)
LoopIsDue ==
  pc = "precharge" => NeedRefresh(refreshLoop.rank, GroupOf(refreshLoop.bank))

(* The inductive form of TypeOK: Tail in CleanupCallback needs the first   *)
(* strengthening, the decrement in QueueRefresh the second.                *)
TypeInv == TypeOK /\ IssuedAtCleanup /\ LoopIsDue

(* SetConfig() leaves the controller in a typed state. *)
LEMMA TypeInit == Init => TypeInv
<1>. SUFFICES ASSUME Init PROVE TypeInv
  OBVIOUS
<1>1. 0 \in Ranks /\ 0 \in Banks /\ 0 \in 0 .. StarvationThreshold
      /\ 0 \in 0 .. DelayedRefreshThreshold /\ 0 \in 0 .. BanksPerRefresh
  BY ControllerAssumption DEF Ranks, Banks
<1>2. 0 \in 0 .. commandQueueCount
  BY QueueCount
<1>3. NewRank \in RankType(Rows)
  BY DEF NewRank, RankType, PoweredDown
<1>4. NoLoop \in [rank : Ranks, bank : Banks, tmpBank : 0 .. BanksPerRefresh]
  BY <1>1 DEF NoLoop
<1>5. TypeOK
  BY <1>1, <1>2, <1>3, <1>4 DEF Init, TypeOK
<1>6. IssuedAtCleanup /\ LoopIsDue
  BY DEF Init, IssuedAtCleanup, LoopIsDue
<1>. QED  BY <1>5, <1>6 DEF TypeInv
(* What happens between two cycles keeps the types. *)
LEMMA TypeEvents ==
  ASSUME TypeInv,
         \/ \E r \in Requests : Arrive(r) \/ RequestComplete(r)
         \/ \E rk \in Ranks, g \in Groups : RefreshCallback(rk, g)
         \/ \E rk \in Ranks, b \in Banks : DeviceEvent(rk, b)
  PROVE  TypeInv'
<1>1. ASSUME NEW r \in Requests, Arrive(r) PROVE TypeInv'
  <2>1. TypeOK'
    <3>1. memQueue' \in Seq(Requests) /\ fresh' \subseteq Requests /\ owed' \subseteq Requests
      BY <1>1 DEF TypeInv, TypeOK, Arrive
    <3>. QED  BY <1>1, <3>1, Zenon DEF TypeInv, TypeOK, Arrive, pageVars, refreshVars
  <2>2. IssuedAtCleanup' /\ LoopIsDue'
    BY <1>1, Zenon DEF TypeInv, IssuedAtCleanup, LoopIsDue, NeedRefresh, Arrive, refreshVars
  <2>. QED  BY <2>1, <2>2 DEF TypeInv
<1>2. ASSUME NEW r \in Requests, RequestComplete(r) PROVE TypeInv'
  BY <1>2 DEF TypeInv, TypeOK, IssuedAtCleanup, LoopIsDue, NeedRefresh,
              RequestComplete, pageVars, refreshVars
<1>3. ASSUME NEW rk \in Ranks, NEW g \in Groups, RefreshCallback(rk, g)
      PROVE  TypeInv'
  <2>. USE <1>3 DEF TypeInv
  <2>1. delayedRefreshCounter[rk][g] + 1 \in 0 .. DelayedRefreshThreshold
    <3>1. delayedRefreshCounter[rk][g] \in 0 .. DelayedRefreshThreshold
      BY DEF TypeOK
    <3>2. ~(delayedRefreshCounter[rk][g] >= DelayedRefreshThreshold)
      BY Zenon DEF RefreshCallback, RefreshKeepsUp, NeedRefresh
    <3>. QED  BY <3>1, <3>2, ControllerAssumption
  <2>2. delayedRefreshCounter' \in [Ranks -> [Groups -> 0 .. DelayedRefreshThreshold]]
    BY <2>1 DEF RefreshCallback, ProcessRefreshPulse, TypeOK
  <2>3. bankNeedRefresh' \in [Ranks -> [Banks -> BOOLEAN]]
    BY DEF RefreshCallback, ProcessRefreshPulse, TypeOK
  <2>4. TypeOK'
    BY <2>2, <2>3 DEF RefreshCallback, TypeOK, queueVars, pageVars
  <2>5. IssuedAtCleanup' /\ LoopIsDue'
    BY DEF RefreshCallback, IssuedAtCleanup, LoopIsDue
  <2>. QED  BY <2>4, <2>5
<1>4. ASSUME NEW rk \in Ranks, NEW b \in Banks, DeviceEvent(rk, b)
      PROVE  TypeInv'
  <2>. USE <1>4 DEF TypeInv
  <2>1. rank[rk] \in RankType(Rows) /\ NoRow \in Rows \cup {NoRow}
    BY DEF TypeOK
  <2>2. rank' \in [Ranks -> RankType(Rows)]
    <3>1. \/ rank' = [rank EXCEPT ![rk] = StartPrecharge(@, b)]
          \/ rank' = [rank EXCEPT ![rk] = StartPrechargeOfRank(@, b)]
          \/ rank' = [rank EXCEPT ![rk] = EndPrecharge(@, b)]
          \/ rank' = [rank EXCEPT ![rk] = EndRefresh(@, b)]
      BY DEF DeviceEvent
    <3>2. /\ StartPrecharge(rank[rk], b) \in RankType(Rows)
          /\ StartPrechargeOfRank(rank[rk], b) \in RankType(Rows)
          /\ EndPrecharge(rank[rk], b) \in RankType(Rows)
          /\ EndRefresh(rank[rk], b) \in RankType(Rows)
      BY <2>1, RankTypes
    <3>3. rank \in [Ranks -> RankType(Rows)]
      BY DEF TypeOK
    <3>. QED  BY <3>1, <3>2, <3>3
  <2>3. TypeOK'
    BY <2>2 DEF DeviceEvent, TypeOK, queueVars, pageVars, refreshVars
  <2>4. IssuedAtCleanup' /\ LoopIsDue'
    BY DEF DeviceEvent, IssuedAtCleanup, LoopIsDue
  <2>. QED  BY <2>3, <2>4
<1>. QED  BY <1>1, <1>2, <1>3, <1>4

(* The request Cycle() picks is in the transaction queue. *)
LEMMA CandidatesQueued ==
  ASSUME TypeOK, Candidates # {}
  PROVE  PickOldest \in DOMAIN memQueue
<1>1. Candidates \subseteq DOMAIN memQueue
  BY DEF Candidates, EligiblePositions
<1>2. DOMAIN memQueue \subseteq Nat
  BY DEF TypeOK
<1>. QED  BY <1>1, <1>2, MinFacts DEF PickOldest

(* IssueMemoryCommands() queues commands for a bank that exists. *)
LEMMA CommandsForType ==
  ASSUME TypeOK, NEW r \in Requests, NEW last
  PROVE  CommandsFor(r, last) \in Seq(CommandType)
<1>1. RankOf(r) \in Ranks /\ BankOf(r) \in Banks /\ Address[r].row \in Rows
  BY AddressFacts
<1>2. effectiveRow[RankOf(r)][BankOf(r)] \in Rows \cup {NoRow}
  BY <1>1 DEF TypeOK
<1>3. {Command("ACTIVATE", RankOf(r), BankOf(r), Address[r].row, NoRequest),
       Command("PRECHARGE", RankOf(r), BankOf(r),
               effectiveRow[RankOf(r)][BankOf(r)], NoRequest),
       Command("ACCESS", RankOf(r), BankOf(r), Address[r].row, r),
       Command("ACCESS_PRE", RankOf(r), BankOf(r), Address[r].row, r)}
        \subseteq CommandType
  BY <1>1, <1>2 DEF Command, CommandType
<1>4. \A x, y, z \in CommandType :
         /\ << >> \in Seq(CommandType)
         /\ <<x>> \in Seq(CommandType)
         /\ <<x, y>> \in Seq(CommandType)
         /\ <<x, y, z>> \in Seq(CommandType)
  OBVIOUS
<1>. QED  BY <1>3, <1>4 DEF CommandsFor

(* The first half of Cycle() keeps the types. *)
LEMMA TypeSchedule ==
  ASSUME TypeInv, Schedule
  PROVE  TypeInv'
<1>. USE DEF TypeInv
<1>1. CASE Candidates = {}
  BY <1>1 DEF TypeOK, IssuedAtCleanup, LoopIsDue, Schedule, pageVars, refreshVars
<1>2. CASE Candidates # {}
  <2>1. IssueMemoryCommands(PickOldest) /\ PickOldest \in DOMAIN memQueue
    BY <1>2, CandidatesQueued DEF Schedule
  <2>. DEFINE r == memQueue[PickOldest]
              last == IsLastRequest(RemoveAt(memQueue, PickOldest), r)
  <2>2. r \in Requests
    BY <2>1 DEF TypeOK
  <2>3. RankOf(r) \in Ranks /\ BankOf(r) \in Banks /\ Address[r].row \in Rows
    BY <2>2, AddressFacts
  <2>4. memQueue' \in Seq(Requests)
    BY <2>1, RemoveAtFacts DEF IssueMemoryCommands, TypeOK
  <2>. HIDE DEF r, last
  <2>5. /\ commandQueues' = [commandQueues EXCEPT
                               ![QueueOf(r)] = @ \o CommandsFor(r, last)]
        /\ effectiveRow' = [effectiveRow EXCEPT
             ![RankOf(r)][BankOf(r)] = EffectiveRowAfter(r, last)]
        /\ activateQueued' = [activateQueued EXCEPT
             ![RankOf(r)][BankOf(r)] = EffectiveRowAfter(r, last) # NoRow]
        /\ starvationCounter' = [starvationCounter EXCEPT
             ![RankOf(r)][BankOf(r)] = StarvationAfter(r)]
    BY <2>1 DEF IssueMemoryCommands, r, last
  <2>6. EffectiveRowAfter(r, last) \in Rows \cup {NoRow}
    BY <2>3, SMTT(60) DEF EffectiveRowAfter, TypeOK
  <2>7. StarvationAfter(r) \in 0 .. StarvationThreshold
    <3>1. /\ starvationCounter[RankOf(r)][BankOf(r)] \in 0 .. StarvationThreshold
          /\ StarvationThreshold \in Nat
      BY <2>3, ControllerAssumption DEF TypeOK
    <3>. QED  BY <3>1 DEF StarvationAfter
  <2>8. CommandsFor(r, last) \in Seq(CommandType)
    BY <2>2, CommandsForType
  <2>9. commandQueues' \in [Queues -> Seq(CommandType)]
    BY <2>5, <2>8, QueueGrows DEF TypeOK
  <2>10. /\ effectiveRow' \in [Ranks -> [Banks -> Rows \cup {NoRow}]]
         /\ activateQueued' \in [Ranks -> [Banks -> BOOLEAN]]
         /\ starvationCounter' \in [Ranks -> [Banks -> 0 .. StarvationThreshold]]
    BY <2>5, <2>6, <2>7 DEF TypeOK
  <2>11. TypeOK'
    BY <2>4, <2>9, <2>10 DEF Schedule, TypeOK, refreshVars
  <2>12. IssuedAtCleanup' /\ LoopIsDue'
    BY DEF Schedule, IssuedAtCleanup, LoopIsDue
  <2>. QED  BY <2>11, <2>12
<1>. QED  BY <1>1, <1>2
(* HandleLowPower() keeps the types. *)
LEMMA TypeLowPower ==
  ASSUME TypeInv, NEW ready \in SUBSET Ranks, HandleLowPower(ready)
  PROVE  TypeInv'
<1>. USE DEF TypeInv
<1>1. IssuedAtCleanup' /\ LoopIsDue'
  BY DEF HandleLowPower, IssuedAtCleanup, LoopIsDue
<1>2. CASE UseLowPower
  <2>. DEFINE up   == {rk \in ready : WantsPowerUp(rk)}
              down == {rk \in ready : WantsPowerDown(rk)}
              new(rk) == CASE rk \in up -> PowerUp(rank[rk])
                           [] rk \in down -> PowerDown(rank[rk], PowerDownOp(rk))
                           [] OTHER -> rank[rk]
  <2>1. rank' = [rk \in Ranks |-> new(rk)]
    BY <1>2 DEF HandleLowPower
  <2>2. rankPowerDown' \in [Ranks -> BOOLEAN]
    BY <1>2 DEF HandleLowPower
  <2>3. ASSUME NEW rk \in Ranks PROVE new(rk) \in RankType(Rows)
    <3>1. rank[rk] \in RankType(Rows) /\ 0 \in Banks /\ NoRow \in Rows \cup {NoRow}
      BY ControllerAssumption DEF TypeOK, Banks
    <3>2. PowerUp(rank[rk]) \in RankType(Rows)
      BY <3>1, RankTypes
    <3>3. ASSUME rk \in down
          PROVE  PowerDown(rank[rk], PowerDownOp(rk)) \in RankType(Rows)
      <4>1. PowerDownOp(rk) \in PoweredDown
        BY <3>3 DEF WantsPowerDown, PowerDownOp, PoweredDown
      <4>. QED  BY <3>1, <4>1, RankTypes
    <3>. QED  BY <3>1, <3>2, <3>3
  <2>. HIDE DEF new
  <2>4. rank' \in [Ranks -> RankType(Rows)]
    BY <2>1, <2>3
  <2>5. TypeOK'
    BY <2>2, <2>4 DEF HandleLowPower, TypeOK, queueVars, pageVars, refreshVars
  <2>. QED  BY <1>1, <2>5
<1>3. CASE ~UseLowPower
  <2>1. TypeOK'
    BY <1>3 DEF HandleLowPower, TypeOK, queueVars, pageVars, refreshVars
  <2>. QED  BY <1>1, <2>1
<1>. QED  BY <1>2, <1>3

(* The search of HandleRefresh() keeps the types and finds a due group. *)
LEMMA TypeFindRefresh ==
  ASSUME TypeInv, FindRefresh
  PROVE  TypeInv'
<1>. USE DEF TypeInv
<1>1. CASE RefreshNeeds = {}
  BY <1>1 DEF TypeOK, IssuedAtCleanup, LoopIsDue, FindRefresh,
              queueVars, pageVars, refreshVars
<1>2. CASE RefreshNeeds # {}
  <2>. DEFINE k == Min(RefreshNeeds)
  <2>1. RefreshNeeds \subseteq Nat
    BY DEF RefreshNeeds
  <2>2. k \in RefreshNeeds /\ k \in Nat
    BY <1>2, <2>1, MinFacts
  <2>. HIDE DEF k
  <2>3. NeedRefresh(RefreshRank(k), GroupOf(RefreshBank(k)))
    BY <2>2 DEF RefreshNeeds
  <2>4. RefreshRank(k) \in Ranks /\ RefreshBank(k) \in Banks
    BY <2>2, RefreshPlace DEF TypeOK
  <2>5. 0 \in 0 .. BanksPerRefresh
    BY ControllerAssumption
  <2>6. refreshLoop' = [rank |-> RefreshRank(k), bank |-> RefreshBank(k), tmpBank |-> 0]
    BY <1>2 DEF FindRefresh, k
  <2>7. TypeOK'
    BY <1>2, <2>4, <2>5, <2>6
       DEF FindRefresh, TypeOK, queueVars, pageVars, refreshVars
  <2>8. NeedRefresh(RefreshRank(k), GroupOf(RefreshBank(k))) <=>
          NeedRefresh(refreshLoop.rank, GroupOf(refreshLoop.bank))'
    BY <2>6 DEF FindRefresh, NeedRefresh, refreshVars
  <2>9. IssuedAtCleanup' /\ LoopIsDue'
    BY <2>3, <2>8 DEF FindRefresh, IssuedAtCleanup, LoopIsDue
  <2>. QED  BY <2>7, <2>9
<1>. QED  BY <1>1, <1>2

(* Precharging for a refresh keeps the types. *)
LEMMA TypePrecharge ==
  ASSUME TypeInv, PrechargeForRefresh
  PROVE  TypeInv'
<1>. USE DEF TypeInv
<1>. DEFINE rk == refreshLoop.rank
            b  == (refreshLoop.bank + refreshLoop.tmpBank) % BANKS
<1>1. refreshLoop \in [rank : Ranks, bank : Banks, tmpBank : 0 .. BanksPerRefresh]
  BY DEF TypeOK
<1>2. rk \in Ranks /\ b \in Banks
  BY <1>1, ControllerAssumption DEF Banks
<1>3. refreshLoop' \in [rank : Ranks, bank : Banks, tmpBank : 0 .. BanksPerRefresh]
      /\ refreshLoop'.rank = refreshLoop.rank
      /\ refreshLoop'.bank = refreshLoop.bank
  BY <1>1, ControllerAssumption DEF PrechargeForRefresh
<1>4. IssuedAtCleanup' /\ LoopIsDue'
  BY <1>3 DEF PrechargeForRefresh, IssuedAtCleanup, LoopIsDue, NeedRefresh, refreshVars
<1>5. CASE activateQueued[rk][b]
  <2>1. Command("PRECHARGE_ALL", rk, b, NoRow, NoRequest) \in CommandType
    BY <1>2 DEF Command, CommandType
  <2>2. PrechargeActiveBank(rk, b)
    BY <1>5 DEF PrechargeForRefresh
  <2>. HIDE DEF rk, b
  <2>3. commandQueues' \in [Queues -> Seq(CommandType)]
    BY <2>1, <2>2, QueueGrows, ZenonT(60) DEF PrechargeActiveBank, Push, TypeOK
  <2>4. /\ activateQueued' \in [Ranks -> [Banks -> BOOLEAN]]
        /\ effectiveRow' \in [Ranks -> [Banks -> Rows \cup {NoRow}]]
    BY <1>2, <2>2 DEF PrechargeActiveBank, TypeOK
  <2>5. TypeOK'
    BY <1>3, <2>3, <2>4 DEF PrechargeForRefresh, TypeOK, queueVars, refreshVars
  <2>. QED  BY <1>4, <2>5
<1>6. CASE ~activateQueued[rk][b]
  <2>1. TypeOK'
    BY <1>3, <1>6 DEF PrechargeForRefresh, TypeOK, queueVars, refreshVars
  <2>. QED  BY <1>4, <2>1
<1>. QED  BY <1>5, <1>6

(* Queueing the REFRESH keeps the types; the counter does not wrap. *)
LEMMA TypeQueueRefresh ==
  ASSUME TypeInv, QueueRefresh
  PROVE  TypeInv'
<1>. USE DEF TypeInv
<1>. DEFINE rk == refreshLoop.rank
            j  == refreshLoop.bank
            g  == GroupOf(j)
<1>1. rk \in Ranks /\ j \in Banks
  BY DEF TypeOK
<1>2. Command("REFRESH", rk, j, NoRow, NoRequest) \in CommandType
  BY <1>1 DEF Command, CommandType
<1>3. NeedRefresh(rk, g)
  BY DEF QueueRefresh, LoopIsDue
<1>4. delayedRefreshCounter' =
        [delayedRefreshCounter EXCEPT ![rk][g] = delayedRefreshCounter[rk][g] - 1]
  BY DEF QueueRefresh
<1>5. /\ commandQueues' = [commandQueues EXCEPT ![GetCommandQueueId(rk, j)] =
                             Append(@, Command("REFRESH", rk, j, NoRow, NoRequest))]
      /\ refreshQueued' = [refreshQueued EXCEPT ![rk] =
                             [b \in Banks |-> b \in RefreshTargets(j) \/ @[b]]]
      /\ \/ bankNeedRefresh' = bankNeedRefresh
         \/ bankNeedRefresh' = [bankNeedRefresh EXCEPT ![rk] =
                 [b \in Banks |-> @[b] /\ b \notin GroupBanks(g)]]
  BY DEF QueueRefresh, Push
<1>. HIDE DEF rk, j, g
<1>6. delayedRefreshCounter' \in [Ranks -> [Groups -> 0 .. DelayedRefreshThreshold]]
  <2>1. CASE g \in Groups
    <3>1. delayedRefreshCounter[rk][g] \in 0 .. DelayedRefreshThreshold
      BY <1>1, <2>1 DEF TypeOK
    <3>2. delayedRefreshCounter[rk][g] >= DelayedRefreshThreshold
      BY <1>3 DEF NeedRefresh
    <3>3. delayedRefreshCounter[rk][g] - 1 \in 0 .. DelayedRefreshThreshold
      BY <3>1, <3>2, ControllerAssumption
    <3>. QED  BY <1>1, <1>4, <2>1, <3>3 DEF TypeOK
  <2>2. CASE g \notin Groups
    BY <1>1, <1>4, <2>2, ZenonT(60) DEF TypeOK
  <2>. QED  BY <2>1, <2>2
<1>7. commandQueues' \in [Queues -> Seq(CommandType)]
  BY <1>2, <1>5, QueueGrows, ZenonT(60) DEF TypeOK
<1>8. /\ refreshQueued' \in [Ranks -> [Banks -> BOOLEAN]]
      /\ bankNeedRefresh' \in [Ranks -> [Banks -> BOOLEAN]]
  <2>1. [b \in Banks |-> b \in RefreshTargets(j) \/ refreshQueued[rk][b]]
          \in [Banks -> BOOLEAN]
    OBVIOUS
  <2>2. [b \in Banks |-> bankNeedRefresh[rk][b] /\ b \notin GroupBanks(g)]
          \in [Banks -> BOOLEAN]
    OBVIOUS
  <2>. QED  BY <1>1, <1>5, <2>1, <2>2, ZenonT(60) DEF TypeOK
<1>9. nextRefreshRank' \in Ranks /\ nextRefreshBank' \in Banks
  <2>1. nextRefreshRank \in 0 .. RANKS - 1 /\ nextRefreshBank \in 0 .. BANKS - 1
    BY DEF TypeOK, Ranks, Banks
  <2>2. /\ nextRefreshBank' \in {0, nextRefreshBank + BanksPerRefresh}
        /\ nextRefreshBank' # 0 => nextRefreshBank + BanksPerRefresh < BANKS
        /\ nextRefreshRank' \in {nextRefreshRank, (nextRefreshRank + 1) % RANKS}
    BY <2>1, ControllerAssumption DEF QueueRefresh
  <2>. QED  BY <2>1, <2>2, ControllerAssumption DEF Ranks, Banks
<1>10. refreshLoop' \in [rank : Ranks, bank : Banks, tmpBank : 0 .. BanksPerRefresh]
  BY ControllerAssumption DEF QueueRefresh, NoLoop, Ranks, Banks
<1>11. TypeOK'
  BY <1>6, <1>7, <1>8, <1>9, <1>10 DEF QueueRefresh, TypeOK, queueVars, pageVars
<1>12. IssuedAtCleanup' /\ LoopIsDue'
  BY DEF QueueRefresh, IssuedAtCleanup, LoopIsDue
<1>. QED  BY <1>11, <1>12
(* MoveCurrentQueue() counts up to the number of queues, not further. *)
LEMMA MoveCurrentQueueType ==
  ASSUME curQueue \in 0 .. commandQueueCount
  PROVE  MoveCurrentQueue \in 0 .. commandQueueCount
BY QueueCount DEF MoveCurrentQueue

(* Issuing the head of a queue keeps the types. *)
LEMMA TypeIssue ==
  ASSUME TypeInv, NEW ready \in SUBSET Queues, CycleCommandQueues(ready)
  PROVE  TypeInv'
<1>. USE DEF TypeInv
<1>. DEFINE can == {k \in 0 .. commandQueueCount - 1 :
                      LET q == (curQueue + k) % commandQueueCount
                      IN q \in ready /\ QueueIssuable(q)}
<1>1. LoopIsDue'
  BY DEF CycleCommandQueues, LoopIsDue
<1>2. CASE can = {} /\ UNCHANGED <<rank, inService, issued, refreshQueued, curQueue>>
  <2>1. TypeOK'
    BY <1>2 DEF CycleCommandQueues, TypeOK, queueVars, pageVars
  <2>2. IssuedAtCleanup'
    BY <1>2 DEF CycleCommandQueues, IssuedAtCleanup
  <2>. QED  BY <1>1, <2>1, <2>2
<1>3. CASE can # {} /\ IssueHead((curQueue + Min(can)) % commandQueueCount)
  <2>. DEFINE q == (curQueue + Min(can)) % commandQueueCount
              c == Head(commandQueues[q])
  <2>1. Min(can) \in can
    <3>1. can \subseteq Nat
      OBVIOUS
    <3>. QED  BY <1>3, <3>1, MinFacts
  <2>2. q \in ready /\ QueueIssuable(q) /\ IssueHead(q)
    BY <1>3, <2>1
  <2>. HIDE DEF q
  <2>3. /\ q \in Queues /\ commandQueues[q] # << >>
        /\ commandQueues[q] \in Seq(CommandType)
    BY <2>2 DEF QueueIssuable, TypeOK
  <2>4. c \in CommandType
    BY <2>3
  <2>5. c.rank \in Ranks /\ c.req \in Requests \cup {NoRequest}
    BY <2>4 DEF CommandType
  <2>. HIDE DEF c
  <2>6. /\ rank' = [rank EXCEPT ![c.rank] = IssueCommand(@, c)]
        /\ inService' = inService \cup ({c.req} \ {NoRequest})
        /\ issued' = {q}
        /\ refreshQueued' = ResetRefreshQueued(c)
        /\ curQueue' = MoveCurrentQueue
    BY <2>2 DEF IssueHead, c
  <2>7. rank' \in [Ranks -> RankType(Rows)]
    BY <2>4, <2>5, <2>6, IssueType DEF TypeOK
  <2>8. refreshQueued' \in [Ranks -> [Banks -> BOOLEAN]]
    <3>1. [b \in Banks |-> refreshQueued[c.rank][b]
                             /\ b \notin GroupBanks(GroupOf(c.bank))]
            \in [Banks -> BOOLEAN]
      OBVIOUS
    <3>. QED  BY <2>5, <2>6, <3>1 DEF ResetRefreshQueued, TypeOK
  <2>9. inService' \subseteq Requests /\ issued' \subseteq Queues
        /\ curQueue' \in 0 .. commandQueueCount
    BY <2>3, <2>5, <2>6, MoveCurrentQueueType DEF TypeOK
  <2>10. TypeOK'
    BY <2>7, <2>8, <2>9 DEF CycleCommandQueues, TypeOK, queueVars, pageVars
  <2>11. IssuedAtCleanup'
    BY <2>3, <2>6 DEF CycleCommandQueues, IssuedAtCleanup
  <2>. QED  BY <1>1, <2>10, <2>11
<1>. QED  BY <1>2, <1>3 DEF CycleCommandQueues

(* CleanupCallback() keeps the types. *)
LEMMA TypeCleanup ==
  ASSUME TypeInv, CleanupCallback
  PROVE  TypeInv'
<1>. USE DEF TypeInv
<1>1. ASSUME NEW q \in issued PROVE Tail(commandQueues[q]) \in Seq(CommandType)
  <2>1. commandQueues[q] \in Seq(CommandType) /\ commandQueues[q] # << >>
    BY DEF TypeOK, IssuedAtCleanup
  <2>. QED  BY <2>1
<1>2. commandQueues' \in [Queues -> Seq(CommandType)]
  BY <1>1 DEF CleanupCallback, TypeOK
<1>3. TypeOK'
  BY <1>2 DEF CleanupCallback, TypeOK, queueVars, pageVars, refreshVars
<1>4. IssuedAtCleanup' /\ LoopIsDue'
  BY DEF CleanupCallback, IssuedAtCleanup, LoopIsDue
<1>. QED  BY <1>3, <1>4

(* Every step of the controller keeps TypeInv. *)
LEMMA TypeStep == TypeInv /\ [Next]_vars => TypeInv'
<1>. SUFFICES ASSUME TypeInv, [Next]_vars PROVE TypeInv'
  OBVIOUS
<1>1. CASE UNCHANGED vars
  BY <1>1 DEF TypeInv, TypeOK, IssuedAtCleanup, LoopIsDue, NeedRefresh, vars
<1>. QED  BY <1>1, TypeEvents, TypeSchedule, TypeLowPower, TypeFindRefresh,
             TypePrecharge, TypeQueueRefresh, TypeIssue, TypeCleanup DEF Next

(* The variables of the controller keep their types, CleanupCallback()     *)
(* always finds what it removes, and DecrementRefreshCounter() never       *)
(* decrements a zero.                                                      *)
THEOREM ControllerTypeInv == Spec => []TypeInv
BY TypeInit, TypeStep, PTL DEF Spec

(* TypeOK holds of every controller the configuration files can describe. *)
THEOREM ControllerTypes == Spec => []TypeOK
<1>1. TypeInv => TypeOK
  BY DEF TypeInv
<1>. QED  BY <1>1, ControllerTypeInv, PTL
-----------------------------------------------------------------------------
(* Rank d is powered down as a whole or not at all, as down says, and it   *)
(* knows that it refreshes.                                                *)
Sound(d, down) ==
  \A b \in Banks :
    /\ d.bank[b] \in PoweredDown <=> down
    /\ down => d.state \in PoweredDown
    /\ down => d.array[b] # "REFRESHING"
    /\ d.array[b] = "REFRESHING" => d.state = "REFRESHING"

(* The inductive form of PowerDownAgrees, rank by rank. That a refreshing  *)
(* rank says so is needed to see that none is powered down: CanPowerDown() *)
(* asks the rank and not its subarrays.                                    *)
PowerInv == \A rk \in Ranks : Sound(rank[rk], rankPowerDown[rk])

(* A command the rank takes is not for a powered-down rank, and leaves the *)
(* rank sound.                                                             *)
LEMMA IssueSound ==
  ASSUME NEW d \in RankType(Rows), NEW down \in BOOLEAN, Sound(d, down),
         NEW c \in CommandType, IsIssuable(d, c)
  PROVE  Sound(IssueCommand(d, c), down)
<1>1. /\ c.bank \in Banks
      /\ c.type \in {"ACTIVATE", "ACCESS", "ACCESS_PRE", "PRECHARGE",
                     "PRECHARGE_ALL", "REFRESH"}
  BY DEF CommandType
<1>2. ASSUME NEW e \in RankType(Rows), Sound(e, FALSE)
      PROVE  Sound(CloseIfIdle(e), FALSE)
  BY <1>2 DEF CloseIfIdle, Idle, Sound, RankType, PoweredDown
<1>3. CASE c.type = "ACTIVATE"
  BY <1>1, <1>3, ZenonT(60) DEF IsIssuable, IssueCommand, CanActivate, Activate, Sound,
                    RankType, PoweredDown
<1>4. CASE c.type = "ACCESS"
  BY <1>1, <1>4 DEF IssueCommand
<1>5. CASE c.type = "ACCESS_PRE"
  BY <1>1, <1>5 DEF IsIssuable, IssueCommand, CanAccess, AccessPrecharge,
                    Sound, RankType, PoweredDown
<1>6. ASSUME d.bank[c.bank] \notin PoweredDown, d.array[c.bank] # "REFRESHING"
      PROVE  Sound(Precharge(d, c.bank), FALSE) /\ ~down
  <2>. DEFINE e == [d EXCEPT !.bank[c.bank] = "CLOSED", !.array[c.bank] = "PRECHARGING"]
  <2>1. e \in RankType(Rows)
    BY <1>1 DEF RankType, PoweredDown
  <2>2. Sound(e, FALSE) /\ ~down
    BY <1>1, <1>6 DEF Sound, RankType, PoweredDown
  <2>. HIDE DEF e
  <2>3. Sound(CloseIfIdle(e), FALSE)
    BY <1>2, <2>1, <2>2
  <2>. QED  BY <2>2, <2>3 DEF e, Precharge
<1>7. CASE c.type = "PRECHARGE"
  BY <1>1, <1>6, <1>7 DEF IsIssuable, IssueCommand, CanPrecharge
<1>8. CASE c.type = "PRECHARGE_ALL"
  <2>1. IssueCommand(d, c) = PrechargeAll(d, c.bank) /\ CanPrechargeAll(d, c.bank)
    BY <1>1, <1>8 DEF IsIssuable, IssueCommand
  <2>2. ~down
    BY <1>1, <2>1 DEF CanPrechargeAll, Sound, PoweredDown
  <2>3. CASE d.bank[c.bank] = "OPEN"
    BY <1>6, <2>1, <2>2, <2>3 DEF CanPrechargeAll, PrechargeAll, PoweredDown
  <2>4. CASE d.bank[c.bank] # "OPEN"
    BY <1>2, <2>1, <2>2, <2>4 DEF PrechargeAll
  <2>. QED  BY <2>3, <2>4
<1>9. CASE c.type = "REFRESH"
  <2>1. IssueCommand(d, c) = Refresh(d, c.bank) /\ CanRefresh(d, c.bank)
    BY <1>1, <1>9 DEF IsIssuable, IssueCommand
  <2>2. c.bank \in RefreshedBanks(c.bank)
    BY <1>1, ControllerAssumption DEF RefreshedBanks, Banks
  <2>3. ~down
    BY <1>1, <2>1, <2>2 DEF CanRefresh, Sound
  <2>4. /\ Refresh(d, c.bank).state = "REFRESHING"
        /\ Refresh(d, c.bank).bank = d.bank
    BY DEF Refresh, RankType
  <2>. QED  BY <2>1, <2>3, <2>4 DEF Sound
<1>. QED  BY <1>1, <1>3, <1>4, <1>5, <1>7, <1>8, <1>9

(* The events of the devices leave a rank sound: the end of a refresh      *)
(* closes the rank only when no other group is refreshing.                 *)
LEMMA EventSound ==
  ASSUME NEW d \in RankType(Rows), NEW down \in BOOLEAN, Sound(d, down),
         NEW b \in Banks
  PROVE  /\ PrechargePending(d, b) => Sound(StartPrecharge(d, b), down)
         /\ PrechargePending(d, b) /\ d.bank[b] = "CLOSED" =>
              Sound(StartPrechargeOfRank(d, b), down)
         /\ Sound(EndPrecharge(d, b), down)
         /\ d.array[b] = "REFRESHING" => Sound(EndRefresh(d, b), down)
<1>1. PrechargePending(d, b) => Sound(StartPrecharge(d, b), down)
  BY DEF PrechargePending, StartPrecharge, Sound, RankType
<1>2. Sound(EndPrecharge(d, b), down)
  BY DEF EndPrecharge, Sound, RankType
<1>3. ASSUME d.array[b] = "REFRESHING" PROVE Sound(EndRefresh(d, b), down)
  <2>. DEFINE arr == [c \in Banks |->
                        IF c \in RefreshedBanks(b) THEN "CLOSED" ELSE d.array[c]]
              row == [c \in Banks |->
                        IF c \in RefreshedBanks(b) THEN NoRow ELSE d.openRow[c]]
              e   == [d EXCEPT !.array = arr, !.openRow = row]
  <2>1. /\ e.state = d.state /\ e.bank = d.bank /\ e.array = arr
        /\ e \in RankType(Rows)
    BY DEF RankType
  <2>2. ~down
    BY <1>3 DEF Sound
  <2>3. Sound(e, down)
    BY <2>1 DEF Sound
  <2>. HIDE DEF arr, row
  <2>4. Idle(e) => Sound([e EXCEPT !.state = "CLOSED"], down)
    BY <2>1, <2>2, <2>3 DEF Idle, Sound, RankType
  <2>. HIDE DEF e
  <2>5. EndRefresh(d, b) = CloseIfIdle(e)
    BY DEF EndRefresh, e, arr, row
  <2>. QED  BY <2>3, <2>4, <2>5 DEF CloseIfIdle
<1>4. ASSUME PrechargePending(d, b), d.bank[b] = "CLOSED"
      PROVE  Sound(StartPrechargeOfRank(d, b), down)
  <2>1. PICK e \in RankType(Rows) : e = StartPrecharge(d, b)
    BY RankTypes
  <2>2. Sound(e, down) /\ ~down
    BY <1>1, <1>4, <2>1 DEF Sound, PoweredDown
  <2>3. Idle(e) => Sound([e EXCEPT !.state = "CLOSED"], down)
    BY <2>2 DEF Idle, Sound, RankType
  <2>. QED  BY <2>1, <2>2, <2>3 DEF StartPrechargeOfRank, CloseIfIdle
<1>. QED  BY <1>1, <1>2, <1>3, <1>4

(* Powering a rank up or down takes all its banks along. *)
LEMMA PowerSound ==
  ASSUME NEW d \in RankType(Rows), NEW down \in BOOLEAN, Sound(d, down)
  PROVE  /\ down => Sound(PowerUp(d), FALSE)
         /\ \A op \in PoweredDown : CanPowerDown(d, op) => Sound(PowerDown(d, op), TRUE)
<1>1. down => Sound(PowerUp(d), FALSE)
  BY DEF PowerUp, Sound, RankType, PoweredDown
<1>2. ASSUME NEW op \in PoweredDown, CanPowerDown(d, op)
      PROVE  Sound(PowerDown(d, op), TRUE)
  BY <1>2 DEF CanPowerDown, PowerDown, Sound, RankType, PoweredDown
<1>. QED  BY <1>1, <1>2
(* No rank starts powered down (InitPD is false). *)
LEMMA PowerInit == Init => PowerInv
BY DEF Init, PowerInv, Sound, NewRank, PoweredDown

(* Device events keep the ranks sound. *)
LEMMA PowerDevice ==
  ASSUME TypeInv, PowerInv, NEW rk \in Ranks, NEW b \in Banks, DeviceEvent(rk, b)
  PROVE  PowerInv'
<1>1. rank \in [Ranks -> RankType(Rows)] /\ rankPowerDown \in [Ranks -> BOOLEAN]
  BY DEF TypeInv, TypeOK
<1>2. rankPowerDown' = rankPowerDown
  BY DEF DeviceEvent
<1>. DEFINE d == rank[rk]
<1>3. Sound(d, rankPowerDown[rk]) /\ d \in RankType(Rows)
      /\ rankPowerDown[rk] \in BOOLEAN
  BY <1>1 DEF PowerInv
<1>4. PICK e : rank' = [rank EXCEPT ![rk] = e] /\ Sound(e, rankPowerDown[rk])
  <2>1. CASE /\ PrechargePending(d, b)
             /\ rank' = [rank EXCEPT ![rk] = StartPrecharge(@, b)]
    BY <1>3, <2>1, EventSound
  <2>2. CASE rank' = [rank EXCEPT ![rk] = EndPrecharge(@, b)]
    BY <1>3, <2>2, EventSound
  <2>3. CASE /\ d.array[b] = "REFRESHING"
             /\ rank' = [rank EXCEPT ![rk] = EndRefresh(@, b)]
    BY <1>3, <2>3, EventSound
  <2>4. CASE /\ PrechargePending(d, b) /\ d.bank[b] = "CLOSED"
             /\ rank' = [rank EXCEPT ![rk] = StartPrechargeOfRank(@, b)]
    BY <1>3, <2>4, EventSound
  <2>. QED  BY <2>1, <2>2, <2>3, <2>4 DEF DeviceEvent
<1>. QED  BY <1>1, <1>2, <1>4 DEF PowerInv

(* HandleLowPower() keeps the ranks sound and its own flags true of them. *)
LEMMA PowerLowPower ==
  ASSUME TypeInv, PowerInv, NEW ready \in SUBSET Ranks, HandleLowPower(ready)
  PROVE  PowerInv'
<1>1. rank \in [Ranks -> RankType(Rows)] /\ rankPowerDown \in [Ranks -> BOOLEAN]
  BY DEF TypeInv, TypeOK
<1>2. CASE ~UseLowPower
  BY <1>2 DEF HandleLowPower, PowerInv
<1>3. CASE UseLowPower
  <2>. DEFINE up   == {rk \in ready : WantsPowerUp(rk)}
              down == {rk \in ready : WantsPowerDown(rk)}
  <2>1. /\ rank' = [rk \in Ranks |->
             CASE rk \in up -> PowerUp(rank[rk])
               [] rk \in down -> PowerDown(rank[rk], PowerDownOp(rk))
               [] OTHER -> rank[rk]]
        /\ rankPowerDown' = [rk \in Ranks |->
             rk \in down \/ (rk \notin up /\ rankPowerDown[rk])]
    BY <1>3 DEF HandleLowPower
  <2>2. SUFFICES ASSUME NEW rk \in Ranks PROVE Sound(rank'[rk], rankPowerDown'[rk])
    BY DEF PowerInv
  <2>3. rank[rk] \in RankType(Rows) /\ Sound(rank[rk], rankPowerDown[rk])
        /\ rankPowerDown[rk] \in BOOLEAN
    BY <1>1 DEF PowerInv
  <2>4. rk \in up => rankPowerDown[rk] /\ rk \notin down
    BY DEF WantsPowerUp, WantsPowerDown
  <2>5. rk \in down => /\ PowerDownOp(rk) \in PoweredDown
                       /\ CanPowerDown(rank[rk], PowerDownOp(rk))
    BY DEF WantsPowerDown, PowerDownOp, PoweredDown
  <2>. HIDE DEF up, down
  <2>6. CASE rk \in up
    <3>1. rank'[rk] = PowerUp(rank[rk]) /\ rankPowerDown'[rk] = FALSE
      BY <2>1, <2>4, <2>6
    <3>. QED  BY <2>3, <2>4, <2>6, <3>1, PowerSound
  <2>7. CASE rk \in down
    <3>1. /\ rank'[rk] = PowerDown(rank[rk], PowerDownOp(rk))
          /\ rankPowerDown'[rk] = TRUE
      BY <2>1, <2>4, <2>7
    <3>. QED  BY <2>3, <2>5, <2>7, <3>1, PowerSound
  <2>8. CASE rk \notin up /\ rk \notin down
    <3>1. rank'[rk] = rank[rk] /\ rankPowerDown'[rk] = rankPowerDown[rk]
      BY <2>1, <2>3, <2>8
    <3>. QED  BY <2>3, <3>1
  <2>. QED  BY <2>6, <2>7, <2>8
<1>. QED  BY <1>2, <1>3

(* Issuing a command keeps the ranks sound. *)
LEMMA PowerIssue ==
  ASSUME TypeInv, PowerInv, NEW ready \in SUBSET Queues, CycleCommandQueues(ready)
  PROVE  PowerInv'
<1>. DEFINE can == {k \in 0 .. commandQueueCount - 1 :
                      LET q == (curQueue + k) % commandQueueCount
                      IN q \in ready /\ QueueIssuable(q)}
<1>0. rankPowerDown' = rankPowerDown
  BY DEF CycleCommandQueues
<1>1. CASE can = {} /\ UNCHANGED <<rank, inService, issued, refreshQueued, curQueue>>
  BY <1>0, <1>1 DEF PowerInv
<1>2. CASE can # {} /\ IssueHead((curQueue + Min(can)) % commandQueueCount)
  <2>. DEFINE q == (curQueue + Min(can)) % commandQueueCount
              c == Head(commandQueues[q])
  <2>1. Min(can) \in can
    <3>1. can \subseteq Nat
      OBVIOUS
    <3>. QED  BY <1>2, <3>1, MinFacts
  <2>2. q \in ready /\ QueueIssuable(q) /\ IssueHead(q)
    BY <1>2, <2>1
  <2>. HIDE DEF q
  <2>3. commandQueues[q] # << >> /\ commandQueues[q] \in Seq(CommandType)
        /\ rank \in [Ranks -> RankType(Rows)] /\ rankPowerDown \in [Ranks -> BOOLEAN]
    BY <2>2 DEF QueueIssuable, TypeInv, TypeOK
  <2>4. c \in CommandType
    BY <2>3
  <2>5. c.rank \in Ranks
    BY <2>4 DEF CommandType
  <2>6. /\ IsIssuable(rank[c.rank], c)
        /\ rank' = [rank EXCEPT ![c.rank] = IssueCommand(@, c)]
    BY <2>2 DEF IssueHead, QueueIssuable
  <2>. HIDE DEF c
  <2>7. Sound(IssueCommand(rank[c.rank], c), rankPowerDown[c.rank])
    BY <2>3, <2>4, <2>5, <2>6, IssueSound DEF PowerInv
  <2>. QED  BY <1>0, <2>3, <2>5, <2>6, <2>7 DEF PowerInv
<1>. QED  BY <1>1, <1>2 DEF CycleCommandQueues

(* Every step of the controller keeps the ranks sound. *)
LEMMA PowerStep == TypeInv /\ PowerInv /\ [Next]_vars => PowerInv'
<1>. SUFFICES ASSUME TypeInv, PowerInv, [Next]_vars PROVE PowerInv'
  OBVIOUS
<1>1. ASSUME UNCHANGED <<rank, rankPowerDown>> PROVE PowerInv'
  BY <1>1 DEF PowerInv
<1>2. CASE \E r \in Requests : Arrive(r) \/ RequestComplete(r)
  BY <1>1, <1>2 DEF Arrive, RequestComplete
<1>3. CASE \E rk \in Ranks, g \in Groups : RefreshCallback(rk, g)
  BY <1>1, <1>3 DEF RefreshCallback
<1>4. CASE \/ Schedule \/ FindRefresh \/ PrechargeForRefresh
           \/ QueueRefresh \/ CleanupCallback
  BY <1>1, <1>4 DEF Schedule, FindRefresh, PrechargeForRefresh, QueueRefresh,
                    CleanupCallback
<1>5. CASE UNCHANGED vars
  BY <1>1, <1>5 DEF vars
<1>. QED  BY <1>2, <1>3, <1>4, <1>5, PowerDevice, PowerLowPower, PowerIssue DEF Next

(* For any number of ranks, banks and bank groups, any queue model and     *)
(* page policy: rankPowerDown is true of every bank of the rank, so the    *)
(* assertion of CanPowerUp() never fails, and no rank is powered down      *)
(* while it refreshes.                                                     *)
THEOREM ControllerKnowsPowerdown == Spec => []PowerDownAgrees
<1>1. Spec => []PowerInv
  BY ControllerTypeInv, PowerInit, PowerStep, PTL DEF Spec
<1>2. TypeInv /\ PowerInv => PowerDownAgrees
  <2>. SUFFICES ASSUME TypeInv, PowerInv, NEW rk \in Ranks, NEW b \in Banks
                PROVE  /\ (rank[rk].bank[b] \in PoweredDown) = rankPowerDown[rk]
                       /\ rankPowerDown[rk] => rank[rk].state \in PoweredDown
                       /\ rankPowerDown[rk] => rank[rk].array[b] # "REFRESHING"
    BY DEF PowerDownAgrees
  <2>1. rankPowerDown[rk] \in BOOLEAN
    BY DEF TypeInv, TypeOK
  <2>. QED  BY <2>1 DEF PowerInv, Sound
<1>. QED  BY <1>1, <1>2, ControllerTypeInv, PTL

-----------------------------------------------------------------------------
(* The banks of a group that is due are marked (SetRefresh()). *)
DueMarked ==
  \A rk \in Ranks, g \in Groups : NeedRefresh(rk, g) =>
    \A b \in GroupBanks(g) : bankNeedRefresh[rk][b]

(* No step opens a due group to new requests: only ResetRefresh() does,    *)
(* and only for the group whose counter was decremented.                   *)
LEMMA DueStep == TypeInv /\ DueMarked /\ [Next]_vars => DueMarked'
<1>. SUFFICES ASSUME TypeInv, DueMarked, [Next]_vars PROVE DueMarked'
  OBVIOUS
<1>1. ASSUME UNCHANGED <<delayedRefreshCounter, bankNeedRefresh>>
      PROVE  DueMarked'
  BY <1>1 DEF DueMarked, NeedRefresh
<1>2. CASE \E r \in Requests : Arrive(r) \/ RequestComplete(r)
  BY <1>1, <1>2 DEF Arrive, RequestComplete, refreshVars
<1>3. CASE \E rk \in Ranks, b \in Banks : DeviceEvent(rk, b)
  BY <1>1, <1>3 DEF DeviceEvent, refreshVars
<1>4. CASE \/ Schedule \/ FindRefresh \/ PrechargeForRefresh \/ CleanupCallback
           \/ \E ready \in SUBSET Ranks : HandleLowPower(ready)
           \/ \E ready \in SUBSET Queues : CycleCommandQueues(ready)
  BY <1>1, <1>4 DEF Schedule, FindRefresh, PrechargeForRefresh, CleanupCallback,
                    HandleLowPower, CycleCommandQueues, refreshVars
<1>5. CASE UNCHANGED vars
  BY <1>1, <1>5 DEF vars
<1>6. ASSUME NEW rk \in Ranks, NEW g \in Groups, RefreshCallback(rk, g)
      PROVE  DueMarked'
  <2>. DEFINE count == delayedRefreshCounter[rk][g] + 1
  <2>1. /\ delayedRefreshCounter' = [delayedRefreshCounter EXCEPT ![rk][g] = count]
        /\ bankNeedRefresh' =
             IF count >= DelayedRefreshThreshold
             THEN [bankNeedRefresh EXCEPT ![rk] =
                    [b \in Banks |-> b \in GroupBanks(g) \/ @[b]]]
             ELSE bankNeedRefresh
    BY <1>6 DEF RefreshCallback, ProcessRefreshPulse
  <2>. SUFFICES ASSUME NEW k \in Ranks, NEW h \in Groups, NeedRefresh(k, h)',
                       NEW b \in GroupBanks(h)
                PROVE  bankNeedRefresh'[k][b]
    BY DEF DueMarked
  <2>2. b \in Banks
    BY GroupBanksExist
  <2>3. /\ delayedRefreshCounter \in [Ranks -> [Groups -> 0 .. DelayedRefreshThreshold]]
        /\ bankNeedRefresh \in [Ranks -> [Banks -> BOOLEAN]]
    BY DEF TypeInv, TypeOK
  <2>. HIDE DEF count
  <2>4. CASE k = rk /\ h = g
    <3>1. count >= DelayedRefreshThreshold
      BY <2>1, <2>3, <2>4 DEF NeedRefresh
    <3>. QED  BY <2>1, <2>2, <2>3, <2>4, <3>1
  <2>5. CASE ~(k = rk /\ h = g)
    <3>1. delayedRefreshCounter'[k][h] = delayedRefreshCounter[k][h]
      BY <2>1, <2>3, <2>5
    <3>2. bankNeedRefresh[k][b]
      BY <3>1 DEF NeedRefresh, DueMarked
    <3>. QED  BY <2>1, <2>2, <2>3, <3>2
  <2>. QED  BY <2>4, <2>5
<1>7. CASE QueueRefresh
  <2>. DEFINE rk == refreshLoop.rank
              g  == GroupOf(refreshLoop.bank)
              count == delayedRefreshCounter[rk][g] - 1
  <2>1. /\ delayedRefreshCounter' = [delayedRefreshCounter EXCEPT ![rk][g] = count]
        /\ bankNeedRefresh' =
             IF count < DelayedRefreshThreshold
             THEN [bankNeedRefresh EXCEPT ![rk] =
                    [b \in Banks |-> @[b] /\ b \notin GroupBanks(g)]]
             ELSE bankNeedRefresh
    BY <1>7 DEF QueueRefresh
  <2>. SUFFICES ASSUME NEW k \in Ranks, NEW h \in Groups, NeedRefresh(k, h)',
                       NEW b \in GroupBanks(h)
                PROVE  bankNeedRefresh'[k][b]
    BY DEF DueMarked
  <2>2. b \in Banks
    BY GroupBanksExist
  <2>3. /\ delayedRefreshCounter \in [Ranks -> [Groups -> 0 .. DelayedRefreshThreshold]]
        /\ bankNeedRefresh \in [Ranks -> [Banks -> BOOLEAN]]
        /\ rk \in Ranks /\ refreshLoop.bank \in Banks
    BY DEF TypeInv, TypeOK
  <2>4. g \in Int
    BY <2>3, ControllerAssumption DEF GroupOf, Banks
  <2>. HIDE DEF rk, g
  <2>5. CASE k = rk /\ h = g
    <3>1. delayedRefreshCounter[rk][g] \in 0 .. DelayedRefreshThreshold
      BY <2>3, <2>5
    <3>2. delayedRefreshCounter'[rk][g] = count
      BY <2>1, <2>3, <2>5
    <3>3. count >= DelayedRefreshThreshold
      BY <2>5, <3>2 DEF NeedRefresh
    <3>. QED  BY <3>1, <3>3, ControllerAssumption
  <2>6. CASE ~(k = rk /\ h = g)
    <3>1. delayedRefreshCounter'[k][h] = delayedRefreshCounter[k][h]
      BY <2>1, <2>3, <2>6
    <3>2. bankNeedRefresh[k][b]
      BY <3>1 DEF NeedRefresh, DueMarked
    <3>3. k # rk \/ b \notin GroupBanks(g)
      BY <2>4, <2>6, GroupsDisjoint
    <3>. QED  BY <2>1, <2>2, <2>3, <3>2, <3>3
  <2>. QED  BY <2>5, <2>6
<1>. QED  BY <1>2, <1>3, <1>4, <1>5, <1>6, <1>7 DEF Next

(* The marks of SetRefresh() stay until the REFRESH is queued. *)
THEOREM DueGroupsMarked == Spec => []DueMarked
<1>1. Init => DueMarked
  <2>. SUFFICES ASSUME Init, NEW rk \in Ranks, NEW g \in Groups
                PROVE  ~NeedRefresh(rk, g)
    BY DEF DueMarked
  <2>1. delayedRefreshCounter[rk][g] = 0
    BY DEF Init
  <2>. QED  BY <2>1, ControllerAssumption DEF NeedRefresh
<1>. QED  BY <1>1, DueStep, ControllerTypeInv, PTL DEF Spec
-----------------------------------------------------------------------------
(* activateQueued says whether effectiveRow holds a row. *)
RowsMatchFlags ==
  \A rk \in Ranks, b \in Banks :
    activateQueued[rk][b] <=> effectiveRow[rk][b] # NoRow

(* The inductive form of ClosePageCloses. *)
PageInv == RowsMatchFlags /\ ClosePageCloses

(* IssueMemoryCommands() keeps flag and row together, and under restricted *)
(* close page leaves neither.                                              *)
LEMMA PageSchedule ==
  ASSUME TypeInv, PageInv, Schedule
  PROVE  PageInv'
<1>1. CASE Candidates = {}
  BY <1>1 DEF Schedule, pageVars, PageInv, RowsMatchFlags, ClosePageCloses
<1>2. CASE Candidates # {}
  <2>1. IssueMemoryCommands(PickOldest) /\ PickOldest \in DOMAIN memQueue
    BY <1>2, CandidatesQueued DEF Schedule, TypeInv
  <2>. DEFINE r == memQueue[PickOldest]
              last == IsLastRequest(RemoveAt(memQueue, PickOldest), r)
              row == EffectiveRowAfter(r, last)
  <2>2. RankOf(r) \in Ranks /\ BankOf(r) \in Banks
    BY <2>1, AddressFacts DEF TypeInv, TypeOK
  <2>3. /\ effectiveRow' = [effectiveRow EXCEPT ![RankOf(r)][BankOf(r)] = row]
        /\ activateQueued' =
             [activateQueued EXCEPT ![RankOf(r)][BankOf(r)] = row # NoRow]
    BY <2>1 DEF IssueMemoryCommands
  <2>4. ClosePage = 2 => row = NoRow
    <3>. SUFFICES ASSUME ClosePage = 2 PROVE row = NoRow
      OBVIOUS
    <3>1. last = TRUE
      BY DEF IsLastRequest
    <3>2. ~Active(r) /\ effectiveRow[RankOf(r)][BankOf(r)] = NoRow
      BY <2>2 DEF PageInv, RowsMatchFlags, ClosePageCloses, Active
    <3>. HIDE DEF r, last
    <3>. QED  BY <3>1, <3>2 DEF EffectiveRowAfter
  <2>. HIDE DEF r, last, row
  <2>5. /\ effectiveRow \in [Ranks -> [Banks -> Rows \cup {NoRow}]]
        /\ activateQueued \in [Ranks -> [Banks -> BOOLEAN]]
    BY DEF TypeInv, TypeOK
  <2>6. RowsMatchFlags'
    BY <2>2, <2>3, <2>5 DEF PageInv, RowsMatchFlags
  <2>7. ClosePageCloses'
    BY <2>2, <2>3, <2>4, <2>5 DEF PageInv, ClosePageCloses
  <2>. QED  BY <2>6, <2>7 DEF PageInv
<1>. QED  BY <1>1, <1>2

(* The precharges of HandleRefresh() keep flag and row together. *)
LEMMA PagePrecharge ==
  ASSUME TypeInv, PageInv, PrechargeForRefresh
  PROVE  PageInv'
<1>. DEFINE rk == refreshLoop.rank
            b  == (refreshLoop.bank + refreshLoop.tmpBank) % BANKS
<1>1. /\ effectiveRow \in [Ranks -> [Banks -> Rows \cup {NoRow}]]
      /\ activateQueued \in [Ranks -> [Banks -> BOOLEAN]]
      /\ refreshLoop \in [rank : Ranks, bank : Banks, tmpBank : 0 .. BanksPerRefresh]
  BY DEF TypeInv, TypeOK
<1>2. rk \in Ranks /\ b \in Banks
  BY <1>1, ControllerAssumption DEF Banks
<1>3. \/ PrechargeActiveBank(rk, b)
      \/ UNCHANGED <<activateQueued, effectiveRow>>
  BY DEF PrechargeForRefresh
<1>. HIDE DEF rk, b
<1>4. CASE PrechargeActiveBank(rk, b)
  BY <1>1, <1>2, <1>4 DEF PrechargeActiveBank, PageInv, RowsMatchFlags, ClosePageCloses
<1>5. CASE UNCHANGED <<activateQueued, effectiveRow>>
  BY <1>5 DEF PageInv, RowsMatchFlags, ClosePageCloses
<1>. QED  BY <1>3, <1>4, <1>5

(* Every step of the controller keeps PageInv. *)
LEMMA PageStep == TypeInv /\ PageInv /\ [Next]_vars => PageInv'
<1>. SUFFICES ASSUME TypeInv, PageInv, [Next]_vars PROVE PageInv'
  OBVIOUS
<1>1. ASSUME UNCHANGED <<activateQueued, effectiveRow>> PROVE PageInv'
  BY <1>1 DEF PageInv, RowsMatchFlags, ClosePageCloses
<1>2. CASE \E r \in Requests : Arrive(r) \/ RequestComplete(r)
  BY <1>1, <1>2 DEF Arrive, RequestComplete, pageVars
<1>3. CASE \/ \E rk \in Ranks, g \in Groups : RefreshCallback(rk, g)
           \/ \E rk \in Ranks, b \in Banks : DeviceEvent(rk, b)
  BY <1>1, <1>3 DEF RefreshCallback, DeviceEvent, pageVars
<1>4. CASE \/ FindRefresh \/ QueueRefresh \/ CleanupCallback
           \/ \E ready \in SUBSET Ranks : HandleLowPower(ready)
           \/ \E ready \in SUBSET Queues : CycleCommandQueues(ready)
  BY <1>1, <1>4 DEF FindRefresh, QueueRefresh, CleanupCallback, HandleLowPower,
                    CycleCommandQueues, pageVars
<1>5. CASE UNCHANGED vars
  BY <1>1, <1>5 DEF vars
<1>. QED  BY <1>2, <1>3, <1>4, <1>5, PageSchedule, PagePrecharge DEF Next

(* activateQueued and effectiveRow agree always. *)
THEOREM ControllerPages == Spec => []PageInv
<1>1. Init => PageInv
  BY DEF Init, PageInv, RowsMatchFlags, ClosePageCloses
<1>. QED  BY <1>1, PageStep, ControllerTypeInv, PTL DEF Spec

(* Under restricted close page no bank is ever taken for active, so the    *)
(* assertion in the row hit branch of IssueMemoryCommands() never fails.   *)
THEOREM ClosePageAssertionHolds == Spec => []ClosePageCloses
<1>1. PageInv => ClosePageCloses
  BY DEF PageInv
<1>. QED  BY <1>1, ControllerPages, PTL
-----------------------------------------------------------------------------
(* Two conditions on the configuration, which the source does not check,   *)
(* are named and stated as hypotheses where they are needed.               *)

(* The groups of banks make up the rank. *)
GroupsCover == BANKS % BanksPerRefresh = 0

(* GetCommandQueueId() knows every bank: ScheduleScheme is set where each  *)
(* bank has a queue.                                                       *)
EveryBankHasQueue == QueueModel = "PerRank" \/ ScheduleScheme # 0

-----------------------------------------------------------------------------
(* Arithmetic of bank groups.                                              *)

(* Division with remainder is determined by its result. *)
LEMMA DivMod ==
  ASSUME NEW d \in Nat \ {0}, NEW a \in Nat, NEW r \in 0 .. d - 1
  PROVE  (a * d + r) \div d = a /\ (a * d + r) % d = r
  OBVIOUS

(* A position past the end of the ring comes back to its start. *)
LEMMA ModWraps ==
  ASSUME NEW d \in Nat \ {0}, NEW r \in 0 .. d - 1
  PROVE  r % d = r /\ (r + d) % d = r
  OBVIOUS

(* Multiplication by a natural number is monotone. *)
LEMMA MulMono ==
  ASSUME NEW x \in Int, NEW y \in Int, NEW b \in Nat, x <= y
  PROVE  x * b <= y * b
  OBVIOUS

(* The numbers of ranks, banks and groups are positive. *)
LEMMA GroupNumbers ==
  /\ BANKS \in Nat \ {0} /\ BanksPerRefresh \in Nat \ {0} /\ RANKS \in Nat \ {0}
  /\ m_refreshBankNum \in Nat \ {0}
  /\ GroupsCover => BANKS = m_refreshBankNum * BanksPerRefresh
<1>1. BANKS \in Nat \ {0} /\ BanksPerRefresh \in Nat \ {0} /\ RANKS \in Nat \ {0}
  BY ControllerAssumption
<1>2. GroupsCover => BANKS = m_refreshBankNum * BanksPerRefresh
  BY <1>1 DEF GroupsCover, m_refreshBankNum
<1>. QED  BY <1>1, <1>2, GroupCount

(* The first banks of the groups. *)
Heads == {g * BanksPerRefresh : g \in Groups}

(* With groups that cover the rank every bank is in the group of its       *)
(* number, and only in that.                                               *)
LEMMA GroupFacts ==
  ASSUME GroupsCover
  PROVE  /\ \A b \in Banks : GroupOf(b) \in Groups
         /\ \A g \in Groups : \A b \in Banks : b \in GroupBanks(g) <=> GroupOf(b) = g
<1>. DEFINE n == m_refreshBankNum
            B == BanksPerRefresh
<1>1. /\ BANKS \in Nat \ {0} /\ B \in Nat \ {0} /\ n \in Nat \ {0} /\ BANKS = n * B
  BY GroupNumbers
<1>. HIDE DEF n, B
<1>2. ASSUME NEW b \in Nat, b < n * B
      PROVE  /\ b \div B \in 0 .. n - 1
             /\ (b \div B) * B <= b /\ b < (b \div B + 1) * B
  BY <1>1, <1>2
<1>3. ASSUME NEW b \in Nat, NEW g \in Nat, g * B <= b, b < (g + 1) * B
      PROVE  b \div B = g
  BY <1>1, <1>3
<1>4. \A b \in Banks : b \in Nat /\ b < n * B
  BY <1>1 DEF Banks
<1>5. \A b \in Banks : GroupOf(b) = b \div B
  BY DEF GroupOf, B
<1>6. \A b \in Banks : GroupOf(b) \in Groups
  BY <1>2, <1>4, <1>5 DEF Groups, n
<1>7. ASSUME NEW g \in Groups, NEW b \in Banks
      PROVE  b \in GroupBanks(g) <=> GroupOf(b) = g
  <2>1. g \in Nat
    BY <1>1 DEF Groups, n
  <2>2. b \in GroupBanks(g) <=> b \in Nat /\ g * B <= b /\ b <= g * B + B - 1
    BY <1>1, <2>1 DEF GroupBanks, RefreshedBanks, B, Banks
  <2>3. (g + 1) * B = g * B + B /\ g * B \in Nat
    BY <1>1, <2>1
  <2>4. b \in Nat /\ (b \div B) * B <= b /\ b < (b \div B + 1) * B
    BY <1>2, <1>4
  <2>5. ASSUME GroupOf(b) = g
        PROVE  b \in GroupBanks(g)
    <3>1. g * B <= b /\ b < (g + 1) * B
      BY <1>5, <2>4, <2>5
    <3>. QED  BY <1>1, <2>2, <2>3, <2>4, <3>1
  <2>6. ASSUME b \in GroupBanks(g)
        PROVE  GroupOf(b) = g
    <3>1. g * B <= b /\ b < (g + 1) * B
      BY <1>1, <2>2, <2>3, <2>4, <2>6
    <3>. QED  BY <1>3, <1>5, <2>1, <2>4, <3>1
  <2>. QED  BY <2>5, <2>6
<1>. QED  BY <1>6, <1>7

(* The head of a group, and the banks from it on. *)
LEMMA HeadFacts ==
  ASSUME GroupsCover, NEW j \in Heads
  PROVE  /\ j \in Banks /\ GroupOf(j) \in Groups
         /\ j = GroupOf(j) * BanksPerRefresh
         /\ RefreshedBanks(j) = GroupBanks(GroupOf(j))
         /\ \A t \in 0 .. BanksPerRefresh - 1 :
              (j + t) % BANKS = j + t /\ j + t \in GroupBanks(GroupOf(j))
         /\ RefreshTargets(j) = GroupBanks(GroupOf(j))
<1>. DEFINE n == m_refreshBankNum
            B == BanksPerRefresh
<1>1. /\ BANKS \in Nat \ {0} /\ B \in Nat \ {0} /\ n \in Nat \ {0} /\ BANKS = n * B
  BY GroupNumbers
<1>2. PICK g \in 0 .. n - 1 : j = g * B
  BY DEF Heads, Groups
<1>. HIDE DEF n, B
<1>3. j \in Nat /\ j + B <= BANKS
  <2>1. (g + 1) * B <= n * B /\ (g + 1) * B = g * B + B /\ g * B \in Nat
    BY <1>1, MulMono
  <2>. QED  BY <1>1, <1>2, <2>1
<1>4. j \in Banks
  BY <1>1, <1>3 DEF Banks
<1>5. GroupOf(j) = g
  <2>1. (g * B + 0) \div B = g
    BY <1>1, DivMod
  <2>2. g * B + 0 = g * B
    BY <1>1
  <2>. QED  BY <1>2, <2>1, <2>2 DEF GroupOf, B
<1>6. g \in Groups
  BY DEF Groups, n
<1>7. RefreshedBanks(j) = GroupBanks(g)
  BY <1>2 DEF GroupBanks, B
<1>8. ASSUME NEW t \in 0 .. B - 1
      PROVE  (j + t) % BANKS = j + t /\ j + t \in GroupBanks(g)
  <2>1. j + t \in 0 .. BANKS - 1
    BY <1>1, <1>3
  <2>2. (j + t) % BANKS = j + t
    BY <1>1, <2>1, ModWraps
  <2>3. j + t \in RefreshedBanks(j)
    BY <1>1, <1>3 DEF RefreshedBanks, B
  <2>. QED  BY <1>7, <2>2, <2>3
<1>9. RefreshTargets(j) = GroupBanks(g)
  <2>1. RefreshTargets(j) = {j + t : t \in 0 .. B - 1}
    BY <1>8 DEF RefreshTargets, B
  <2>2. {j + t : t \in 0 .. B - 1} = j .. j + B - 1
    <3>1. ASSUME NEW x \in j .. j + B - 1
          PROVE  x \in {j + t : t \in 0 .. B - 1}
      <4>1. x - j \in 0 .. B - 1 /\ x = j + (x - j)
        BY <1>1, <1>3
      <4>. QED  BY <4>1
    <3>. QED  BY <1>1, <1>3, <3>1
  <2>. QED  BY <1>7, <2>1, <2>2 DEF RefreshedBanks, B
<1>. QED  BY <1>2, <1>4, <1>5, <1>6, <1>7, <1>8, <1>9 DEF B

(* The inner loop of HandleRefresh() goes from head to head. *)
LEMMA HeadRotates ==
  ASSUME GroupsCover, NEW h \in Groups, NEW m \in 0 .. m_refreshBankNum - 1
  PROVE  (h * BanksPerRefresh + m * BanksPerRefresh) % BANKS =
           (IF h + m < m_refreshBankNum THEN h + m ELSE h + m - m_refreshBankNum)
             * BanksPerRefresh
<1>. DEFINE n == m_refreshBankNum
            B == BanksPerRefresh
            x == IF h + m < n THEN h + m ELSE h + m - n
<1>1. /\ BANKS \in Nat \ {0} /\ B \in Nat \ {0} /\ n \in Nat \ {0} /\ BANKS = n * B
      /\ h \in 0 .. n - 1 /\ m \in 0 .. n - 1
  BY GroupNumbers DEF Groups
<1>. HIDE DEF n, B
<1>2. x \in 0 .. n - 1
  BY <1>1
<1>3. h * B + m * B = (h + m) * B
  BY <1>1
<1>. HIDE DEF x
<1>4. x * B \in 0 .. BANKS - 1
  <2>1. (x + 1) * B <= n * B /\ (x + 1) * B = x * B + B /\ x * B \in Nat
    BY <1>1, <1>2, MulMono
  <2>. QED  BY <1>1, <2>1
<1>5. CASE h + m < n
  BY <1>1, <1>3, <1>4, <1>5, ModWraps DEF x, B, n
<1>6. CASE ~(h + m < n)
  <2>1. (h + m) * B = x * B + BANKS
    BY <1>1, <1>6 DEF x
  <2>2. (x * B + BANKS) % BANKS = x * B
    BY <1>1, <1>4, ModWraps
  <2>. QED  BY <1>3, <1>6, <2>1, <2>2 DEF x, B, n
<1>. QED  BY <1>5, <1>6

-----------------------------------------------------------------------------
(* The rotation of HandleRefresh() stands at the head of a group, and so   *)
(* does the refresh it is queueing.                                        *)
RotationInv ==
  /\ nextRefreshBank \in Heads
  /\ pc = "precharge" => refreshLoop.bank \in Heads

(* The rotation starts at the first group. *)
LEMMA RotationInit == Init => RotationInv
<1>1. 0 * BanksPerRefresh = 0 /\ 0 \in Groups
  BY GroupNumbers DEF Groups
<1>. QED  BY <1>1 DEF Init, RotationInv, Heads

(* What the two loops of HandleRefresh() look at in round k. *)
LEMMA RefreshRound ==
  ASSUME GroupsCover, NEW h \in Groups, nextRefreshBank = h * BanksPerRefresh,
         NEW k \in Nat
  PROVE  /\ \E m \in 0 .. m_refreshBankNum - 1 :
              /\ m = k % m_refreshBankNum
              /\ RefreshBank(k) =
                   (IF h + m < m_refreshBankNum THEN h + m ELSE h + m - m_refreshBankNum)
                     * BanksPerRefresh
         /\ RefreshBank(k) \in Heads
<1>1. m_refreshBankNum \in Nat \ {0} /\ h \in 0 .. m_refreshBankNum - 1
  BY GroupNumbers DEF Groups
<1>2. PICK m \in 0 .. m_refreshBankNum - 1 : m = k % m_refreshBankNum
  BY <1>1
<1>. DEFINE x == IF h + m < m_refreshBankNum THEN h + m ELSE h + m - m_refreshBankNum
<1>3. x \in 0 .. m_refreshBankNum - 1
  BY <1>1
<1>4. RefreshBank(k) = x * BanksPerRefresh
  BY <1>2, HeadRotates DEF RefreshBank
<1>5. RefreshBank(k) \in Heads
  BY <1>3, <1>4 DEF Heads, Groups
<1>. QED  BY <1>2, <1>4, <1>5

(* HandleRefresh() moves the rotation by whole groups. *)
LEMMA RotationStep ==
  ASSUME GroupsCover, TypeInv, RotationInv, [Next]_vars
  PROVE  RotationInv'
<1>1. ASSUME UNCHANGED nextRefreshBank, pc' # "precharge"
      PROVE  RotationInv'
  BY <1>1 DEF RotationInv
<1>2. CASE \E r \in Requests : Arrive(r) \/ RequestComplete(r)
  BY <1>1, <1>2 DEF Arrive, RequestComplete, refreshVars
<1>3. CASE \/ \E rk \in Ranks, g \in Groups : RefreshCallback(rk, g)
           \/ \E rk \in Ranks, b \in Banks : DeviceEvent(rk, b)
  BY <1>1, <1>3 DEF RefreshCallback, DeviceEvent, refreshVars
<1>4. CASE \/ Schedule \/ CleanupCallback
           \/ \E ready \in SUBSET Ranks : HandleLowPower(ready)
           \/ \E ready \in SUBSET Queues : CycleCommandQueues(ready)
  BY <1>1, <1>4 DEF Schedule, CleanupCallback, HandleLowPower, CycleCommandQueues,
                    refreshVars
<1>5. CASE UNCHANGED vars
  BY <1>5 DEF vars, RotationInv
<1>6. CASE FindRefresh
  <2>1. CASE RefreshNeeds = {}
    BY <1>6, <2>1 DEF FindRefresh, RotationInv, refreshVars
  <2>2. CASE RefreshNeeds # {}
    <3>. DEFINE k == Min(RefreshNeeds)
    <3>1. RefreshNeeds \subseteq Nat
      BY DEF RefreshNeeds
    <3>2. k \in Nat
      BY <2>2, <3>1, MinFacts
    <3>3. UNCHANGED nextRefreshBank /\ refreshLoop'.bank = RefreshBank(k)
      BY <1>6, <2>2 DEF FindRefresh, refreshVars
    <3>. HIDE DEF k
    <3>4. PICK h \in Groups : nextRefreshBank = h * BanksPerRefresh
      BY DEF RotationInv, Heads
    <3>5. RefreshBank(k) \in Heads
      BY <3>2, <3>4, RefreshRound
    <3>. QED  BY <3>3, <3>5 DEF RotationInv
  <2>. QED  BY <2>1, <2>2
<1>7. CASE PrechargeForRefresh
  <2>1. /\ UNCHANGED <<nextRefreshBank, pc>> /\ pc = "precharge"
        /\ refreshLoop' = [refreshLoop EXCEPT !.tmpBank = @ + 1]
    BY <1>7 DEF PrechargeForRefresh, refreshVars
  <2>2. refreshLoop'.bank = refreshLoop.bank
    BY <2>1 DEF TypeInv, TypeOK
  <2>. QED  BY <2>1, <2>2 DEF RotationInv
<1>8. CASE QueueRefresh
  <2>. DEFINE n == m_refreshBankNum
              B == BanksPerRefresh
  <2>1. /\ BANKS \in Nat \ {0} /\ B \in Nat \ {0} /\ n \in Nat \ {0} /\ BANKS = n * B
    BY GroupNumbers
  <2>2. PICK g \in 0 .. n - 1 : nextRefreshBank = g * B
    BY DEF RotationInv, Heads, Groups
  <2>3. /\ nextRefreshBank' = IF nextRefreshBank + B >= BANKS THEN 0 ELSE nextRefreshBank + B
        /\ pc' # "precharge"
    BY <1>8 DEF QueueRefresh
  <2>. HIDE DEF n, B
  <2>4. (g + 1) * B = g * B + B /\ 0 * B = 0
    BY <2>1
  <2>5. \E x \in 0 .. n - 1 : nextRefreshBank' = x * B
    <3>1. CASE nextRefreshBank + B >= BANKS
      BY <2>1, <2>3, <2>4, <3>1
    <3>2. CASE ~(nextRefreshBank + B >= BANKS)
      <4>1. (g + 1) * B < n * B
        BY <2>1, <2>2, <2>4, <3>2
      <4>2. g + 1 # n
        BY <2>1, <4>1
      <4>3. g + 1 \in 0 .. n - 1
        BY <2>1, <4>2
      <4>. QED  BY <2>2, <2>3, <2>4, <3>2, <4>3
    <3>. QED  BY <3>1, <3>2
  <2>. QED  BY <2>3, <2>5 DEF RotationInv, Heads, Groups, n, B
<1>. QED  BY <1>2, <1>3, <1>4, <1>5, <1>6, <1>7, <1>8 DEF Next

(* The rotation of HandleRefresh() stands at the head of a group always,   *)
(* if the groups cover the rank.                                           *)
THEOREM ControllerRotation ==
  ASSUME GroupsCover
  PROVE  Spec => []RotationInv
<1>1. TypeInv /\ RotationInv /\ [Next]_vars => RotationInv'
  BY RotationStep
<1>. QED  BY <1>1, RotationInit, ControllerTypeInv, PTL DEF Spec

(* If the groups cover the rank, HandleRefresh() looks at the head of      *)
(* every group of every rank and at no other bank, wherever its rotation   *)
(* stands: for any number of ranks, banks and banks per refresh.           *)
THEOREM RefreshReachesGroups ==
  ASSUME GroupsCover
  PROVE  Spec => []RefreshVisitsGroups
<1>1. ASSUME TypeInv, RotationInv
      PROVE  RefreshVisitsGroups
  <2>. DEFINE n == m_refreshBankNum
              K == 0 .. RANKS * n - 1
              Seen == {<<RefreshRank(k), RefreshBank(k)>> : k \in K}
  <2>1. /\ n \in Nat \ {0} /\ RANKS \in Nat \ {0} /\ Groups = 0 .. n - 1
        /\ nextRefreshRank \in 0 .. RANKS - 1 /\ nextRefreshBank \in Banks
    BY <1>1, GroupNumbers DEF TypeInv, TypeOK, Groups, Ranks
  <2>2. PICK h \in Groups : nextRefreshBank = h * BanksPerRefresh
    BY <1>1 DEF RotationInv, Heads
  <2>3. Seen \subseteq Ranks \X Heads
    <3>. SUFFICES ASSUME NEW k \in K
                  PROVE  RefreshRank(k) \in Ranks /\ RefreshBank(k) \in Heads
      OBVIOUS
    <3>1. k \in Nat
      OBVIOUS
    <3>. QED  BY <1>1, <2>2, <3>1, RefreshPlace, RefreshRound DEF TypeInv, TypeOK
  <2>4. ASSUME NEW rk \in Ranks, NEW g \in Groups
        PROVE  <<rk, g * BanksPerRefresh>> \in Seen
    <3>. DEFINE m == IF g >= h THEN g - h ELSE g - h + n
                a == IF rk >= nextRefreshRank THEN rk - nextRefreshRank
                     ELSE rk - nextRefreshRank + RANKS
    <3>. HIDE DEF n
    <3>1. m \in 0 .. n - 1
      BY <2>1
    <3>2. a \in 0 .. RANKS - 1
      BY <2>1 DEF Ranks
    <3>3. g = IF h + m < n THEN h + m ELSE h + m - n
      BY <2>1
    <3>4. (nextRefreshRank + a) % RANKS = rk
      <4>1. CASE rk >= nextRefreshRank
        BY <2>1, <4>1, ModWraps DEF Ranks
      <4>2. CASE ~(rk >= nextRefreshRank)
        <5>1. nextRefreshRank + a = rk + RANKS
          BY <2>1, <4>2 DEF Ranks
        <5>. QED  BY <2>1, <5>1, ModWraps DEF Ranks
      <4>. QED  BY <4>1, <4>2
    <3>. HIDE DEF m, a
    <3>5. (a * n + m) \div n = a /\ (a * n + m) % n = m
      BY <2>1, <3>1, <3>2, DivMod
    <3>6. a * n + m \in Nat /\ a * n + m \in 0 .. RANKS * n - 1
      <4>1. (a + 1) * n <= RANKS * n /\ (a + 1) * n = a * n + n /\ a * n \in Nat
        BY <2>1, <3>2, MulMono
      <4>2. RANKS * n \in Nat
        BY <2>1
      <4>. QED  BY <2>1, <3>1, <4>1, <4>2
    <3>7. PICK k \in Nat : k \in 0 .. RANKS * n - 1 /\ k \div n = a /\ k % n = m
      BY <3>5, <3>6
    <3>8. RefreshRank(k) = rk
      BY <3>4, <3>7 DEF RefreshRank, n
    <3>9. RefreshBank(k) = g * BanksPerRefresh
      <4>1. PICK l \in 0 .. n - 1 :
              /\ l = k % n
              /\ RefreshBank(k) = (IF h + l < n THEN h + l ELSE h + l - n) * BanksPerRefresh
        BY <2>2, <3>7, RefreshRound DEF n
      <4>. QED  BY <3>3, <3>7, <4>1
    <3>. QED  BY <3>7, <3>8, <3>9
  <2>5. Ranks \X Heads \subseteq Seen
    BY <2>4 DEF Heads
  <2>. QED  BY <2>3, <2>5 DEF RefreshVisitsGroups, Heads
<1>. QED  BY <1>1, ControllerRotation, ControllerTypeInv, PTL

-----------------------------------------------------------------------------
(* The commands the devices have not got yet (Unsent).                     *)

(* GetCommandQueueId() names a queue. *)
LEMMA QueueExists ==
  ASSUME EveryBankHasQueue, NEW rk \in Ranks, NEW b \in Banks
  PROVE  GetCommandQueueId(rk, b) \in Queues
<1>1. /\ RANKS \in Nat \ {0} /\ BANKS \in Nat \ {0}
      /\ rk \in 0 .. RANKS - 1 /\ b \in 0 .. BANKS - 1
  BY ControllerAssumption DEF Ranks, Banks
<1>2. CASE QueueModel = "PerRank"
  BY <1>1, <1>2 DEF GetCommandQueueId, Queues, commandQueueCount
<1>3. CASE QueueModel = "PerBank" /\ ScheduleScheme = 1
  <2>1. (b + 1) * RANKS <= BANKS * RANKS /\ (b + 1) * RANKS = b * RANKS + RANKS
        /\ b * RANKS \in Nat /\ BANKS * RANKS = RANKS * BANKS /\ RANKS * BANKS \in Nat
    BY <1>1, MulMono
  <2>2. b * RANKS + rk \in 0 .. RANKS * BANKS - 1
    BY <1>1, <2>1
  <2>. QED  BY <1>3, <2>2 DEF GetCommandQueueId, Queues, commandQueueCount
<1>4. CASE QueueModel = "PerBank" /\ ScheduleScheme = 2
  <2>1. (rk + 1) * BANKS <= RANKS * BANKS /\ (rk + 1) * BANKS = rk * BANKS + BANKS
        /\ rk * BANKS \in Nat /\ RANKS * BANKS \in Nat
    BY <1>1, MulMono
  <2>2. rk * BANKS + b \in 0 .. RANKS * BANKS - 1
    BY <1>1, <2>1
  <2>. QED  BY <1>4, <2>2 DEF GetCommandQueueId, Queues, commandQueueCount
<1>. QED  BY <1>2, <1>3, <1>4, ControllerAssumption DEF EveryBankHasQueue

(* A queue without its head. *)
LEMMA TailOfCommands ==
  ASSUME NEW s \in Seq(CommandType), s # << >>
  PROVE  /\ Head(s) \in CommandType /\ Head(s) = s[1]
         /\ Tail(s) \in Seq(CommandType) /\ Len(Tail(s)) = Len(s) - 1
         /\ \A k \in 1 .. Len(s) - 1 : Tail(s)[k] = s[k + 1]
         /\ 1 \in DOMAIN s /\ Len(s) \in Nat \ {0}
  OBVIOUS

(* A queue with one command more. *)
LEMMA AppendCommand ==
  ASSUME NEW s \in Seq(CommandType), NEW c \in CommandType
  PROVE  /\ Append(s, c) \in Seq(CommandType) /\ Len(Append(s, c)) = Len(s) + 1
         /\ \A k \in 1 .. Len(s) : Append(s, c)[k] = s[k]
         /\ Append(s, c)[Len(s) + 1] = c
         /\ Len(s) \in Nat /\ DOMAIN s = 1 .. Len(s)
         /\ DOMAIN Append(s, c) = 1 .. Len(s) + 1
  OBVIOUS

(* Unsent are queues of commands, all of them outside CleanupCallback(). *)
LEMMA UnsentType ==
  ASSUME TypeInv
  PROVE  /\ Unsent \in [Queues -> Seq(CommandType)]
         /\ pc # "cleanup" => Unsent = commandQueues /\ issued = {}
<1>1. /\ commandQueues \in [Queues -> Seq(CommandType)]
      /\ \A q \in issued : q \in Queues /\ commandQueues[q] # << >>
      /\ issued # {} => pc = "cleanup"
  BY DEF TypeInv, TypeOK, IssuedAtCleanup
<1>2. ASSUME NEW q \in Queues
      PROVE  Unsent[q] \in Seq(CommandType)
  BY <1>1, TailOfCommands DEF Unsent
<1>3. Unsent \in [Queues -> Seq(CommandType)]
  BY <1>2 DEF Unsent
<1>. QED  BY <1>1, <1>3 DEF Unsent

(* Positions of Unsent and of the command queues. *)
LEMMA UnissuedIs ==
  ASSUME TypeInv, NEW q \in Queues
  PROVE  \E o \in {0, 1} :
           /\ Len(Unsent[q]) = Len(commandQueues[q]) - o
           /\ Len(commandQueues[q]) \in Nat /\ Len(Unsent[q]) \in Nat
           /\ Unissued(q) = o + 1 .. Len(commandQueues[q])
           /\ \A k \in 1 .. Len(Unsent[q]) : commandQueues[q][k + o] = Unsent[q][k]
<1>1. commandQueues[q] \in Seq(CommandType)
  BY DEF TypeInv, TypeOK
<1>2. CASE q \in issued
  <2>1. commandQueues[q] # << >>
    BY <1>2 DEF TypeInv, IssuedAtCleanup
  <2>2. Unsent[q] = Tail(commandQueues[q]) /\ Unissued(q) = 1 + 1 .. Len(commandQueues[q])
    BY <1>2 DEF Unsent, Unissued
  <2>. QED  BY <1>1, <2>1, <2>2, TailOfCommands
<1>3. CASE q \notin issued
  <2>1. /\ Unsent[q] = commandQueues[q]
        /\ Unissued(q) = 0 + 1 .. Len(commandQueues[q])
    BY <1>1, <1>3 DEF Unsent, Unissued
  <2>. QED  BY <1>1, <2>1
<1>. QED  BY <1>2, <1>3

-----------------------------------------------------------------------------
(* What the steps of the controller do to Unsent.                          *)

(* IssueMemoryCommands() of a request whose command queue is empty. *)
LEMMA ScheduleView ==
  ASSUME EveryBankHasQueue, TypeInv, Schedule, Candidates # {}
  PROVE  \E i \in 1 .. Len(memQueue) : \E r \in Requests : \E last \in BOOLEAN :
           /\ i = PickOldest /\ r = memQueue[i] /\ Eligible(r)
           /\ last = IsLastRequest(RemoveAt(memQueue, i), r)
           /\ QueueOf(r) \in Queues /\ Unsent[QueueOf(r)] = << >>
           /\ memQueue' = RemoveAt(memQueue, i)
           /\ Unsent' = [Unsent EXCEPT ![QueueOf(r)] = CommandsFor(r, last)]
           /\ effectiveRow' = [effectiveRow EXCEPT
                ![RankOf(r)][BankOf(r)] = EffectiveRowAfter(r, last)]
           /\ activateQueued' = [activateQueued EXCEPT
                ![RankOf(r)][BankOf(r)] = EffectiveRowAfter(r, last) # NoRow]
<1>1. /\ IssueMemoryCommands(PickOldest) /\ PickOldest \in DOMAIN memQueue
      /\ pc # "cleanup" /\ pc' # "cleanup" /\ issued' = issued
  BY CandidatesQueued DEF Schedule, TypeInv
<1>2. Eligible(memQueue[PickOldest])
  <2>1. Candidates \subseteq DOMAIN memQueue /\ DOMAIN memQueue \subseteq Nat
    <3>1. Candidates \subseteq DOMAIN memQueue
      BY DEF Candidates, EligiblePositions
    <3>2. memQueue \in Seq(Requests)
      BY DEF TypeInv, TypeOK
    <3>. QED  BY <3>1, <3>2
  <2>2. PickOldest \in Candidates
    BY <2>1, MinFacts DEF PickOldest
  <2>3. \A i \in Candidates : Eligible(memQueue[i])
    BY DEF Candidates, EligiblePositions
  <2>. QED  BY <2>2, <2>3
<1>3. PICK i \in 1 .. Len(memQueue) : i = PickOldest
  BY <1>1 DEF TypeInv, TypeOK
<1>4. PICK r \in Requests : r = memQueue[i]
  BY <1>3 DEF TypeInv, TypeOK
<1>5. PICK last \in BOOLEAN : last = IsLastRequest(RemoveAt(memQueue, i), r)
  <2>. DEFINE queue == RemoveAt(memQueue, i)
              x == \A o \in Range(queue) : ~SameRowNumber(o, r)
  <2>1. x \in BOOLEAN
    BY Zenon
  <2>2. IsLastRequest(queue, r) \in {FALSE, x, TRUE}
    BY DEF IsLastRequest
  <2>. HIDE DEF x, queue
  <2>3. IsLastRequest(queue, r) \in BOOLEAN
    BY <2>1, <2>2
  <2>. QED  BY <2>3 DEF queue
<1>6. QueueOf(r) \in Queues
  BY QueueExists, AddressFacts DEF QueueOf
<1>7. /\ Unsent = commandQueues /\ issued = {} /\ Unsent[QueueOf(r)] = << >>
      /\ commandQueues \in [Queues -> Seq(CommandType)]
  BY <1>1, <1>2, <1>3, <1>4, UnsentType DEF Eligible, TypeInv, TypeOK
<1>8. /\ memQueue' = RemoveAt(memQueue, i)
      /\ commandQueues' = [commandQueues EXCEPT ![QueueOf(r)] = @ \o CommandsFor(r, last)]
      /\ effectiveRow' = [effectiveRow EXCEPT
           ![RankOf(r)][BankOf(r)] = EffectiveRowAfter(r, last)]
      /\ activateQueued' = [activateQueued EXCEPT
           ![RankOf(r)][BankOf(r)] = EffectiveRowAfter(r, last) # NoRow]
  BY <1>1, <1>3, <1>4, <1>5 DEF IssueMemoryCommands
<1>9. << >> \o CommandsFor(r, last) = CommandsFor(r, last)
  <2>1. CommandsFor(r, last) \in Seq(CommandType)
    BY CommandsForType DEF TypeInv
  <2>. QED  BY <2>1
<1>10. commandQueues' = [commandQueues EXCEPT ![QueueOf(r)] = CommandsFor(r, last)]
  BY <1>7, <1>8, <1>9
<1>11. Unsent' = commandQueues'
  <2>1. commandQueues' \in [Queues -> Seq(CommandType)]
    BY TypeSchedule DEF TypeInv, TypeOK
  <2>. QED  BY <1>1, <1>7, <2>1 DEF Unsent
<1>12. /\ i = PickOldest /\ r = memQueue[i] /\ Eligible(r)
       /\ last = IsLastRequest(RemoveAt(memQueue, i), r)
       /\ QueueOf(r) \in Queues /\ Unsent[QueueOf(r)] = << >>
       /\ memQueue' = RemoveAt(memQueue, i)
       /\ Unsent' = [Unsent EXCEPT ![QueueOf(r)] = CommandsFor(r, last)]
  BY <1>2, <1>3, <1>4, <1>5, <1>6, <1>7, <1>8, <1>10, <1>11
<1>. QED  BY <1>8, <1>12, Zenon

(* A command is pushed while nothing is issued. *)
LEMMA PushView ==
  ASSUME TypeInv, NEW q \in Queues, NEW c \in CommandType, Push(q, c),
         pc # "cleanup", issued' = issued
  PROVE  Unsent' = [Unsent EXCEPT ![q] = Append(@, c)]
<1>1. /\ Unsent = commandQueues /\ issued = {}
      /\ commandQueues \in [Queues -> Seq(CommandType)]
  BY UnsentType DEF TypeInv, TypeOK
<1>2. commandQueues' = [commandQueues EXCEPT ![q] = Append(@, c)]
  BY DEF Push
<1>3. Unsent' = [p \in Queues |-> commandQueues'[p]]
  BY <1>1 DEF Unsent
<1>. QED  BY <1>1, <1>2, <1>3

(* The round of HandleRefresh() for one bank of the group. *)
LEMMA PrechargeView ==
  ASSUME EveryBankHasQueue, TypeInv, PrechargeForRefresh
  PROVE  \E rk \in Ranks, b \in Banks :
           /\ rk = refreshLoop.rank
           /\ b = (refreshLoop.bank + refreshLoop.tmpBank) % BANKS
           /\ \/ /\ activateQueued[rk][b]
                 /\ Unsent' = [Unsent EXCEPT ![GetCommandQueueId(rk, b)] =
                      Append(@, Command("PRECHARGE_ALL", rk, b, NoRow, NoRequest))]
                 /\ activateQueued' = [activateQueued EXCEPT ![rk][b] = FALSE]
                 /\ effectiveRow' = [effectiveRow EXCEPT ![rk][b] = NoRow]
              \/ /\ ~activateQueued[rk][b]
                 /\ UNCHANGED <<Unsent, activateQueued, effectiveRow>>
<1>1. /\ refreshLoop \in [rank : Ranks, bank : Banks, tmpBank : 0 .. BanksPerRefresh]
      /\ pc = "precharge" /\ issued' = issued
  BY DEF TypeInv, TypeOK, PrechargeForRefresh
<1>2. PICK rk \in Ranks : rk = refreshLoop.rank
  BY <1>1
<1>3. PICK b \in Banks : b = (refreshLoop.bank + refreshLoop.tmpBank) % BANKS
  BY <1>1, ControllerAssumption DEF Banks
<1>. DEFINE c == Command("PRECHARGE_ALL", rk, b, NoRow, NoRequest)
<1>4. c \in CommandType /\ GetCommandQueueId(rk, b) \in Queues
  BY QueueExists DEF Command, CommandType
<1>5. CASE activateQueued[rk][b] /\ PrechargeActiveBank(rk, b)
  <2>1. Unsent' = [Unsent EXCEPT ![GetCommandQueueId(rk, b)] = Append(@, c)]
    BY <1>1, <1>4, <1>5, PushView DEF PrechargeActiveBank
  <2>2. /\ activateQueued' = [activateQueued EXCEPT ![rk][b] = FALSE]
        /\ effectiveRow' = [effectiveRow EXCEPT ![rk][b] = NoRow]
    BY <1>5 DEF PrechargeActiveBank
  <2>. QED  BY <1>2, <1>3, <1>5, <2>1, <2>2, Zenon
<1>6. CASE /\ ~activateQueued[rk][b]
           /\ UNCHANGED <<commandQueues, activateQueued, effectiveRow>>
  <2>1. Unsent' = Unsent
    BY <1>1, <1>6 DEF Unsent
  <2>. QED  BY <1>2, <1>3, <1>6, <2>1
<1>. QED  BY <1>2, <1>3, <1>5, <1>6 DEF PrechargeForRefresh

(* The REFRESH is queued. *)
LEMMA RefreshView ==
  ASSUME EveryBankHasQueue, TypeInv, QueueRefresh
  PROVE  \E rk \in Ranks, j \in Banks :
           /\ rk = refreshLoop.rank /\ j = refreshLoop.bank
           /\ GetCommandQueueId(rk, j) \in Queues
           /\ Unsent' = [Unsent EXCEPT ![GetCommandQueueId(rk, j)] =
                Append(@, Command("REFRESH", rk, j, NoRow, NoRequest))]
           /\ refreshQueued' = [refreshQueued EXCEPT ![rk] =
                [b \in Banks |-> b \in RefreshTargets(j) \/ @[b]]]
<1>1. /\ refreshLoop \in [rank : Ranks, bank : Banks, tmpBank : 0 .. BanksPerRefresh]
      /\ pc = "precharge" /\ issued' = issued
  BY DEF TypeInv, TypeOK, QueueRefresh
<1>2. PICK rk \in Ranks : rk = refreshLoop.rank
  BY <1>1
<1>3. PICK j \in Banks : j = refreshLoop.bank
  BY <1>1
<1>. DEFINE c == Command("REFRESH", rk, j, NoRow, NoRequest)
<1>4. c \in CommandType /\ GetCommandQueueId(rk, j) \in Queues
  BY QueueExists DEF Command, CommandType
<1>5. /\ Push(GetCommandQueueId(rk, j), c)
      /\ refreshQueued' = [refreshQueued EXCEPT ![rk] =
           [b \in Banks |-> b \in RefreshTargets(j) \/ @[b]]]
  BY <1>2, <1>3 DEF QueueRefresh
<1>6. Unsent' = [Unsent EXCEPT ![GetCommandQueueId(rk, j)] = Append(@, c)]
  BY <1>1, <1>4, <1>5, PushView
<1>. QED  BY <1>2, <1>3, <1>4, <1>5, <1>6, Zenon

(* CycleCommandQueues() sends the head of one queue, or none. *)
LEMMA IssueView ==
  ASSUME TypeInv, NEW ready \in SUBSET Queues, CycleCommandQueues(ready)
  PROVE  \/ UNCHANGED <<rank, inService, refreshQueued, Unsent>>
         \/ \E q \in Queues : \E c \in CommandType :
              /\ Unsent[q] # << >> /\ c = Head(Unsent[q])
              /\ IsIssuable(rank[c.rank], c)
              /\ Unsent' = [Unsent EXCEPT ![q] = Tail(@)]
              /\ rank' = [rank EXCEPT ![c.rank] = IssueCommand(@, c)]
              /\ inService' = inService \cup ({c.req} \ {NoRequest})
              /\ refreshQueued' = ResetRefreshQueued(c)
<1>. DEFINE can == {k \in 0 .. commandQueueCount - 1 :
                      LET q == (curQueue + k) % commandQueueCount
                      IN q \in ready /\ QueueIssuable(q)}
<1>0. /\ commandQueues' = commandQueues /\ Unsent = commandQueues /\ issued = {}
      /\ commandQueues \in [Queues -> Seq(CommandType)]
  BY UnsentType DEF CycleCommandQueues, TypeInv, TypeOK
<1>1. CASE can = {} /\ UNCHANGED <<rank, inService, issued, refreshQueued, curQueue>>
  BY <1>0, <1>1 DEF Unsent
<1>2. CASE can # {} /\ IssueHead((curQueue + Min(can)) % commandQueueCount)
  <2>1. can \subseteq Nat
    OBVIOUS
  <2>2. Min(can) \in can
    BY <1>2, <2>1, MinFacts
  <2>3. PICK q \in Queues : q \in ready /\ QueueIssuable(q) /\ IssueHead(q)
    BY <1>2, <2>2
  <2>4. commandQueues[q] # << >> /\ Head(commandQueues[q]) \in CommandType
    BY <1>0, <2>3, TailOfCommands DEF QueueIssuable
  <2>5. PICK c \in CommandType : c = Head(commandQueues[q])
    BY <2>4
  <2>6. /\ IsIssuable(rank[c.rank], c)
        /\ rank' = [rank EXCEPT ![c.rank] = IssueCommand(@, c)]
        /\ inService' = inService \cup ({c.req} \ {NoRequest})
        /\ refreshQueued' = ResetRefreshQueued(c)
        /\ issued' = {q}
    BY <2>3, <2>5 DEF QueueIssuable, IssueHead
  <2>7. Unsent' = [Unsent EXCEPT ![q] = Tail(@)]
    BY <1>0, <2>6 DEF Unsent
  <2>. QED  BY <1>0, <2>4, <2>5, <2>6, <2>7, Zenon
<1>. QED  BY <1>1, <1>2 DEF CycleCommandQueues

(* CleanupCallback() removes what was sent. *)
LEMMA CleanupView ==
  ASSUME TypeInv, CleanupCallback
  PROVE  Unsent' = Unsent
<1>1. /\ issued' = {} /\ commandQueues' = [q \in Queues |->
           IF q \in issued THEN Tail(commandQueues[q]) ELSE commandQueues[q]]
  BY DEF CleanupCallback
<1>. QED  BY <1>1 DEF Unsent

(* The steps that leave the command queues alone. *)
LEMMA OtherView ==
  ASSUME \/ \E r \in Requests : Arrive(r) \/ RequestComplete(r)
         \/ \E rk \in Ranks, g \in Groups : RefreshCallback(rk, g)
         \/ \E rk \in Ranks, b \in Banks : DeviceEvent(rk, b)
         \/ Schedule /\ Candidates = {}
         \/ \E ready \in SUBSET Ranks : HandleLowPower(ready)
         \/ FindRefresh
         \/ UNCHANGED vars
  PROVE  Unsent' = Unsent
<1>1. UNCHANGED <<commandQueues, issued>>
  BY DEF Arrive, RequestComplete, RefreshCallback, DeviceEvent, Schedule,
         HandleLowPower, FindRefresh, vars
<1>. QED  BY <1>1 DEF Unsent

-----------------------------------------------------------------------------
(* Commands of a kind M in the queues U: is there one, is there only one?  *)
Held(U, M) == \E q \in Queues : \E k \in 1 .. Len(U[q]) : U[q][k] \in M

HeldOnce(U, M) ==
  \A p, q \in Queues : \A k \in 1 .. Len(U[p]), l \in 1 .. Len(U[q]) :
    U[p][k] \in M /\ U[q][l] \in M => p = q /\ k = l

(* What the steps make of the queues: a command joins queue q, its head    *)
(* leaves it, it gets the commands of a request.                           *)
Pushed(U, q, c) == [U EXCEPT ![q] = Append(@, c)]
Popped(U, q)    == [U EXCEPT ![q] = Tail(@)]
Filled(U, q, s) == [U EXCEPT ![q] = s]

(* A command joins a queue. *)
LEMMA PushHeld ==
  ASSUME NEW U \in [Queues -> Seq(CommandType)], NEW q \in Queues,
         NEW c \in CommandType, NEW M
  PROVE  /\ Held(Pushed(U, q, c), M) <=> (Held(U, M) \/ c \in M)
         /\ HeldOnce(U, M) /\ (c \in M => ~Held(U, M)) => HeldOnce(Pushed(U, q, c), M)
<1>. DEFINE W == Pushed(U, q, c)
<1>1. /\ W[q] = Append(U[q], c) /\ U[q] \in Seq(CommandType)
      /\ \A p \in Queues : p # q => W[p] = U[p]
  BY DEF Pushed
<1>. HIDE DEF W
<1>2. /\ Len(W[q]) = Len(U[q]) + 1 /\ Len(U[q]) \in Nat
      /\ \A k \in 1 .. Len(U[q]) : W[q][k] = U[q][k]
      /\ W[q][Len(U[q]) + 1] = c
  BY <1>1, AppendCommand
<1>3. ASSUME NEW p \in Queues, NEW k \in 1 .. Len(W[p])
      PROVE  \/ k \in 1 .. Len(U[p]) /\ W[p][k] = U[p][k]
             \/ p = q /\ k = Len(U[q]) + 1 /\ W[p][k] = c
  BY <1>1, <1>2
<1>4. ASSUME NEW p \in Queues, NEW k \in 1 .. Len(U[p])
      PROVE  k \in 1 .. Len(W[p]) /\ W[p][k] = U[p][k]
  <2>1. CASE p = q
    BY <1>2, <2>1
  <2>2. CASE p # q
    BY <1>1, <2>2, Zenon
  <2>. QED  BY <2>1, <2>2
<1>5. Len(U[q]) + 1 \in 1 .. Len(W[q])
  BY <1>2
<1>6. Held(W, M) <=> (Held(U, M) \/ c \in M)
  <2>1. Held(W, M) => Held(U, M) \/ c \in M
    BY <1>3 DEF Held
  <2>2. Held(U, M) => Held(W, M)
    BY <1>4 DEF Held
  <2>3. c \in M => Held(W, M)
    BY <1>2, <1>5 DEF Held
  <2>. QED  BY <2>1, <2>2, <2>3
<1>7. ASSUME HeldOnce(U, M), c \in M => ~Held(U, M)
      PROVE  HeldOnce(W, M)
  <2>. SUFFICES ASSUME NEW p \in Queues, NEW o \in Queues,
                       NEW k \in 1 .. Len(W[p]), NEW l \in 1 .. Len(W[o]),
                       W[p][k] \in M, W[o][l] \in M
                PROVE  p = o /\ k = l
    BY DEF HeldOnce
  <2>1. CASE c \in M
    <3>1. \A x \in Queues : \A i \in 1 .. Len(U[x]) : U[x][i] \notin M
      BY <1>7, <2>1 DEF Held
    <3>. QED  BY <1>3, <3>1, ZenonT(60)
  <2>2. CASE c \notin M
    <3>1. k \in 1 .. Len(U[p]) /\ U[p][k] \in M /\ l \in 1 .. Len(U[o]) /\ U[o][l] \in M
      BY <1>3, <2>2
    <3>. QED  BY <1>7, <3>1 DEF HeldOnce
  <2>. QED  BY <2>1, <2>2
<1>. QED  BY <1>6, <1>7 DEF W

(* The head of a queue leaves it. *)
LEMMA PopHeld ==
  ASSUME NEW U \in [Queues -> Seq(CommandType)], NEW q \in Queues, U[q] # << >>, NEW M
  PROVE  /\ Held(U, M) <=> (Held(Popped(U, q), M) \/ Head(U[q]) \in M)
         /\ HeldOnce(U, M) => HeldOnce(Popped(U, q), M)
         /\ HeldOnce(U, M) /\ Head(U[q]) \in M => ~Held(Popped(U, q), M)
<1>. DEFINE W == Popped(U, q)
<1>1. /\ W[q] = Tail(U[q]) /\ U[q] \in Seq(CommandType)
      /\ \A p \in Queues : p # q => W[p] = U[p]
      /\ \A p \in Queues : Len(U[p]) \in Nat
  BY DEF Popped
<1>. HIDE DEF W
<1>2. /\ Len(W[q]) = Len(U[q]) - 1 /\ Len(U[q]) \in Nat \ {0}
      /\ \A k \in 1 .. Len(U[q]) - 1 : W[q][k] = U[q][k + 1]
      /\ U[q][1] = Head(U[q])
  BY <1>1, TailOfCommands
<1>. DEFINE after(p, k) == IF p = q THEN k + 1 ELSE k
<1>3. ASSUME NEW p \in Queues, NEW k \in 1 .. Len(W[p])
      PROVE  after(p, k) \in 1 .. Len(U[p]) /\ W[p][k] = U[p][after(p, k)]
  <2>1. CASE p = q
    BY <1>2, <2>1
  <2>2. CASE p # q
    BY <1>1, <2>2
  <2>. QED  BY <2>1, <2>2
<1>4. ASSUME NEW p \in Queues, NEW k \in 1 .. Len(U[p]), ~(p = q /\ k = 1)
      PROVE  \E l \in 1 .. Len(W[p]) : W[p][l] = U[p][k]
  <2>1. CASE p = q
    <3>1. k - 1 \in 1 .. Len(U[q]) - 1 /\ k - 1 + 1 = k
      BY <1>2, <1>4, <2>1
    <3>. QED  BY <1>2, <2>1, <3>1
  <2>2. CASE p # q
    BY <1>1, <2>2
  <2>. QED  BY <2>1, <2>2
<1>5. 1 \in 1 .. Len(U[q])
  BY <1>2
<1>6. Held(U, M) <=> (Held(W, M) \/ Head(U[q]) \in M)
  <2>1. Held(U, M) => Held(W, M) \/ Head(U[q]) \in M
    <3>. SUFFICES ASSUME Held(U, M), Head(U[q]) \notin M
                  PROVE  Held(W, M)
      OBVIOUS
    <3>1. PICK p \in Queues : \E k \in 1 .. Len(U[p]) : U[p][k] \in M
      BY DEF Held
    <3>2. PICK k \in 1 .. Len(U[p]) : U[p][k] \in M
      BY <3>1
    <3>3. ~(p = q /\ k = 1)
      BY <1>2, <3>2
    <3>4. PICK l \in 1 .. Len(W[p]) : W[p][l] = U[p][k]
      BY <1>4, <3>3
    <3>. QED  BY <3>2, <3>4, Zenon DEF Held
  <2>2. Held(W, M) => Held(U, M)
    BY <1>3 DEF Held
  <2>3. Head(U[q]) \in M => Held(U, M)
    BY <1>2, <1>5 DEF Held
  <2>. QED  BY <2>1, <2>2, <2>3
<1>7. ASSUME HeldOnce(U, M)
      PROVE  HeldOnce(W, M)
  <2>. SUFFICES ASSUME NEW p \in Queues, NEW o \in Queues,
                       NEW k \in 1 .. Len(W[p]), NEW l \in 1 .. Len(W[o]),
                       W[p][k] \in M, W[o][l] \in M
                PROVE  p = o /\ k = l
    BY DEF HeldOnce
  <2>0. /\ after(p, k) \in 1 .. Len(U[p]) /\ U[p][after(p, k)] \in M
        /\ after(o, l) \in 1 .. Len(U[o]) /\ U[o][after(o, l)] \in M
    BY <1>3
  <2>1. p = o /\ after(p, k) = after(o, l)
    <3>. HIDE DEF after
    <3>. QED  BY <1>7, <2>0 DEF HeldOnce
  <2>2. k \in Int /\ l \in Int
    BY <1>1, <1>2
  <2>. QED  BY <2>1, <2>2
<1>8. ASSUME HeldOnce(U, M), Head(U[q]) \in M, Held(W, M)
      PROVE  FALSE
  <2>1. PICK p \in Queues : \E k \in 1 .. Len(W[p]) : W[p][k] \in M
    BY <1>8 DEF Held
  <2>2. PICK k \in 1 .. Len(W[p]) : W[p][k] \in M
    BY <2>1
  <2>3. p = q /\ after(p, k) = 1
    <3>1. U[q][1] \in M
      BY <1>2, <1>8
    <3>2. after(p, k) \in 1 .. Len(U[p]) /\ U[p][after(p, k)] \in M
      BY <1>3, <2>2
    <3>. HIDE DEF after
    <3>. QED  BY <1>5, <1>8, <3>1, <3>2, Zenon DEF HeldOnce
  <2>. QED  BY <1>2, <2>3
<1>. QED  BY <1>6, <1>7, <1>8 DEF W

(* An empty queue is filled with the commands of a request. *)
LEMMA FillHeld ==
  ASSUME NEW U \in [Queues -> Seq(CommandType)], NEW q \in Queues, U[q] = << >>,
         NEW s \in Seq(CommandType), NEW M
  PROVE  /\ Held(Filled(U, q, s), M) <=> (Held(U, M) \/ \E k \in 1 .. Len(s) : s[k] \in M)
         /\ HeldOnce(U, M) /\ (\A k \in 1 .. Len(s) : s[k] \notin M)
              => HeldOnce(Filled(U, q, s), M)
         /\ /\ ~Held(U, M)
            /\ \A k, l \in 1 .. Len(s) : s[k] \in M /\ s[l] \in M => k = l
            => HeldOnce(Filled(U, q, s), M)
<1>. DEFINE W == Filled(U, q, s)
<1>1. /\ W[q] = s /\ Len(U[q]) = 0 /\ 1 .. 0 = {}
      /\ \A p \in Queues : p # q => W[p] = U[p]
  BY DEF Filled
<1>. HIDE DEF W
<1>2. Held(W, M) <=> (Held(U, M) \/ \E k \in 1 .. Len(s) : s[k] \in M)
  <2>1. ASSUME Held(U, M)
        PROVE  Held(W, M)
    <3>1. PICK p \in Queues : \E k \in 1 .. Len(U[p]) : U[p][k] \in M
      BY <2>1 DEF Held
    <3>2. p # q
      BY <1>1, <3>1
    <3>. QED  BY <1>1, <3>1, <3>2 DEF Held
  <2>2. ASSUME Held(W, M)
        PROVE  Held(U, M) \/ \E k \in 1 .. Len(s) : s[k] \in M
    <3>1. PICK p \in Queues : \E k \in 1 .. Len(W[p]) : W[p][k] \in M
      BY <2>2 DEF Held
    <3>. QED  BY <1>1, <3>1 DEF Held
  <2>3. (\E k \in 1 .. Len(s) : s[k] \in M) => Held(W, M)
    BY <1>1 DEF Held
  <2>. QED  BY <2>1, <2>2, <2>3
<1>3. ASSUME HeldOnce(U, M), \A k \in 1 .. Len(s) : s[k] \notin M
      PROVE  HeldOnce(W, M)
  <2>1. \A p \in Queues : \A k \in 1 .. Len(W[p]) : W[p][k] \in M =>
          k \in 1 .. Len(U[p]) /\ U[p][k] \in M
    BY <1>1, <1>3
  <2>. QED  BY <1>3, <2>1 DEF HeldOnce
<1>4. ASSUME ~Held(U, M), \A k, l \in 1 .. Len(s) : s[k] \in M /\ s[l] \in M => k = l
      PROVE  HeldOnce(W, M)
  <2>1. \A p \in Queues : \A k \in 1 .. Len(W[p]) : W[p][k] \in M =>
          p = q /\ k \in 1 .. Len(s) /\ s[k] \in M
    BY <1>1, <1>4 DEF Held
  <2>. QED  BY <1>4, <2>1 DEF HeldOnce
<1>. QED  BY <1>2, <1>3, <1>4 DEF W

(* The places of the commands of a kind. *)
PlacesOf(M) ==
  UNION {{q} \X {k \in Unissued(q) : commandQueues[q][k] \in M} : q \in Queues}

(* The places of the commands of a kind that is held at most once. *)
LEMMA PlacesHeld ==
  ASSUME TypeInv, NEW M, HeldOnce(Unsent, M)
  PROVE  /\ ~Held(Unsent, M) => PlacesOf(M) = {}
         /\ Held(Unsent, M) => \E x : PlacesOf(M) = {x}
<1>. DEFINE P == UNION {{q} \X {k \in Unissued(q) : commandQueues[q][k] \in M} : q \in Queues}
<1>1. ASSUME NEW q \in Queues, NEW k \in Unissued(q), commandQueues[q][k] \in M
      PROVE  \E l \in 1 .. Len(Unsent[q]) : Unsent[q][l] \in M
  <2>1. PICK o \in {0, 1} :
           /\ Len(Unsent[q]) = Len(commandQueues[q]) - o
           /\ Len(commandQueues[q]) \in Nat
           /\ Unissued(q) = o + 1 .. Len(commandQueues[q])
           /\ \A i \in 1 .. Len(Unsent[q]) : commandQueues[q][i + o] = Unsent[q][i]
    BY UnissuedIs
  <2>2. k - o \in 1 .. Len(Unsent[q]) /\ k - o + o = k
    BY <2>1
  <2>. QED  BY <1>1, <2>1, <2>2
<1>2. ASSUME NEW q \in Queues, NEW l \in 1 .. Len(Unsent[q]), Unsent[q][l] \in M
      PROVE  \E x : P = {x}
  <2>1. PICK o \in {0, 1} :
           /\ Len(Unsent[q]) = Len(commandQueues[q]) - o
           /\ Len(commandQueues[q]) \in Nat
           /\ Unissued(q) = o + 1 .. Len(commandQueues[q])
           /\ \A i \in 1 .. Len(Unsent[q]) : commandQueues[q][i + o] = Unsent[q][i]
    BY UnissuedIs
  <2>2. l + o \in Unissued(q) /\ commandQueues[q][l + o] \in M
    BY <1>2, <2>1
  <2>3. ASSUME NEW p \in Queues, NEW k \in Unissued(p), commandQueues[p][k] \in M
        PROVE  p = q /\ k = l + o
    <3>1. p = q
      <4>1. PICK i \in 1 .. Len(Unsent[p]) : Unsent[p][i] \in M
        BY <1>1, <2>3
      <4>. QED  BY <1>2, <4>1 DEF HeldOnce
    <3>2. k - o \in 1 .. Len(Unsent[q]) /\ k - o + o = k
      BY <2>1, <2>3, <3>1
    <3>3. Unsent[q][k - o] \in M
      BY <2>1, <2>3, <3>1, <3>2
    <3>4. k - o = l
      BY <1>2, <3>2, <3>3 DEF HeldOnce
    <3>. QED  BY <3>1, <3>2, <3>4
  <2>4. P = {<<q, l + o>>}
    BY <2>2, <2>3
  <2>. QED  BY <2>4
<1>3. ASSUME ~Held(Unsent, M)
      PROVE  P = {}
  BY <1>1, <1>3 DEF Held
<1>4. Held(Unsent, M) => \E x : P = {x}
  BY <1>2 DEF Held
<1>. QED  BY <1>3, <1>4 DEF PlacesOf

-----------------------------------------------------------------------------
(* Requests.                                                               *)

AccessesOf(r) == {c \in CommandType : c.req = r}

InMemory(r) == \E i \in 1 .. Len(memQueue) : memQueue[i] = r

(* Request r is in the transaction queue, in a command queue or at the     *)
(* devices, once, while it is owed, and nowhere otherwise.                 *)
ReqInv ==
  \A r \in Requests :
    /\ \A i, j \in 1 .. Len(memQueue) : memQueue[i] = r /\ memQueue[j] = r => i = j
    /\ HeldOnce(Unsent, AccessesOf(r))
    /\ InMemory(r) => ~Held(Unsent, AccessesOf(r)) /\ r \notin inService
    /\ Held(Unsent, AccessesOf(r)) => r \notin inService
    /\ r \in owed <=> InMemory(r) \/ Held(Unsent, AccessesOf(r)) \/ r \in inService

(* The commands IssueMemoryCommands() makes for a request that is eligible *)
(* are for its bank, and exactly one of them carries the request.          *)
LEMMA CommandsForRequest ==
  ASSUME TypeInv, NEW r \in Requests, NEW last \in BOOLEAN, Eligible(r)
  PROVE  LET s == CommandsFor(r, last) IN
         /\ s \in Seq(CommandType)
         /\ \A k \in 1 .. Len(s) : /\ s[k].rank = RankOf(r) /\ s[k].bank = BankOf(r)
                                   /\ s[k].type # "REFRESH"
         /\ \E n \in 1 .. Len(s) : s[n].req = r
         /\ \A k \in 1 .. Len(s) : s[k].req = r <=> k = Len(s)
         /\ \A k \in 1 .. Len(s) : s[k].req \in {r, NoRequest}
<1>. DEFINE s == CommandsFor(r, last)
<1>1. s \in Seq(CommandType)
  BY CommandsForType DEF TypeInv
<1>2. NoRequest # r
  BY ControllerAssumption
<1>3. ~Dropped(r)
  BY DEF Eligible, Dropped
<1>. DEFINE rk == RankOf(r)
            b  == BankOf(r)
            act == Command("ACTIVATE", rk, b, Address[r].row, NoRequest)
            pre == Command("PRECHARGE", rk, b, effectiveRow[rk][b], NoRequest)
            access == Command("ACCESS", rk, b, Address[r].row, r)
            accessPre == Command("ACCESS_PRE", rk, b, Address[r].row, r)
            final  == IF last THEN accessPre ELSE access
<1>4. s \in {<<final>>, <<act, final>>, <<pre, act, access>>}
  BY <1>3 DEF CommandsFor
<1>5. ASSUME NEW c \in {act, pre, access, accessPre, final}
      PROVE  c.rank = rk /\ c.bank = b /\ c.type # "REFRESH"
  BY DEF Command
<1>6. act.req = NoRequest /\ pre.req = NoRequest /\ access.req = r /\ final.req = r
  BY DEF Command
<1>. HIDE DEF s, act, pre, access, accessPre, final
<1>7. /\ \A k \in 1 .. Len(s) : s[k] \in {act, pre, access, final}
      /\ Len(s) \in 1 .. 3 /\ s[Len(s)] \in {access, final}
      /\ \A k \in 1 .. Len(s) : k # Len(s) => s[k] \in {act, pre}
  <2>1. CASE s = <<final>>
    BY <2>1
  <2>2. CASE s = <<act, final>>
    BY <2>2
  <2>3. CASE s = <<pre, act, access>>
    BY <2>3
  <2>. QED  BY <1>4, <2>1, <2>2, <2>3
<1>8. \A k \in 1 .. Len(s) : s[k].req = r <=> k = Len(s)
  BY <1>2, <1>6, <1>7
<1>9. Len(s) \in 1 .. Len(s)
  BY <1>7
<1>10. \A k \in 1 .. Len(s) : s[k].req \in {r, NoRequest}
  BY <1>6, <1>7
<1>11. \A k \in 1 .. Len(s) : s[k].rank = rk /\ s[k].bank = b /\ s[k].type # "REFRESH"
  BY <1>5, <1>7
<1>. QED  BY <1>1, <1>8, <1>9, <1>10, <1>11 DEF s

(* Nothing is owed at the start. *)
LEMMA ReqInit == Init => ReqInv
<1>. SUFFICES ASSUME Init PROVE ReqInv
  OBVIOUS
<1>1. /\ Len(memQueue) = 0 /\ owed = {} /\ inService = {} /\ 1 .. 0 = {}
      /\ \A q \in Queues : Unsent[q] = << >>
  BY DEF Init, Unsent
<1>2. \A q \in Queues : Len(Unsent[q]) = 0
  BY <1>1
<1>. QED  BY <1>1, <1>2 DEF ReqInv, Held, HeldOnce, InMemory

(* A request leaves the transaction queue and its commands are queued. *)
LEMMA ReqSchedule ==
  ASSUME EveryBankHasQueue, TypeInv, ReqInv, Schedule, Candidates # {}
  PROVE  ReqInv'
<1>1. PICK i \in 1 .. Len(memQueue) : \E r \in Requests : \E last \in BOOLEAN :
           /\ r = memQueue[i] /\ Eligible(r)
           /\ QueueOf(r) \in Queues /\ Unsent[QueueOf(r)] = << >>
           /\ memQueue' = RemoveAt(memQueue, i)
           /\ Unsent' = [Unsent EXCEPT ![QueueOf(r)] = CommandsFor(r, last)]
  BY ScheduleView
<1>2. PICK r \in Requests : \E last \in BOOLEAN :
           /\ r = memQueue[i] /\ Eligible(r)
           /\ QueueOf(r) \in Queues /\ Unsent[QueueOf(r)] = << >>
           /\ memQueue' = RemoveAt(memQueue, i)
           /\ Unsent' = [Unsent EXCEPT ![QueueOf(r)] = CommandsFor(r, last)]
  BY <1>1
<1>3. PICK last \in BOOLEAN :
           /\ r = memQueue[i] /\ Eligible(r)
           /\ QueueOf(r) \in Queues /\ Unsent[QueueOf(r)] = << >>
           /\ memQueue' = RemoveAt(memQueue, i)
           /\ Unsent' = [Unsent EXCEPT ![QueueOf(r)] = CommandsFor(r, last)]
  BY <1>2
<1>4. UNCHANGED <<inService, owed>>
  BY DEF Schedule
<1>. DEFINE s == CommandsFor(r, last)
<1>5. /\ s \in Seq(CommandType)
      /\ \E n \in 1 .. Len(s) : s[n].req = r
      /\ \A k \in 1 .. Len(s) : s[k].req = r <=> k = Len(s)
      /\ \A k \in 1 .. Len(s) : s[k].req \in {r, NoRequest}
  BY <1>3, CommandsForRequest
<1>6. Unsent \in [Queues -> Seq(CommandType)]
  BY UnsentType
<1>. HIDE DEF s
<1>7. /\ Len(memQueue') = Len(memQueue) - 1 /\ Len(memQueue) \in Nat
      /\ \A j \in 1 .. i - 1 : memQueue'[j] = memQueue[j]
      /\ \A j \in i .. Len(memQueue) - 1 : memQueue'[j] = memQueue[j + 1]
  <2>1. memQueue \in Seq(Requests) /\ memQueue' = RemoveAt(memQueue, i)
    BY <1>3 DEF TypeInv, TypeOK
  <2>2. Len(memQueue) \in Nat
    BY <2>1
  <2>. QED  BY <2>1, <2>2, RemoveAtFacts
<1>. SUFFICES ASSUME NEW x \in Requests
     PROVE  /\ \A j, l \in 1 .. Len(memQueue') : memQueue'[j] = x /\ memQueue'[l] = x => j = l
            /\ HeldOnce(Unsent', AccessesOf(x))
            /\ InMemory(x)' => ~Held(Unsent', AccessesOf(x)) /\ x \notin inService'
            /\ Held(Unsent', AccessesOf(x)) => x \notin inService'
            /\ x \in owed' <=> InMemory(x)' \/ Held(Unsent', AccessesOf(x)) \/ x \in inService'
  BY DEF ReqInv
<1>8. /\ \A j, l \in 1 .. Len(memQueue) : memQueue[j] = x /\ memQueue[l] = x => j = l
      /\ HeldOnce(Unsent, AccessesOf(x))
      /\ InMemory(x) => ~Held(Unsent, AccessesOf(x)) /\ x \notin inService
      /\ Held(Unsent, AccessesOf(x)) => x \notin inService
      /\ x \in owed <=> InMemory(x) \/ Held(Unsent, AccessesOf(x)) \/ x \in inService
  BY DEF ReqInv
<1>. DEFINE from(j) == IF j < i THEN j ELSE j + 1
<1>9. ASSUME NEW j \in 1 .. Len(memQueue')
      PROVE  /\ from(j) \in 1 .. Len(memQueue) /\ memQueue'[j] = memQueue[from(j)]
             /\ from(j) # i
  BY <1>7
<1>10. \A j, l \in 1 .. Len(memQueue') : memQueue'[j] = x /\ memQueue'[l] = x => j = l
  <2>. SUFFICES ASSUME NEW j \in 1 .. Len(memQueue'), NEW l \in 1 .. Len(memQueue'),
                       memQueue'[j] = x, memQueue'[l] = x
                PROVE  j = l
    OBVIOUS
  <2>1. from(j) = from(l)
    BY <1>8, <1>9
  <2>. QED  BY <1>7, <2>1
<1>11. InMemory(x)' <=> InMemory(x) /\ x # r
  <2>1. InMemory(x)' => InMemory(x)
    BY <1>9 DEF InMemory
  <2>2. x = r => ~InMemory(x)'
    <3>1. \A j \in 1 .. Len(memQueue') : memQueue'[j] # r
      <4>1. \A j, l \in 1 .. Len(memQueue) : memQueue[j] = r /\ memQueue[l] = r => j = l
        BY DEF ReqInv
      <4>. QED  BY <1>3, <1>9, <4>1
    <3>. QED  BY <3>1 DEF InMemory
  <2>3. ASSUME InMemory(x), x # r
        PROVE  InMemory(x)'
    <3>1. PICK l \in 1 .. Len(memQueue) : memQueue[l] = x
      BY <2>3 DEF InMemory
    <3>2. l # i
      BY <1>3, <2>3, <3>1
    <3>3. CASE l < i
      <4>1. l \in 1 .. Len(memQueue')
        BY <1>7, <3>3
      <4>2. memQueue'[l] = x
        BY <1>7, <3>1, <3>3, <4>1
      <4>. QED  BY <4>1, <4>2 DEF InMemory
    <3>4. CASE l > i
      <4>1. l - 1 \in i .. Len(memQueue) - 1 /\ l - 1 + 1 = l /\ l - 1 \in 1 .. Len(memQueue')
        BY <1>7, <3>4
      <4>2. memQueue'[l - 1] = x
        BY <1>7, <3>1, <4>1
      <4>. QED  BY <4>1, <4>2 DEF InMemory
    <3>. QED  BY <1>7, <3>2, <3>3, <3>4
  <2>. QED  BY <2>1, <2>2, <2>3
<1>12. InMemory(r)
  BY <1>3 DEF InMemory
<1>13. \A k \in 1 .. Len(s) : s[k] \in AccessesOf(x) <=> x = r /\ k = Len(s)
  <2>1. \A k \in 1 .. Len(s) : s[k] \in CommandType
    BY <1>5
  <2>2. x # NoRequest
    BY ControllerAssumption
  <2>. QED  BY <1>5, <2>1, <2>2 DEF AccessesOf
<1>14. \E k \in 1 .. Len(s) : k = Len(s)
  BY <1>5
<1>15. Unsent' = Filled(Unsent, QueueOf(r), s) /\ QueueOf(r) \in Queues
       /\ Unsent[QueueOf(r)] = << >>
  BY <1>3 DEF s, Filled
<1>16. /\ Held(Unsent', AccessesOf(x)) <=> Held(Unsent, AccessesOf(x)) \/ x = r
       /\ HeldOnce(Unsent', AccessesOf(x))
  <2>1. CASE x = r
    <3>1. ~Held(Unsent, AccessesOf(x))
      BY <1>8, <1>12, <2>1
    <3>2. \A k, l \in 1 .. Len(s) : s[k] \in AccessesOf(x) /\ s[l] \in AccessesOf(x) => k = l
      BY <1>13
    <3>3. \E k \in 1 .. Len(s) : s[k] \in AccessesOf(x)
      BY <1>13, <1>14, <2>1
    <3>. QED  BY <1>5, <1>6, <1>15, <2>1, <3>1, <3>2, <3>3, FillHeld
  <2>2. CASE x # r
    BY <1>5, <1>6, <1>8, <1>13, <1>15, <2>2, FillHeld
  <2>. QED  BY <2>1, <2>2
<1>. QED  BY <1>4, <1>8, <1>10, <1>11, <1>12, <1>16

(* No request moves. *)
LEMMA ReqKept ==
  ASSUME ReqInv, UNCHANGED <<memQueue, owed, inService>>,
         \A x \in Requests :
           /\ Held(Unsent', AccessesOf(x)) <=> Held(Unsent, AccessesOf(x))
           /\ HeldOnce(Unsent, AccessesOf(x)) => HeldOnce(Unsent', AccessesOf(x))
  PROVE  ReqInv'
<1>1. \A x : InMemory(x)' <=> InMemory(x)
  BY DEF InMemory
<1>. QED  BY <1>1 DEF ReqInv

(* A command that is not for a request is pushed. *)
LEMMA ReqPush ==
  ASSUME TypeInv, ReqInv, UNCHANGED <<memQueue, owed, inService>>,
         NEW q \in Queues, NEW c \in CommandType, c.req = NoRequest,
         Unsent' = Pushed(Unsent, q, c)
  PROVE  ReqInv'
<1>1. \A x \in Requests : c \notin AccessesOf(x)
  BY ControllerAssumption DEF AccessesOf
<1>2. Unsent \in [Queues -> Seq(CommandType)]
  BY UnsentType
<1>3. ASSUME NEW x \in Requests
      PROVE  /\ Held(Unsent', AccessesOf(x)) <=> Held(Unsent, AccessesOf(x))
             /\ HeldOnce(Unsent, AccessesOf(x)) => HeldOnce(Unsent', AccessesOf(x))
  BY <1>1, <1>2, PushHeld
<1>. QED  BY <1>3, ReqKept

(* A request is sent to its rank. *)
LEMMA ReqIssue ==
  ASSUME TypeInv, ReqInv, NEW ready \in SUBSET Queues, CycleCommandQueues(ready)
  PROVE  ReqInv'
<1>0. UNCHANGED <<memQueue, owed>>
  BY DEF CycleCommandQueues, queueVars
<1>1. CASE UNCHANGED <<rank, inService, refreshQueued, Unsent>>
  BY <1>0, <1>1, ReqKept
<1>2. ASSUME NEW q \in Queues, NEW c \in CommandType,
             Unsent[q] # << >>, c = Head(Unsent[q]),
             Unsent' = [Unsent EXCEPT ![q] = Tail(@)],
             inService' = inService \cup ({c.req} \ {NoRequest})
      PROVE  ReqInv'
  <2>1. Unsent \in [Queues -> Seq(CommandType)]
    BY UnsentType
  <2>2. ASSUME NEW x \in Requests
        PROVE  /\ Held(Unsent, AccessesOf(x)) <=> (Held(Unsent', AccessesOf(x)) \/ c.req = x)
               /\ HeldOnce(Unsent, AccessesOf(x)) => HeldOnce(Unsent', AccessesOf(x))
               /\ HeldOnce(Unsent, AccessesOf(x)) /\ c.req = x => ~Held(Unsent', AccessesOf(x))
               /\ x \in inService' <=> (x \in inService \/ c.req = x)
    <3>1. c \in AccessesOf(x) <=> c.req = x
      BY DEF AccessesOf
    <3>2. x # NoRequest
      BY ControllerAssumption
    <3>3. x \in inService' <=> (x \in inService \/ c.req = x)
      BY <1>2, <3>2
    <3>4. Unsent' = Popped(Unsent, q)
      BY <1>2 DEF Popped
    <3>5. Unsent[q] # << >> /\ c = Head(Unsent[q])
      BY <1>2
    <3>. QED  BY <2>1, <3>1, <3>3, <3>4, <3>5, PopHeld
  <2>3. \A x : InMemory(x)' <=> InMemory(x)
    BY <1>0 DEF InMemory
  <2>. QED  BY <1>0, <2>2, <2>3 DEF ReqInv
<1>. QED  BY <1>1, <1>2, IssueView

(* A request arrives. *)
LEMMA ReqArrive ==
  ASSUME TypeInv, ReqInv, NEW r \in Requests, Arrive(r)
  PROVE  ReqInv'
<1>1. /\ memQueue' = Append(memQueue, r) /\ owed' = owed \cup {r} /\ r \notin owed
      /\ UNCHANGED inService /\ memQueue \in Seq(Requests) /\ Unsent' = Unsent
  BY OtherView DEF Arrive, TypeInv, TypeOK
<1>2. /\ Len(memQueue') = Len(memQueue) + 1 /\ Len(memQueue) \in Nat
      /\ \A k \in 1 .. Len(memQueue) : memQueue'[k] = memQueue[k]
      /\ memQueue'[Len(memQueue) + 1] = r
  BY <1>1
<1>3. ASSUME NEW k \in 1 .. Len(memQueue')
      PROVE  \/ k \in 1 .. Len(memQueue) /\ memQueue'[k] = memQueue[k]
             \/ k = Len(memQueue) + 1 /\ memQueue'[k] = r
  BY <1>2
<1>4. ~InMemory(r) /\ ~Held(Unsent, AccessesOf(r)) /\ r \notin inService
  BY <1>1 DEF ReqInv
<1>5. \A x \in Requests : InMemory(x)' <=> (InMemory(x) \/ x = r)
  <2>1. Len(memQueue) + 1 \in 1 .. Len(memQueue')
        /\ \A k \in 1 .. Len(memQueue) : k \in 1 .. Len(memQueue')
    BY <1>2
  <2>. QED  BY <1>2, <1>3, <2>1 DEF InMemory
<1>6. ASSUME NEW x \in Requests, NEW i \in 1 .. Len(memQueue'), NEW j \in 1 .. Len(memQueue'),
             memQueue'[i] = x, memQueue'[j] = x
      PROVE  i = j
  <2>1. CASE x = r
    BY <1>3, <1>4, <1>6, <2>1 DEF InMemory
  <2>2. CASE x # r
    BY <1>3, <1>6, <2>2 DEF ReqInv
  <2>. QED  BY <2>1, <2>2
<1>7. ASSUME NEW x \in Requests
      PROVE  /\ HeldOnce(Unsent', AccessesOf(x))
             /\ InMemory(x)' => ~Held(Unsent', AccessesOf(x)) /\ x \notin inService'
             /\ Held(Unsent', AccessesOf(x)) => x \notin inService'
             /\ x \in owed' <=> InMemory(x)' \/ Held(Unsent', AccessesOf(x)) \/ x \in inService'
  BY <1>1, <1>4, <1>5 DEF ReqInv
<1>. QED  BY <1>6, <1>7 DEF ReqInv

(* A request is completed. *)
LEMMA ReqComplete ==
  ASSUME ReqInv, NEW r \in Requests, RequestComplete(r)
  PROVE  ReqInv'
<1>1. /\ inService' = inService \ {r} /\ owed' = owed \ {r} /\ r \in inService
      /\ UNCHANGED memQueue /\ Unsent' = Unsent
  BY OtherView DEF RequestComplete
<1>2. \A x : InMemory(x)' <=> InMemory(x)
  BY <1>1 DEF InMemory
<1>3. ~InMemory(r) /\ ~Held(Unsent, AccessesOf(r))
  BY <1>1 DEF ReqInv
<1>. QED  BY <1>1, <1>2, <1>3 DEF ReqInv

(* Every step of the controller keeps ReqInv. *)
LEMMA ReqStep ==
  ASSUME EveryBankHasQueue, TypeInv, ReqInv, [Next]_vars
  PROVE  ReqInv'
<1>0. ASSUME Unsent' = Unsent, UNCHANGED <<memQueue, owed, inService>>
      PROVE  ReqInv'
  BY <1>0, ReqKept
<1>1. CASE \E r \in Requests : Arrive(r) \/ RequestComplete(r)
  BY <1>1, ReqArrive, ReqComplete
<1>2. CASE \/ \E rk \in Ranks, g \in Groups : RefreshCallback(rk, g)
           \/ \E rk \in Ranks, b \in Banks : DeviceEvent(rk, b)
           \/ Schedule /\ Candidates = {}
           \/ \E ready \in SUBSET Ranks : HandleLowPower(ready)
           \/ FindRefresh
           \/ UNCHANGED vars
  <2>1. Unsent' = Unsent
    BY <1>2, OtherView
  <2>2. UNCHANGED <<memQueue, owed, inService>>
    BY <1>2 DEF RefreshCallback, DeviceEvent, Schedule, HandleLowPower, FindRefresh,
                vars, queueVars
  <2>. QED  BY <1>0, <2>1, <2>2
<1>3. CASE Schedule /\ Candidates # {}
  BY <1>3, ReqSchedule
<1>4. CASE PrechargeForRefresh
  <2>0. UNCHANGED <<memQueue, owed, inService>>
    BY <1>4 DEF PrechargeForRefresh, queueVars
  <2>1. CASE Unsent' = Unsent
    BY <1>0, <2>0, <2>1
  <2>2. ASSUME NEW rk \in Ranks, NEW b \in Banks,
               Unsent' = [Unsent EXCEPT ![GetCommandQueueId(rk, b)] =
                 Append(@, Command("PRECHARGE_ALL", rk, b, NoRow, NoRequest))]
        PROVE  ReqInv'
    <3>1. LET c == Command("PRECHARGE_ALL", rk, b, NoRow, NoRequest)
          IN c \in CommandType /\ c.req = NoRequest
      BY DEF Command, CommandType
    <3>. QED  BY <2>0, <2>2, <3>1, QueueExists, ReqPush DEF Pushed
  <2>. QED  BY <1>4, <2>1, <2>2, PrechargeView
<1>5. CASE QueueRefresh
  <2>0. UNCHANGED <<memQueue, owed, inService>>
    BY <1>5 DEF QueueRefresh, queueVars
  <2>1. PICK rk \in Ranks, j \in Banks :
           Unsent' = [Unsent EXCEPT ![GetCommandQueueId(rk, j)] =
                Append(@, Command("REFRESH", rk, j, NoRow, NoRequest))]
    BY <1>5, RefreshView
  <2>2. LET c == Command("REFRESH", rk, j, NoRow, NoRequest)
        IN c \in CommandType /\ c.req = NoRequest
    BY DEF Command, CommandType
  <2>. QED  BY <2>0, <2>1, <2>2, QueueExists, ReqPush DEF Pushed
<1>6. CASE \E ready \in SUBSET Queues : CycleCommandQueues(ready)
  BY <1>6, ReqIssue
<1>7. CASE CleanupCallback
  <2>1. UNCHANGED <<memQueue, owed, inService>>
    BY <1>7 DEF CleanupCallback, queueVars
  <2>. QED  BY <1>0, <1>7, <2>1, CleanupView
<1>. QED  BY <1>1, <1>2, <1>3, <1>4, <1>5, <1>6, <1>7 DEF Next

(* The places of a request that is in one of three parts, or in none. *)
LEMMA PlacesCounted ==
  ASSUME TypeInv, ReqInv, NEW r \in Requests
  PROVE  Cardinality(Places(r)) = IF r \in owed THEN 1 ELSE 0
<1>. DEFINE A == {"memory"} \X {i \in DOMAIN memQueue : memQueue[i] = r}
            P == UNION {{q} \X {k \in Unissued(q) : commandQueues[q][k].req = r} : q \in Queues}
            C == {"device"} \X {0 : x \in inService \cap {r}}
<1>1. Places(r) = A \cup P \cup C
  BY DEF Places
<1>2. memQueue \in Seq(Requests) /\ DOMAIN memQueue = 1 .. Len(memQueue)
  BY DEF TypeInv, TypeOK
<1>3. /\ ~InMemory(r) => A = {}
      /\ InMemory(r) => \E x : A = {x}
  <2>1. ~InMemory(r) => A = {}
    BY <1>2 DEF InMemory
  <2>2. ASSUME NEW i \in 1 .. Len(memQueue), memQueue[i] = r
        PROVE  \E x : A = {x}
    <3>1. {j \in DOMAIN memQueue : memQueue[j] = r} = {i}
      BY <1>2, <2>2 DEF ReqInv
    <3>2. A = {<<"memory", i>>}
      BY <3>1
    <3>. QED  BY <3>2
  <2>. QED  BY <2>1, <2>2 DEF InMemory
<1>4. /\ ~Held(Unsent, AccessesOf(r)) => P = {}
      /\ Held(Unsent, AccessesOf(r)) => \E x : P = {x}
  <2>1. \A q \in Queues : \A k \in Unissued(q) :
          commandQueues[q][k].req = r <=> commandQueues[q][k] \in AccessesOf(r)
    <3>. SUFFICES ASSUME NEW q \in Queues, NEW k \in Unissued(q)
                  PROVE  commandQueues[q][k] \in CommandType
      BY DEF AccessesOf
    <3>1. commandQueues[q] \in Seq(CommandType)
      BY DEF TypeInv, TypeOK
    <3>2. k \in DOMAIN commandQueues[q]
      BY <3>1 DEF Unissued
    <3>. QED  BY <3>1, <3>2
  <2>2. P = PlacesOf(AccessesOf(r))
    BY <2>1 DEF PlacesOf
  <2>. HIDE DEF P
  <2>3. HeldOnce(Unsent, AccessesOf(r))
    BY DEF ReqInv
  <2>. QED  BY <2>2, <2>3, PlacesHeld
<1>5. /\ r \notin inService => C = {}
      /\ r \in inService => \E x : C = {x}
  <2>1. r \in inService => C = {<<"device", 0>>}
    OBVIOUS
  <2>. QED  BY <2>1
<1>. HIDE DEF A, P, C
<1>6. /\ r \notin owed => A \cup P \cup C = {}
      /\ r \in owed => \E x : A \cup P \cup C = {x}
  BY <1>3, <1>4, <1>5 DEF ReqInv
<1>. QED  BY <1>1, <1>6, FS_EmptySet, FS_Singleton

(* No request is lost or sent to the devices twice, whatever the sizes,    *)
(* the addresses and the policies, if every bank has a command queue.      *)
THEOREM ControllerConservesRequests ==
  ASSUME EveryBankHasQueue
  PROVE  Spec => []RequestConserved
<1>1. TypeInv /\ ReqInv /\ [Next]_vars => ReqInv'
  BY ReqStep
<1>2. TypeInv /\ ReqInv => RequestConserved
  BY PlacesCounted DEF RequestConserved
<1>. QED  BY <1>1, <1>2, ReqInit, ControllerTypeInv, PTL DEF Spec

-----------------------------------------------------------------------------
(* Refreshes.                                                              *)

RefreshesOf(rk, g) ==
  {c \in CommandType : c.type = "REFRESH" /\ c.rank = rk /\ GroupOf(c.bank) = g}

(* At most one REFRESH of a group is queued, its banks know, and none is   *)
(* queued while the group is due.                                          *)
RefreshAt(rk, g) ==
  /\ HeldOnce(Unsent, RefreshesOf(rk, g))
  /\ \A b \in GroupBanks(g) : refreshQueued[rk][b] <=> Held(Unsent, RefreshesOf(rk, g))
  /\ NeedRefresh(rk, g) => ~Held(Unsent, RefreshesOf(rk, g))

RefInv == \A rk \in Ranks, g \in Groups : RefreshAt(rk, g)

(* No REFRESH is queued at the start. *)
LEMMA RefInit == Init => RefInv
<1>. SUFFICES ASSUME Init, NEW rk \in Ranks, NEW g \in Groups PROVE RefreshAt(rk, g)
  BY DEF RefInv
<1>1. /\ refreshQueued = [x \in Ranks |-> [b \in Banks |-> FALSE]] /\ 1 .. 0 = {}
      /\ \A q \in Queues : Unsent[q] = << >>
  BY DEF Init, Unsent
<1>2. \A q \in Queues : Len(Unsent[q]) = 0
  BY <1>1
<1>3. \A b \in GroupBanks(g) : ~refreshQueued[rk][b]
  BY <1>1, GroupBanksExist
<1>. QED  BY <1>1, <1>2, <1>3 DEF RefreshAt, Held, HeldOnce

(* A group is never empty. *)
LEMMA GroupHasHead ==
  ASSUME NEW g \in Groups
  PROVE  g * BanksPerRefresh \in GroupBanks(g)
<1>1. BanksPerRefresh \in Nat \ {0} /\ g \in Nat
  BY GroupNumbers DEF Groups
<1>2. g * BanksPerRefresh \in Nat
  BY <1>1
<1>. QED  BY <1>1, <1>2 DEF GroupBanks, RefreshedBanks

(* No REFRESH comes or goes. *)
LEMMA RefKept ==
  ASSUME RefInv, UNCHANGED <<refreshQueued, delayedRefreshCounter>>,
         \A rk \in Ranks, g \in Groups :
           /\ Held(Unsent', RefreshesOf(rk, g)) <=> Held(Unsent, RefreshesOf(rk, g))
           /\ HeldOnce(Unsent, RefreshesOf(rk, g)) => HeldOnce(Unsent', RefreshesOf(rk, g))
  PROVE  RefInv'
<1>1. \A rk, g : NeedRefresh(rk, g)' <=> NeedRefresh(rk, g)
  BY DEF NeedRefresh
<1>. QED  BY <1>1 DEF RefInv, RefreshAt

(* The commands of a request are no REFRESH. *)
LEMMA RefSchedule ==
  ASSUME EveryBankHasQueue, TypeInv, RefInv, Schedule, Candidates # {}
  PROVE  RefInv'
<1>1. PICK r \in Requests : \E last \in BOOLEAN :
           /\ Eligible(r)
           /\ QueueOf(r) \in Queues /\ Unsent[QueueOf(r)] = << >>
           /\ Unsent' = [Unsent EXCEPT ![QueueOf(r)] = CommandsFor(r, last)]
  BY ScheduleView
<1>2. PICK last \in BOOLEAN :
           /\ Eligible(r)
           /\ QueueOf(r) \in Queues /\ Unsent[QueueOf(r)] = << >>
           /\ Unsent' = [Unsent EXCEPT ![QueueOf(r)] = CommandsFor(r, last)]
  BY <1>1
<1>. DEFINE s == CommandsFor(r, last)
<1>3. s \in Seq(CommandType) /\ \A k \in 1 .. Len(s) : s[k].type # "REFRESH"
  BY <1>2, CommandsForRequest
<1>4. Unsent' = Filled(Unsent, QueueOf(r), s) /\ QueueOf(r) \in Queues
      /\ Unsent[QueueOf(r)] = << >>
  BY <1>2 DEF Filled
<1>5. Unsent \in [Queues -> Seq(CommandType)]
  BY UnsentType
<1>. HIDE DEF s
<1>6. \A rk \in Ranks, g \in Groups : \A k \in 1 .. Len(s) : s[k] \notin RefreshesOf(rk, g)
  BY <1>3 DEF RefreshesOf
<1>7. ASSUME NEW rk \in Ranks, NEW g \in Groups
      PROVE  /\ Held(Unsent', RefreshesOf(rk, g)) <=> Held(Unsent, RefreshesOf(rk, g))
             /\ HeldOnce(Unsent, RefreshesOf(rk, g)) => HeldOnce(Unsent', RefreshesOf(rk, g))
  BY <1>3, <1>4, <1>5, <1>6, FillHeld
<1>8. UNCHANGED <<refreshQueued, delayedRefreshCounter>>
  BY DEF Schedule, refreshVars
<1>. QED  BY <1>7, <1>8, RefKept

(* Nor are the precharges of HandleRefresh(). *)
LEMMA RefPrecharge ==
  ASSUME EveryBankHasQueue, TypeInv, RefInv, PrechargeForRefresh
  PROVE  RefInv'
<1>1. UNCHANGED <<refreshQueued, delayedRefreshCounter>>
  BY DEF PrechargeForRefresh, refreshVars
<1>2. CASE Unsent' = Unsent
  BY <1>1, <1>2, RefKept
<1>3. ASSUME NEW rk \in Ranks, NEW b \in Banks,
             Unsent' = [Unsent EXCEPT ![GetCommandQueueId(rk, b)] =
               Append(@, Command("PRECHARGE_ALL", rk, b, NoRow, NoRequest))]
      PROVE  RefInv'
  <2>. DEFINE c == Command("PRECHARGE_ALL", rk, b, NoRow, NoRequest)
  <2>1. c \in CommandType /\ c.type # "REFRESH"
    BY DEF Command, CommandType
  <2>2. Unsent' = Pushed(Unsent, GetCommandQueueId(rk, b), c)
    BY <1>3 DEF Pushed
  <2>. HIDE DEF c
  <2>3. \A x \in Ranks, g \in Groups : c \notin RefreshesOf(x, g)
    BY <2>1 DEF RefreshesOf
  <2>4. GetCommandQueueId(rk, b) \in Queues /\ Unsent \in [Queues -> Seq(CommandType)]
    BY QueueExists, UnsentType
  <2>5. ASSUME NEW x \in Ranks, NEW g \in Groups
        PROVE  /\ Held(Unsent', RefreshesOf(x, g)) <=> Held(Unsent, RefreshesOf(x, g))
               /\ HeldOnce(Unsent, RefreshesOf(x, g)) => HeldOnce(Unsent', RefreshesOf(x, g))
    BY <2>1, <2>2, <2>3, <2>4, PushHeld
  <2>. QED  BY <1>1, <2>5, RefKept
<1>. QED  BY <1>2, <1>3, PrechargeView

(* The REFRESH of a group that is due is queued. *)
LEMMA RefQueue ==
  ASSUME GroupsCover, EveryBankHasQueue, TypeInv, RotationInv, RefInv, QueueRefresh
  PROVE  RefInv'
<1>1. PICK rk \in Ranks, j \in Banks :
           /\ rk = refreshLoop.rank /\ j = refreshLoop.bank
           /\ GetCommandQueueId(rk, j) \in Queues
           /\ Unsent' = [Unsent EXCEPT ![GetCommandQueueId(rk, j)] =
                Append(@, Command("REFRESH", rk, j, NoRow, NoRequest))]
           /\ refreshQueued' = [refreshQueued EXCEPT ![rk] =
                [b \in Banks |-> b \in RefreshTargets(j) \/ @[b]]]
  BY RefreshView
<1>. DEFINE g == GroupOf(j)
            c == Command("REFRESH", rk, j, NoRow, NoRequest)
<1>2. j \in Heads /\ NeedRefresh(rk, g)
  BY <1>1 DEF RotationInv, QueueRefresh, TypeInv, LoopIsDue
<1>3. g \in Groups /\ RefreshTargets(j) = GroupBanks(g)
  BY <1>2, HeadFacts
<1>4. /\ c \in CommandType /\ c.type = "REFRESH" /\ c.rank = rk /\ GroupOf(c.bank) = g
  BY DEF Command, CommandType
<1>5. Unsent' = Pushed(Unsent, GetCommandQueueId(rk, j), c)
  BY <1>1 DEF Pushed
<1>6. Unsent \in [Queues -> Seq(CommandType)]
  BY UnsentType
<1>7. /\ delayedRefreshCounter' = [delayedRefreshCounter EXCEPT ![rk][g] = @ - 1]
      /\ delayedRefreshCounter \in [Ranks -> [Groups -> 0 .. DelayedRefreshThreshold]]
      /\ refreshQueued \in [Ranks -> [Banks -> BOOLEAN]]
      /\ DelayedRefreshThreshold \in Nat \ {0}
  BY <1>1, ControllerAssumption DEF QueueRefresh, TypeInv, TypeOK
<1>9. GetCommandQueueId(rk, j) \in Queues
  BY <1>1
<1>. HIDE DEF c, g
<1>8. ASSUME NEW x \in Ranks, NEW h \in Groups
      PROVE  RefreshAt(x, h)'
  <2>. DEFINE M == RefreshesOf(x, h)
  <2>0. c \in M <=> x = rk /\ h = g
    BY <1>4 DEF RefreshesOf
  <2>1. RefreshAt(x, h)
    BY DEF RefInv
  <2>2. c \in M => ~Held(Unsent, M)
    BY <1>2, <1>3, <2>0 DEF RefInv, RefreshAt
  <2>3. Held(Unsent', M) <=> (Held(Unsent, M) \/ c \in M)
    BY <1>4, <1>5, <1>6, <1>9, PushHeld
  <2>4. HeldOnce(Unsent', M)
    BY <1>4, <1>5, <1>6, <1>9, <2>1, <2>2, PushHeld DEF RefreshAt
  <2>5. GroupBanks(h) \subseteq Banks
    BY GroupBanksExist
  <2>6. ASSUME NEW b \in GroupBanks(h)
        PROVE  refreshQueued'[x][b] <=> Held(Unsent', M)
    <3>1. refreshQueued[x][b] <=> Held(Unsent, M)
      BY <2>1 DEF RefreshAt
    <3>2. refreshQueued'[x][b] <=> (refreshQueued[x][b] \/ (x = rk /\ b \in GroupBanks(g)))
      BY <1>1, <1>3, <1>7, <2>5
    <3>3. b \in GroupBanks(g) <=> h = g
      BY <1>3, GroupsDisjoint DEF Groups
    <3>. QED  BY <2>0, <2>3, <3>1, <3>2, <3>3
  <2>7. NeedRefresh(x, h)' => ~Held(Unsent', M)
    <3>1. CASE x = rk /\ h = g
      <4>1. delayedRefreshCounter'[x][h] < DelayedRefreshThreshold
        BY <1>3, <1>7, <3>1
      <4>2. delayedRefreshCounter'[x][h] \in Int
        BY <1>3, <1>7, <3>1
      <4>. QED  BY <1>7, <4>1, <4>2 DEF NeedRefresh
    <3>2. CASE ~(x = rk /\ h = g)
      <4>1. delayedRefreshCounter'[x][h] = delayedRefreshCounter[x][h]
        BY <1>3, <1>7, <3>2
      <4>2. NeedRefresh(x, h)' <=> NeedRefresh(x, h)
        BY <4>1 DEF NeedRefresh
      <4>. QED  BY <2>0, <2>1, <2>3, <3>2, <4>2 DEF RefreshAt
    <3>. QED  BY <3>1, <3>2
  <2>. QED  BY <2>4, <2>6, <2>7 DEF RefreshAt
<1>. QED  BY <1>8 DEF RefInv

(* A REFRESH is sent: ResetRefreshQueued(). *)
LEMMA RefIssue ==
  ASSUME GroupsCover, TypeInv, RefInv, NEW ready \in SUBSET Queues,
         CycleCommandQueues(ready)
  PROVE  RefInv'
<1>0. UNCHANGED delayedRefreshCounter
  BY DEF CycleCommandQueues
<1>1. CASE UNCHANGED <<rank, inService, refreshQueued, Unsent>>
  BY <1>0, <1>1, RefKept
<1>2. ASSUME NEW q \in Queues, NEW c \in CommandType,
             Unsent[q] # << >>, c = Head(Unsent[q]),
             Unsent' = [Unsent EXCEPT ![q] = Tail(@)],
             refreshQueued' = ResetRefreshQueued(c)
      PROVE  RefInv'
  <2>1. Unsent \in [Queues -> Seq(CommandType)]
    BY UnsentType
  <2>2. /\ Unsent' = Popped(Unsent, q) /\ Unsent[q] # << >> /\ c = Head(Unsent[q])
    BY <1>2 DEF Popped
  <2>3. /\ refreshQueued \in [Ranks -> [Banks -> BOOLEAN]]
        /\ c.rank \in Ranks /\ c.bank \in Banks /\ GroupOf(c.bank) \in Groups
    BY GroupFacts DEF TypeInv, TypeOK, CommandType
  <2>4. ASSUME NEW x \in Ranks, NEW h \in Groups
        PROVE  RefreshAt(x, h)'
    <3>. DEFINE M == RefreshesOf(x, h)
    <3>1. RefreshAt(x, h)
      BY DEF RefInv
    <3>2. /\ Held(Unsent, M) <=> (Held(Unsent', M) \/ c \in M)
          /\ HeldOnce(Unsent', M)
          /\ c \in M => ~Held(Unsent', M)
      BY <2>1, <2>2, <3>1, PopHeld DEF RefreshAt
    <3>3. GroupBanks(h) \subseteq Banks
      BY GroupBanksExist
    <3>4. c \in M <=> c.type = "REFRESH" /\ c.rank = x /\ GroupOf(c.bank) = h
      BY DEF RefreshesOf
    <3>5. ASSUME NEW b \in GroupBanks(h)
          PROVE  refreshQueued'[x][b] <=> Held(Unsent', M)
      <4>1. refreshQueued[x][b] <=> Held(Unsent, M)
        BY <3>1 DEF RefreshAt
      <4>2. b \in GroupBanks(GroupOf(c.bank)) <=> h = GroupOf(c.bank)
        BY <2>3, GroupsDisjoint DEF Groups
      <4>3. refreshQueued'[x][b] <=> refreshQueued[x][b] /\ c \notin M
        BY <1>2, <2>3, <3>3, <3>4, <4>2 DEF ResetRefreshQueued
      <4>. QED  BY <3>2, <4>1, <4>3
    <3>6. NeedRefresh(x, h)' <=> NeedRefresh(x, h)
      BY <1>0 DEF NeedRefresh
    <3>. QED  BY <3>1, <3>2, <3>5, <3>6 DEF RefreshAt
  <2>. QED  BY <2>4 DEF RefInv
<1>. QED  BY <1>1, <1>2, IssueView

(* A pulse makes a group due whose last REFRESH is gone. *)
LEMMA RefPulse ==
  ASSUME TypeInv, RefInv, NEW rk \in Ranks, NEW g \in Groups, RefreshCallback(rk, g)
  PROVE  RefInv'
<1>1. Unsent' = Unsent
  BY OtherView
<1>2. /\ UNCHANGED refreshQueued
      /\ delayedRefreshCounter' = [delayedRefreshCounter EXCEPT ![rk][g] = @ + 1]
      /\ delayedRefreshCounter \in [Ranks -> [Groups -> 0 .. DelayedRefreshThreshold]]
      /\ \A b \in GroupBanks(g) : ~refreshQueued[rk][b]
  BY DEF RefreshCallback, ProcessRefreshPulse, RefreshKeepsUp, TypeInv, TypeOK
<1>3. ~Held(Unsent, RefreshesOf(rk, g))
  BY <1>2, GroupHasHead DEF RefInv, RefreshAt
<1>4. ASSUME NEW x \in Ranks, NEW h \in Groups
      PROVE  RefreshAt(x, h)'
  <2>1. CASE x = rk /\ h = g
    BY <1>1, <1>2, <1>3, <2>1 DEF RefInv, RefreshAt
  <2>2. CASE ~(x = rk /\ h = g)
    <3>1. delayedRefreshCounter'[x][h] = delayedRefreshCounter[x][h]
      BY <1>2, <2>2
    <3>2. NeedRefresh(x, h)' <=> NeedRefresh(x, h)
      BY <3>1 DEF NeedRefresh
    <3>. QED  BY <1>1, <1>2, <3>2 DEF RefInv, RefreshAt
  <2>. QED  BY <2>1, <2>2
<1>. QED  BY <1>4 DEF RefInv

(* Every step of the controller keeps RefInv. *)
LEMMA RefStep ==
  ASSUME GroupsCover, EveryBankHasQueue, TypeInv, RotationInv, RefInv, [Next]_vars
  PROVE  RefInv'
<1>0. ASSUME Unsent' = Unsent, UNCHANGED <<refreshQueued, delayedRefreshCounter>>
      PROVE  RefInv'
  BY <1>0, RefKept
<1>1. CASE \E rk \in Ranks, g \in Groups : RefreshCallback(rk, g)
  BY <1>1, RefPulse
<1>2. CASE \/ \E r \in Requests : Arrive(r) \/ RequestComplete(r)
           \/ \E rk \in Ranks, b \in Banks : DeviceEvent(rk, b)
           \/ Schedule /\ Candidates = {}
           \/ \E ready \in SUBSET Ranks : HandleLowPower(ready)
           \/ FindRefresh
           \/ UNCHANGED vars
  <2>1. Unsent' = Unsent
    BY <1>2, OtherView
  <2>2. UNCHANGED <<refreshQueued, delayedRefreshCounter>>
    BY <1>2 DEF Arrive, RequestComplete, DeviceEvent, Schedule, HandleLowPower,
                FindRefresh, vars, refreshVars
  <2>. QED  BY <1>0, <2>1, <2>2
<1>3. CASE CleanupCallback
  <2>1. UNCHANGED <<refreshQueued, delayedRefreshCounter>>
    BY <1>3 DEF CleanupCallback, refreshVars
  <2>. QED  BY <1>0, <1>3, <2>1, CleanupView
<1>4. CASE (Schedule /\ Candidates # {}) \/ PrechargeForRefresh \/ QueueRefresh
  BY <1>4, RefSchedule, RefPrecharge, RefQueue
<1>5. CASE \E ready \in SUBSET Queues : CycleCommandQueues(ready)
  BY <1>5, RefIssue
<1>. QED  BY <1>1, <1>2, <1>3, <1>4, <1>5 DEF Next

(* What RefreshFlagsAgree counts. *)
LEMMA RefreshesCounted ==
  ASSUME TypeInv, RefInv, NEW rk \in Ranks, NEW g \in Groups, NEW b \in GroupBanks(g)
  PROVE  Cardinality(UNION {{q} \X {k \in Unissued(q) :
                              /\ commandQueues[q][k].type = "REFRESH"
                              /\ commandQueues[q][k].rank = rk
                              /\ GroupOf(commandQueues[q][k].bank) = g} : q \in Queues})
           = IF refreshQueued[rk][b] THEN 1 ELSE 0
<1>. DEFINE P == UNION {{q} \X {k \in Unissued(q) :
                              /\ commandQueues[q][k].type = "REFRESH"
                              /\ commandQueues[q][k].rank = rk
                              /\ GroupOf(commandQueues[q][k].bank) = g} : q \in Queues}
            M == RefreshesOf(rk, g)
<1>1. \A q \in Queues : \A k \in Unissued(q) :
        /\ commandQueues[q][k].type = "REFRESH"
        /\ commandQueues[q][k].rank = rk
        /\ GroupOf(commandQueues[q][k].bank) = g
        <=> commandQueues[q][k] \in M
  <2>. SUFFICES ASSUME NEW q \in Queues, NEW k \in Unissued(q)
                PROVE  commandQueues[q][k] \in CommandType
    BY DEF RefreshesOf
  <2>1. commandQueues[q] \in Seq(CommandType)
    BY DEF TypeInv, TypeOK
  <2>2. k \in DOMAIN commandQueues[q]
    BY <2>1 DEF Unissued
  <2>. QED  BY <2>1, <2>2
<1>2. P = PlacesOf(M)
  BY <1>1 DEF PlacesOf
<1>3. HeldOnce(Unsent, M) /\ (refreshQueued[rk][b] <=> Held(Unsent, M))
  BY DEF RefInv, RefreshAt
<1>. HIDE DEF P, M
<1>4. /\ ~Held(Unsent, M) => P = {}
      /\ Held(Unsent, M) => \E x : P = {x}
  BY <1>2, <1>3, PlacesHeld
<1>5. Cardinality(P) = IF refreshQueued[rk][b] THEN 1 ELSE 0
  BY <1>3, <1>4, FS_EmptySet, FS_Singleton
<1>. QED  BY <1>5 DEF P

(* The invariant of the refreshes holds always. *)
THEOREM ControllerRefreshInv ==
  ASSUME GroupsCover, EveryBankHasQueue
  PROVE  Spec => []RefInv
<1>1. TypeInv /\ RotationInv /\ RefInv /\ [Next]_vars => RefInv'
  BY RefStep
<1>. QED  BY <1>1, RefInit, ControllerTypeInv, ControllerRotation, PTL DEF Spec

(* A bank waits behind a REFRESH exactly when one REFRESH of its group is  *)
(* queued, if the groups cover the rank and every bank has a queue: the    *)
(* assertion of ResetRefreshQueued() holds for every configuration in      *)
(* which refreshes keep up with the pulses (RefreshKeepsUp).               *)
THEOREM ControllerRefreshFlags ==
  ASSUME GroupsCover, EveryBankHasQueue
  PROVE  Spec => []RefreshFlagsAgree
<1>1. TypeInv /\ RefInv => RefreshFlagsAgree
  BY RefreshesCounted DEF RefreshFlagsAgree
<1>. QED  BY <1>1, ControllerRefreshInv, ControllerTypeInv, PTL

-----------------------------------------------------------------------------
(* Rows.  The row a bank has after the commands of a sequence s before     *)
(* position n, if it had the given row before them.                        *)

Turn(c, rk, b) ==
  c.rank = rk /\ c.bank = b /\ c.type \notin {"ACCESS", "REFRESH"}

After(c, rk, b, row) ==
  IF Turn(c, rk, b) THEN IF c.type = "ACTIVATE" THEN c.row ELSE NoRow ELSE row

Turns(s, n, rk, b) == {k \in 1 .. Len(s) : k < n /\ Turn(s[k], rk, b)}

RowBy(s, n, rk, b, row) ==
  IF Turns(s, n, rk, b) = {} THEN row
  ELSE After(s[Max(Turns(s, n, rk, b))], rk, b, row)

(* The last command that counts decides. *)
LEMMA RowDecided ==
  ASSUME NEW s \in Seq(CommandType), NEW n \in Nat, NEW rk, NEW b, NEW row
  PROVE  \/ Turns(s, n, rk, b) = {} /\ RowBy(s, n, rk, b, row) = row
         \/ \E m \in Turns(s, n, rk, b) :
              /\ \A k \in Turns(s, n, rk, b) : k <= m
              /\ RowBy(s, n, rk, b, row) = After(s[m], rk, b, row)
<1>. DEFINE T == Turns(s, n, rk, b)
<1>1. CASE T = {}
  BY <1>1 DEF RowBy
<1>2. CASE T # {}
  <2>1. Len(s) \in Nat /\ T \subseteq 0 .. Len(s)
    BY DEF Turns
  <2>. HIDE DEF T
  <2>2. Max(T) \in T /\ \A y \in T : y <= Max(T)
    BY <1>2, <2>1, MaxFacts
  <2>3. RowBy(s, n, rk, b, row) = After(s[Max(T)], rk, b, row)
    BY <1>2 DEF RowBy, T
  <2>. QED  BY <2>2, <2>3 DEF T
<1>. QED  BY <1>1, <1>2

(* The last command that counts, named by its position. *)
LEMMA RowBySame ==
  ASSUME NEW s \in Seq(CommandType), NEW n \in Nat, NEW rk, NEW b, NEW row,
         NEW m \in Turns(s, n, rk, b), \A k \in Turns(s, n, rk, b) : k <= m
  PROVE  RowBy(s, n, rk, b, row) = After(s[m], rk, b, row)
<1>1. Turns(s, n, rk, b) \subseteq Nat
  BY DEF Turns
<1>2. Max(Turns(s, n, rk, b)) = m
  BY <1>1, MaxIs
<1>. QED  BY <1>2 DEF RowBy

(* Nothing has happened before the first position. *)
LEMMA RowStart ==
  ASSUME NEW s \in Seq(CommandType), NEW rk, NEW b, NEW row
  PROVE  RowBy(s, 1, rk, b, row) = row
<1>1. Turns(s, 1, rk, b) = {}
  BY DEF Turns
<1>. QED  BY <1>1 DEF RowBy

(* One command further. *)
LEMMA RowNext ==
  ASSUME NEW s \in Seq(CommandType), NEW n \in 1 .. Len(s), NEW rk, NEW b, NEW row
  PROVE  RowBy(s, n + 1, rk, b, row) = After(s[n], rk, b, RowBy(s, n, rk, b, row))
<1>. DEFINE T == Turns(s, n, rk, b)
            W == Turns(s, n + 1, rk, b)
<1>0. Len(s) \in Nat /\ n \in Nat /\ n + 1 \in Nat
  OBVIOUS
<1>1. CASE Turn(s[n], rk, b)
  <2>1. n \in W /\ \A k \in W : k <= n
    BY <1>0, <1>1 DEF Turns
  <2>2. RowBy(s, n + 1, rk, b, row) = After(s[n], rk, b, row)
    BY <1>0, <2>1, RowBySame
  <2>. QED  BY <1>1, <2>2 DEF After
<1>2. CASE ~Turn(s[n], rk, b)
  <2>1. T = W
    BY <1>0, <1>2 DEF Turns
  <2>. QED  BY <1>2, <2>1 DEF After, RowBy
<1>. QED  BY <1>1, <1>2

(* Only the commands before the position count. *)
SamePrefix(s, t, n) ==
  /\ s \in Seq(CommandType) /\ t \in Seq(CommandType)
  /\ n \in Nat /\ n <= Len(s) + 1 /\ n <= Len(t) + 1
  /\ \A k \in 1 .. n - 1 : s[k] = t[k]

LEMMA RowPrefix ==
  ASSUME NEW s, NEW t, NEW n, SamePrefix(s, t, n), NEW rk, NEW b, NEW row
  PROVE  RowBy(s, n, rk, b, row) = RowBy(t, n, rk, b, row)
<1>. USE DEF SamePrefix
<1>0. Len(s) \in Nat /\ Len(t) \in Nat
  OBVIOUS
<1>1. /\ \A k \in Turns(s, n, rk, b) : k \in 1 .. n - 1
      /\ \A k \in Turns(t, n, rk, b) : k \in 1 .. n - 1
  BY <1>0 DEF Turns
<1>2. Turns(s, n, rk, b) = Turns(t, n, rk, b)
  <2>1. Turns(s, n, rk, b) = {k \in 1 .. n - 1 : Turn(s[k], rk, b)}
    BY <1>0 DEF Turns
  <2>2. Turns(t, n, rk, b) = {k \in 1 .. n - 1 : Turn(t[k], rk, b)}
    BY <1>0 DEF Turns
  <2>. QED  BY <2>1, <2>2
<1>3. CASE Turns(s, n, rk, b) = {}
  BY <1>2, <1>3 DEF RowBy
<1>4. ASSUME NEW m \in Turns(s, n, rk, b), \A k \in Turns(s, n, rk, b) : k <= m,
             RowBy(s, n, rk, b, row) = After(s[m], rk, b, row)
      PROVE  RowBy(s, n, rk, b, row) = RowBy(t, n, rk, b, row)
  <2>1. s[m] = t[m]
    BY <1>1
  <2>2. RowBy(t, n, rk, b, row) = After(t[m], rk, b, row)
    BY <1>2, <1>4, RowBySame
  <2>. QED  BY <1>4, <2>1, <2>2
<1>. QED  BY <1>3, <1>4, RowDecided

(* The head has become part of the past. *)
LEMMA RowTail ==
  ASSUME NEW s \in Seq(CommandType), s # << >>, NEW n \in 1 .. Len(s), NEW rk, NEW b, NEW row
  PROVE  RowBy(Tail(s), n, rk, b, After(Head(s), rk, b, row)) = RowBy(s, n + 1, rk, b, row)
<1>. DEFINE t == Tail(s)
            e == After(Head(s), rk, b, row)
<1>1. /\ t \in Seq(CommandType) /\ Len(t) = Len(s) - 1 /\ Len(s) \in Nat \ {0}
      /\ \A k \in 1 .. Len(s) - 1 : t[k] = s[k + 1]
      /\ Head(s) = s[1] /\ n \in Nat /\ n + 1 \in Nat
  BY TailOfCommands
<1>. HIDE DEF t
<1>2. ASSUME NEW k \in Turns(t, n, rk, b)
      PROVE  k + 1 \in Turns(s, n + 1, rk, b) /\ t[k] = s[k + 1] /\ k \in Nat
  BY <1>1 DEF Turns
<1>3. ASSUME NEW k \in Turns(s, n + 1, rk, b), k # 1
      PROVE  k - 1 \in Turns(t, n, rk, b) /\ k \in Nat
  <2>1. k - 1 \in 1 .. Len(s) - 1 /\ k - 1 + 1 = k
    BY <1>1, <1>3 DEF Turns
  <2>. QED  BY <1>1, <1>3, <2>1 DEF Turns
<1>4. CASE Turns(t, n, rk, b) = {}
  <2>1. \A k \in Turns(s, n + 1, rk, b) : k = 1
    BY <1>3, <1>4
  <2>2. RowBy(t, n, rk, b, e) = e
    BY <1>4 DEF RowBy
  <2>3. CASE 1 \in Turns(s, n + 1, rk, b)
    <3>1. \A k \in Turns(s, n + 1, rk, b) : k <= 1
      BY <2>1
    <3>. QED  BY <1>1, <2>2, <2>3, <3>1, RowBySame DEF t
  <2>4. CASE 1 \notin Turns(s, n + 1, rk, b)
    <3>1. Turns(s, n + 1, rk, b) = {}
      BY <2>1, <2>4
    <3>2. ~Turn(s[1], rk, b)
      BY <1>1, <2>4 DEF Turns
    <3>3. e = row
      BY <1>1, <3>2 DEF After
    <3>. QED  BY <2>2, <3>1, <3>3 DEF RowBy, t
  <2>. QED  BY <2>3, <2>4
<1>5. ASSUME NEW m \in Turns(t, n, rk, b), \A k \in Turns(t, n, rk, b) : k <= m,
             RowBy(t, n, rk, b, e) = After(t[m], rk, b, e)
      PROVE  RowBy(t, n, rk, b, e) = RowBy(s, n + 1, rk, b, row)
  <2>1. m + 1 \in Turns(s, n + 1, rk, b) /\ t[m] = s[m + 1] /\ m \in Nat
    BY <1>2
  <2>2. ASSUME NEW k \in Turns(s, n + 1, rk, b)
        PROVE  k <= m + 1
    <3>1. CASE k = 1
      BY <2>1, <3>1
    <3>2. CASE k # 1
      <4>1. k - 1 \in Turns(t, n, rk, b) /\ k \in Nat
        BY <1>3, <3>2
      <4>2. k - 1 <= m
        BY <1>5, <4>1
      <4>. QED  BY <2>1, <4>1, <4>2
    <3>. QED  BY <3>1, <3>2
  <2>3. RowBy(s, n + 1, rk, b, row) = After(s[m + 1], rk, b, row)
    BY <1>1, <2>1, <2>2, RowBySame
  <2>4. Turn(t[m], rk, b)
    BY <1>5 DEF Turns
  <2>. QED  BY <1>5, <2>1, <2>3, <2>4 DEF After
<1>6. RowBy(t, n, rk, b, e) = RowBy(s, n + 1, rk, b, row)
  <2>1. \/ Turns(t, n, rk, b) = {} /\ RowBy(t, n, rk, b, e) = e
        \/ \E m \in Turns(t, n, rk, b) :
             /\ \A k \in Turns(t, n, rk, b) : k <= m
             /\ RowBy(t, n, rk, b, e) = After(t[m], rk, b, e)
    <3>1. t \in Seq(CommandType) /\ n \in Nat
      BY <1>1
    <3>2. PICK u \in Seq(CommandType) : u = t
      BY <3>1
    <3>3. PICK y : y = e
      OBVIOUS
    <3>4. \/ Turns(u, n, rk, b) = {} /\ RowBy(u, n, rk, b, y) = y
          \/ \E m \in Turns(u, n, rk, b) :
               /\ \A k \in Turns(u, n, rk, b) : k <= m
               /\ RowBy(u, n, rk, b, y) = After(u[m], rk, b, y)
      BY <3>1, RowDecided
    <3>. QED  BY <3>2, <3>3, <3>4
  <2>2. CASE Turns(t, n, rk, b) = {}
    BY <1>4, <2>2 DEF t
  <2>. QED  BY <1>5, <2>1, <2>2
<1>. QED  BY <1>6 DEF t

-----------------------------------------------------------------------------
(* Devices.                                                                *)

(* The row bank b of rank d holds for the commands to come. *)
RowIn(d, b) == IF d.bank[b] \in {"OPEN", "PDA"} THEN d.openRow[b] ELSE NoRow

(* A bank that counts as open has its row, and the subarrays of a group    *)
(* are refreshed together.                                                 *)
Steady(d) ==
  /\ \A b \in Banks : d.bank[b] \in {"OPEN", "PDA"} => d.array[b] = "OPEN"
  /\ \A b, c \in Banks :
       GroupOf(b) = GroupOf(c) /\ d.array[b] = "REFRESHING" => d.array[c] = "REFRESHING"

(* That the rank notices to be idle changes no bank. *)
LEMMA IdleKeeps ==
  ASSUME NEW d \in RankType(Rows)
  PROVE  /\ Steady(CloseIfIdle(d)) <=> Steady(d)
         /\ \A b \in Banks : RowIn(CloseIfIdle(d), b) = RowIn(d, b)
<1>1. LET e == CloseIfIdle(d)
      IN e.bank = d.bank /\ e.array = d.array /\ e.openRow = d.openRow
  BY DEF CloseIfIdle, RankType
<1>. QED  BY <1>1 DEF Steady, RowIn

(* The banks of a REFRESH sent to the head of a group. *)
LEMMA RefreshedTogether ==
  ASSUME GroupsCover, NEW j \in Heads
  PROVE  /\ j \in Banks
         /\ RefreshedBanks(j) \subseteq Banks
         /\ \A c \in Banks : c \in RefreshedBanks(j) <=> GroupOf(c) = GroupOf(j)
<1>1. j \in Banks /\ GroupOf(j) \in Groups /\ RefreshedBanks(j) = GroupBanks(GroupOf(j))
  BY HeadFacts
<1>. QED  BY <1>1, GroupFacts, GroupBanksExist

(* A command that the devices take does to the row what After() says. *)
LEMMA IssueRows ==
  ASSUME GroupsCover, NEW d \in RankType(Rows), Steady(d), NEW c \in CommandType,
         IsIssuable(d, c), c.type = "REFRESH" => c.bank \in Heads
  PROVE  /\ Steady(IssueCommand(d, c))
         /\ \A b \in Banks : RowIn(IssueCommand(d, c), b) = After(c, c.rank, b, RowIn(d, b))
<1>0. /\ c.bank \in Banks /\ c.row \in Rows \cup {NoRow}
      /\ d.bank \in [Banks -> {"CLOSED", "OPEN"} \cup PoweredDown]
      /\ d.array \in [Banks -> {"CLOSED", "OPEN", "PRECHARGING", "REFRESHING"}]
      /\ d.openRow \in [Banks -> Rows \cup {NoRow}]
  BY DEF RankType, CommandType
<1>. DEFINE j == c.bank
<1>1. CASE c.type = "ACTIVATE"
  <2>. DEFINE e == Activate(d, j, c.row)
  <2>1. IssueCommand(d, c) = e /\ d.array[j] = "CLOSED"
    BY <1>1 DEF IssueCommand, IsIssuable, CanActivate
  <2>2. /\ e.bank = [d.bank EXCEPT ![j] = "OPEN"] /\ e.array = [d.array EXCEPT ![j] = "OPEN"]
        /\ e.openRow = [d.openRow EXCEPT ![j] = c.row]
    BY DEF Activate, RankType
  <2>. HIDE DEF e, j
  <2>3. Steady(e)
    BY <1>0, <2>1, <2>2 DEF Steady
  <2>4. \A b \in Banks : RowIn(e, b) = IF b = j THEN c.row ELSE RowIn(d, b)
    BY <1>0, <2>2 DEF RowIn
  <2>. QED  BY <1>1, <2>1, <2>3, <2>4 DEF After, Turn, j
<1>2. CASE c.type = "ACCESS"
  BY <1>2 DEF IssueCommand, After, Turn
<1>3. ASSUME NEW e, e.array = d.array \/ e.array = [d.array EXCEPT ![j] = "PRECHARGING"],
             d.array[j] # "REFRESHING",
             e.bank = [d.bank EXCEPT ![j] = "CLOSED"], e.openRow = d.openRow
      PROVE  Steady(e) /\ \A b \in Banks : RowIn(e, b) = IF b = j THEN NoRow ELSE RowIn(d, b)
  <2>. HIDE DEF j
  <2>0. j \in Banks
    BY <1>0 DEF j
  <2>1. Steady(e)
    BY <1>0, <1>3, <2>0 DEF Steady
  <2>2. \A b \in Banks : RowIn(e, b) = IF b = j THEN NoRow ELSE RowIn(d, b)
    BY <1>0, <1>3, <2>0 DEF RowIn
  <2>. QED  BY <2>1, <2>2
<1>4. CASE c.type = "ACCESS_PRE"
  <2>. DEFINE e == AccessPrecharge(d, j)
  <2>1. IssueCommand(d, c) = e /\ d.array[j] = "OPEN"
    BY <1>4 DEF IssueCommand, IsIssuable, CanAccess
  <2>2. e.bank = [d.bank EXCEPT ![j] = "CLOSED"] /\ e.array = d.array /\ e.openRow = d.openRow
    BY DEF AccessPrecharge, RankType
  <2>. HIDE DEF e
  <2>3. Steady(e) /\ \A b \in Banks : RowIn(e, b) = IF b = j THEN NoRow ELSE RowIn(d, b)
    BY <1>3, <2>1, <2>2
  <2>. QED  BY <1>4, <2>1, <2>3 DEF After, Turn
<1>5. ASSUME d.array[j] # "REFRESHING"
      PROVE  /\ Steady(Precharge(d, j))
             /\ \A b \in Banks : RowIn(Precharge(d, j), b) = IF b = j THEN NoRow ELSE RowIn(d, b)
  <2>. DEFINE e == [d EXCEPT !.bank[j] = "CLOSED", !.array[j] = "PRECHARGING"]
  <2>1. e \in RankType(Rows)
    BY <1>0 DEF RankType, PoweredDown
  <2>2. /\ e.bank = [d.bank EXCEPT ![j] = "CLOSED"] /\ e.openRow = d.openRow
        /\ e.array = [d.array EXCEPT ![j] = "PRECHARGING"]
    BY DEF RankType
  <2>3. Precharge(d, j) = CloseIfIdle(e)
    BY DEF Precharge
  <2>. HIDE DEF e
  <2>4. Steady(e) /\ \A b \in Banks : RowIn(e, b) = IF b = j THEN NoRow ELSE RowIn(d, b)
    BY <1>3, <1>5, <2>2
  <2>. QED  BY <2>1, <2>3, <2>4, IdleKeeps
<1>6. CASE c.type = "PRECHARGE"
  <2>1. IssueCommand(d, c) = Precharge(d, j) /\ d.array[j] # "REFRESHING"
    BY <1>6 DEF IssueCommand, IsIssuable, CanPrecharge
  <2>. QED  BY <1>5, <1>6, <2>1 DEF After, Turn
<1>7. CASE c.type = "PRECHARGE_ALL" /\ d.bank[j] = "OPEN"
  <2>1. IssueCommand(d, c) = Precharge(d, j) /\ d.array[j] # "REFRESHING"
    BY <1>7 DEF IssueCommand, IsIssuable, CanPrechargeAll, PrechargeAll
  <2>. QED  BY <1>5, <1>7, <2>1 DEF After, Turn
<1>8. CASE c.type = "PRECHARGE_ALL" /\ d.bank[j] # "OPEN"
  <2>1. IssueCommand(d, c) = CloseIfIdle(d) /\ d.bank[j] = "CLOSED"
    BY <1>8 DEF IssueCommand, IsIssuable, CanPrechargeAll, PrechargeAll
  <2>2. RowIn(d, j) = NoRow
    BY <2>1 DEF RowIn
  <2>3. \A b \in Banks : After(c, c.rank, b, RowIn(d, b)) = RowIn(d, b)
    BY <1>8, <2>2 DEF After, Turn
  <2>. QED  BY <2>1, <2>3, IdleKeeps
<1>9. CASE c.type = "REFRESH"
  <2>. DEFINE e == Refresh(d, j)
  <2>1. /\ IssueCommand(d, c) = e /\ j \in Heads
        /\ \A b \in RefreshedBanks(j) : d.array[b] = "CLOSED"
    BY <1>9 DEF IssueCommand, IsIssuable, CanRefresh
  <2>2. /\ e.bank = d.bank /\ e.openRow = d.openRow
        /\ e.array = [b \in Banks |-> IF b \in RefreshedBanks(j) THEN "REFRESHING" ELSE d.array[b]]
    BY DEF Refresh, RankType
  <2>3. \A b \in Banks : b \in RefreshedBanks(j) <=> GroupOf(b) = GroupOf(j)
    BY <2>1, RefreshedTogether
  <2>. HIDE DEF e, j
  <2>4. \A b \in Banks : RowIn(e, b) = RowIn(d, b)
    BY <2>2 DEF RowIn
  <2>5. ASSUME NEW b \in Banks, e.bank[b] \in {"OPEN", "PDA"}
        PROVE  e.array[b] = "OPEN"
    BY <2>1, <2>2, <2>5 DEF Steady
  <2>6. ASSUME NEW b \in Banks, NEW x \in Banks, GroupOf(b) = GroupOf(x),
               e.array[b] = "REFRESHING"
        PROVE  e.array[x] = "REFRESHING"
    BY <2>2, <2>3, <2>6 DEF Steady
  <2>7. Steady(e)
    BY <2>5, <2>6 DEF Steady
  <2>. QED  BY <1>9, <2>1, <2>4, <2>7 DEF After, Turn
<1>. QED  BY <1>1, <1>2, <1>4, <1>6, <1>7, <1>8, <1>9 DEF CommandType

(* The events of the devices, and powerdown, leave the rows alone. *)
LEMMA EventRows ==
  ASSUME GroupsCover, NEW d \in RankType(Rows), Steady(d), NEW j \in Banks
  PROVE  /\ PrechargePending(d, j) =>
              /\ Steady(StartPrecharge(d, j))
              /\ \A b \in Banks : RowIn(StartPrecharge(d, j), b) = RowIn(d, b)
              /\ Steady(StartPrechargeOfRank(d, j))
              /\ \A b \in Banks : RowIn(StartPrechargeOfRank(d, j), b) = RowIn(d, b)
         /\ d.array[j] = "PRECHARGING" =>
              /\ Steady(EndPrecharge(d, j))
              /\ \A b \in Banks : RowIn(EndPrecharge(d, j), b) = RowIn(d, b)
         /\ d.array[j] = "REFRESHING" /\ j \in Heads =>
              /\ Steady(EndRefresh(d, j))
              /\ \A b \in Banks : RowIn(EndRefresh(d, j), b) = RowIn(d, b)
<1>0. /\ d.bank \in [Banks -> {"CLOSED", "OPEN"} \cup PoweredDown]
      /\ d.array \in [Banks -> {"CLOSED", "OPEN", "PRECHARGING", "REFRESHING"}]
      /\ d.openRow \in [Banks -> Rows \cup {NoRow}]
  BY DEF RankType
<1>1. ASSUME PrechargePending(d, j)
      PROVE  /\ Steady(StartPrecharge(d, j))
             /\ \A b \in Banks : RowIn(StartPrecharge(d, j), b) = RowIn(d, b)
  <2>. DEFINE e == StartPrecharge(d, j)
  <2>1. /\ e.bank = d.bank /\ e.openRow = d.openRow
        /\ e.array = [d.array EXCEPT ![j] = "PRECHARGING"]
    BY DEF StartPrecharge, RankType
  <2>2. d.array[j] = "OPEN" /\ d.bank[j] \notin {"OPEN", "PDA"}
    BY <1>1 DEF PrechargePending
  <2>. HIDE DEF e
  <2>3. Steady(e)
    BY <1>0, <2>1, <2>2 DEF Steady
  <2>4. \A b \in Banks : RowIn(e, b) = RowIn(d, b)
    BY <2>1 DEF RowIn
  <2>. QED  BY <2>3, <2>4 DEF e
<1>2. ASSUME d.array[j] = "PRECHARGING"
      PROVE  /\ Steady(EndPrecharge(d, j))
             /\ \A b \in Banks : RowIn(EndPrecharge(d, j), b) = RowIn(d, b)
  <2>. DEFINE e == EndPrecharge(d, j)
  <2>1. /\ e.bank = d.bank /\ e.openRow = [d.openRow EXCEPT ![j] = NoRow]
        /\ e.array = [d.array EXCEPT ![j] = "CLOSED"]
    BY DEF EndPrecharge, RankType
  <2>2. d.bank[j] \notin {"OPEN", "PDA"}
    BY <1>2 DEF Steady
  <2>. HIDE DEF e
  <2>3. Steady(e)
    BY <1>0, <1>2, <2>1, <2>2 DEF Steady
  <2>4. \A b \in Banks : RowIn(e, b) = RowIn(d, b)
    BY <1>0, <2>1, <2>2 DEF RowIn
  <2>. QED  BY <2>3, <2>4 DEF e
<1>3. ASSUME d.array[j] = "REFRESHING", j \in Heads
      PROVE  /\ Steady(EndRefresh(d, j))
             /\ \A b \in Banks : RowIn(EndRefresh(d, j), b) = RowIn(d, b)
  <2>. DEFINE e == [d EXCEPT
     !.array = [c \in Banks |->
       IF c \in RefreshedBanks(j) THEN "CLOSED" ELSE d.array[c]],
     !.openRow = [c \in Banks |->
       IF c \in RefreshedBanks(j) THEN NoRow ELSE d.openRow[c]]]
  <2>1. e \in RankType(Rows)
    BY <1>0 DEF RankType
  <2>2. /\ e.bank = d.bank
        /\ e.openRow = [c \in Banks |-> IF c \in RefreshedBanks(j) THEN NoRow ELSE d.openRow[c]]
        /\ e.array = [c \in Banks |-> IF c \in RefreshedBanks(j) THEN "CLOSED" ELSE d.array[c]]
    BY DEF RankType
  <2>3. EndRefresh(d, j) = CloseIfIdle(e)
    BY DEF EndRefresh
  <2>4. \A b \in Banks : b \in RefreshedBanks(j) <=> GroupOf(b) = GroupOf(j)
    BY <1>3, RefreshedTogether
  <2>5. \A b \in Banks : b \in RefreshedBanks(j) =>
          d.array[b] = "REFRESHING" /\ d.bank[b] \notin {"OPEN", "PDA"}
    BY <1>3, <2>4 DEF Steady
  <2>. HIDE DEF e
  <2>6. ASSUME NEW b \in Banks, e.bank[b] \in {"OPEN", "PDA"}
        PROVE  e.array[b] = "OPEN"
    BY <2>2, <2>5, <2>6 DEF Steady
  <2>7. ASSUME NEW b \in Banks, NEW x \in Banks, GroupOf(b) = GroupOf(x),
               e.array[b] = "REFRESHING"
        PROVE  e.array[x] = "REFRESHING"
    BY <2>2, <2>4, <2>7 DEF Steady
  <2>8. Steady(e)
    BY <2>6, <2>7 DEF Steady
  <2>9. \A b \in Banks : RowIn(e, b) = RowIn(d, b)
    BY <2>2, <2>5 DEF RowIn
  <2>. QED  BY <2>1, <2>3, <2>8, <2>9, IdleKeeps
<1>4. ASSUME PrechargePending(d, j)
      PROVE  /\ Steady(StartPrechargeOfRank(d, j))
             /\ \A b \in Banks : RowIn(StartPrechargeOfRank(d, j), b) = RowIn(d, b)
  <2>1. PICK e \in RankType(Rows) : e = StartPrecharge(d, j)
    BY RankTypes
  <2>2. StartPrechargeOfRank(d, j) = CloseIfIdle(e)
    BY <2>1 DEF StartPrechargeOfRank
  <2>. QED  BY <1>1, <1>4, <2>1, <2>2, IdleKeeps
<1>. QED  BY <1>1, <1>2, <1>3, <1>4

(* Powerdown keeps the rows, an open one in active powerdown. *)
LEMMA PowerRows ==
  ASSUME NEW d \in RankType(Rows), Steady(d)
  PROVE  /\ CanPowerUp(d) =>
              /\ Steady(PowerUp(d)) /\ \A b \in Banks : RowIn(PowerUp(d), b) = RowIn(d, b)
         /\ \A op \in PoweredDown : CanPowerDown(d, op) =>
              /\ Steady(PowerDown(d, op))
              /\ \A b \in Banks : RowIn(PowerDown(d, op), b) = RowIn(d, b)
<1>1. ASSUME CanPowerUp(d)
      PROVE  Steady(PowerUp(d)) /\ \A b \in Banks : RowIn(PowerUp(d), b) = RowIn(d, b)
  <2>. DEFINE e == PowerUp(d)
  <2>1. /\ e.openRow = d.openRow /\ e.array = d.array
        /\ e.bank = [b \in Banks |-> IF d.bank[b] = "PDA" THEN "OPEN" ELSE "CLOSED"]
    BY DEF PowerUp, RankType
  <2>2. \A b \in Banks : d.bank[b] \in {"PDA", "PDPF"}
    BY <1>1 DEF CanPowerUp, PoweredDown
  <2>. HIDE DEF e
  <2>3. Steady(e)
    BY <2>1 DEF Steady
  <2>4. \A b \in Banks : RowIn(e, b) = RowIn(d, b)
    BY <2>1, <2>2 DEF RowIn
  <2>. QED  BY <2>3, <2>4 DEF e
<1>2. ASSUME NEW op \in PoweredDown, CanPowerDown(d, op)
      PROVE  /\ Steady(PowerDown(d, op))
             /\ \A b \in Banks : RowIn(PowerDown(d, op), b) = RowIn(d, b)
  <2>. DEFINE e == PowerDown(d, op)
  <2>1. /\ e.openRow = d.openRow /\ e.array = d.array
        /\ e.bank = [b \in Banks |-> IF d.bank[b] = "OPEN" THEN "PDA" ELSE "PDPF"]
    BY DEF PowerDown, RankType
  <2>2. \A b \in Banks : d.bank[b] \in {"CLOSED", "OPEN"}
    BY <1>2 DEF CanPowerDown
  <2>. HIDE DEF e
  <2>3. Steady(e)
    BY <2>1 DEF Steady
  <2>4. \A b \in Banks : RowIn(e, b) = RowIn(d, b)
    BY <2>1, <2>2 DEF RowIn
  <2>. QED  BY <2>3, <2>4 DEF e
<1>. QED  BY <1>1, <1>2

-----------------------------------------------------------------------------
(* Commands that find the row they are made for: U are the commands on     *)
(* their way, D the ranks.                                                 *)

RowThen(U, D, q, n, rk, b) == RowBy(U[q], n, rk, b, RowIn(D[rk], b))

RowLast(U, D, rk, b) ==
  LET q == GetCommandQueueId(rk, b) IN RowThen(U, D, q, Len(U[q]) + 1, rk, b)

Suits(c, row) ==
  /\ c.type = "ACTIVATE" => row = NoRow
  /\ c.type \in {"ACCESS", "ACCESS_PRE"} => row = c.row
  /\ c.type \in {"PRECHARGE", "PRECHARGE_ALL"} => row # NoRow

FitsThen(U, D, q, n) ==
  LET c == U[q][n] IN
  /\ q = GetCommandQueueId(c.rank, c.bank)
  /\ Suits(c, RowThen(U, D, q, n, c.rank, c.bank))
  /\ c.type = "REFRESH" => c.bank \in Heads
  /\ c.type = "REFRESH" => \A b \in RefreshedBanks(c.bank) :
       GetCommandQueueId(c.rank, b) = q => RowThen(U, D, q, n, c.rank, b) = NoRow

QueuesFit(U, D) == \A q \in Queues : \A n \in 1 .. Len(U[q]) : FitsThen(U, D, q, n)

(* What is behind a position does not matter to it. *)
LEMMA PushPrefix ==
  ASSUME NEW U \in [Queues -> Seq(CommandType)], NEW D, NEW q \in Queues,
         NEW c \in CommandType, NEW n \in 1 .. Len(U[q]) + 1, NEW rk, NEW b
  PROVE  RowThen(Pushed(U, q, c), D, q, n, rk, b) = RowThen(U, D, q, n, rk, b)
<1>0. PICK row : row = RowIn(D[rk], b)
  OBVIOUS
<1>1. PICK s \in Seq(CommandType) : s = U[q]
  OBVIOUS
<1>2. Pushed(U, q, c)[q] = Append(s, c) /\ Append(s, c) \in Seq(CommandType)
  BY <1>1 DEF Pushed
<1>3. PICK t \in Seq(CommandType) : t = Append(s, c)
  BY <1>2
<1>4. SamePrefix(s, t, n)
  BY <1>1, <1>3, AppendCommand DEF SamePrefix
<1>5. RowBy(s, n, rk, b, row) = RowBy(t, n, rk, b, row)
  BY <1>4, RowPrefix
<1>. QED  BY <1>0, <1>1, <1>2, <1>3, <1>5 DEF RowThen

(* A command joins the queue of its bank. *)
LEMMA PushRows ==
  ASSUME EveryBankHasQueue, NEW U \in [Queues -> Seq(CommandType)], NEW D,
         NEW q \in Queues, NEW c \in CommandType, q = GetCommandQueueId(c.rank, c.bank)
  PROVE  /\ Pushed(U, q, c) \in [Queues -> Seq(CommandType)]
         /\ \A rk \in Ranks, b \in Banks :
              RowLast(Pushed(U, q, c), D, rk, b) = After(c, rk, b, RowLast(U, D, rk, b))
<1>. DEFINE W == Pushed(U, q, c)
<1>1. /\ W[q] = Append(U[q], c) /\ U[q] \in Seq(CommandType)
      /\ \A p \in Queues : p # q => W[p] = U[p]
  BY DEF Pushed
<1>2. /\ Len(W[q]) = Len(U[q]) + 1 /\ Len(U[q]) \in Nat /\ W[q] \in Seq(CommandType)
      /\ \A k \in 1 .. Len(U[q]) : W[q][k] = U[q][k]
      /\ W[q][Len(U[q]) + 1] = c
  BY <1>1, AppendCommand
<1>3. W \in [Queues -> Seq(CommandType)]
  BY <1>1, <1>2 DEF Pushed
<1>. HIDE DEF W
<1>4. ASSUME NEW rk \in Ranks, NEW b \in Banks
      PROVE  RowLast(W, D, rk, b) = After(c, rk, b, RowLast(U, D, rk, b))
  <2>. DEFINE p == GetCommandQueueId(rk, b)
              row == RowIn(D[rk], b)
  <2>1. p \in Queues
    BY QueueExists
  <2>2. CASE p = q
    <3>. DEFINE n == Len(U[q]) + 1
    <3>1. n \in 1 .. Len(W[q]) /\ n \in Nat /\ n <= Len(U[q]) + 1 /\ n <= Len(W[q]) + 1
          /\ n - 1 = Len(U[q])
      BY <1>2
    <3>. HIDE DEF row
    <3>2. RowBy(W[q], n + 1, rk, b, row) = After(c, rk, b, RowBy(W[q], n, rk, b, row))
      <4>1. W[q][n] = c /\ W[q] \in Seq(CommandType)
        BY <1>2
      <4>. HIDE DEF n
      <4>2. RowBy(W[q], n + 1, rk, b, row) = After(W[q][n], rk, b, RowBy(W[q], n, rk, b, row))
        BY <3>1, <4>1, RowNext
      <4>. QED  BY <4>1, <4>2, Zenon
    <3>3. n \in 1 .. Len(U[q]) + 1
      BY <1>2
    <3>. HIDE DEF n
    <3>4. RowThen(W, D, q, n, rk, b) = RowThen(U, D, q, n, rk, b)
      BY <3>3, PushPrefix DEF W
    <3>5. Len(W[q]) + 1 = n + 1 /\ Len(U[q]) + 1 = n
      BY <1>2 DEF n
    <3>. QED  BY <2>2, <3>2, <3>4, <3>5 DEF RowLast, RowThen, row
  <2>3. CASE p # q
    <3>1. ~Turn(c, rk, b)
      BY <2>3 DEF Turn
    <3>2. W[p] = U[p]
      BY <1>1, <2>1, <2>3
    <3>. QED  BY <3>1, <3>2 DEF After, RowLast, RowThen
  <2>. QED  BY <2>2, <2>3
<1>. QED  BY <1>3, <1>4 DEF W

(* A command that suits the row its bank will have fits at the end of its  *)
(* queue.                                                                  *)
LEMMA PushFits ==
  ASSUME EveryBankHasQueue, NEW U \in [Queues -> Seq(CommandType)], NEW D, QueuesFit(U, D),
         NEW q \in Queues, NEW c \in CommandType, q = GetCommandQueueId(c.rank, c.bank),
         Suits(c, RowLast(U, D, c.rank, c.bank)),
         c.type = "REFRESH" => c.bank \in Heads,
         c.type = "REFRESH" =>
           \A b \in RefreshedBanks(c.bank) : RowLast(U, D, c.rank, b) = NoRow
  PROVE  QueuesFit(Pushed(U, q, c), D)
<1>. DEFINE W == Pushed(U, q, c)
<1>1. /\ W[q] = Append(U[q], c) /\ U[q] \in Seq(CommandType)
      /\ \A p \in Queues : p # q => W[p] = U[p]
  BY DEF Pushed
<1>2. /\ Len(W[q]) = Len(U[q]) + 1 /\ Len(U[q]) \in Nat /\ W[q] \in Seq(CommandType)
      /\ \A k \in 1 .. Len(U[q]) : W[q][k] = U[q][k]
      /\ W[q][Len(U[q]) + 1] = c
  BY <1>1, AppendCommand
<1>. HIDE DEF W
<1>3. ASSUME NEW n \in 1 .. Len(W[q]), NEW rk, NEW b
      PROVE  RowThen(W, D, q, n, rk, b) = RowThen(U, D, q, n, rk, b)
  <2>1. n \in 1 .. Len(U[q]) + 1
    BY <1>2
  <2>. QED  BY <2>1, PushPrefix DEF W
<1>4. ASSUME NEW p \in Queues, NEW n \in 1 .. Len(W[p])
      PROVE  FitsThen(W, D, p, n)
  <2>1. CASE p # q
    <3>1. W[p] = U[p]
      BY <1>1, <2>1
    <3>2. FitsThen(U, D, p, n)
      BY <3>1 DEF QueuesFit
    <3>3. \A rk, b : RowThen(W, D, p, n, rk, b) = RowThen(U, D, p, n, rk, b)
      BY <3>1 DEF RowThen
    <3>. QED  BY <3>1, <3>2, <3>3 DEF FitsThen
  <2>2. CASE p = q /\ n # Len(U[q]) + 1
    <3>1. n \in 1 .. Len(U[q]) /\ W[q][n] = U[q][n]
      BY <1>2, <2>2
    <3>2. FitsThen(U, D, q, n)
      BY <3>1 DEF QueuesFit
    <3>. QED  BY <1>3, <2>2, <3>1, <3>2 DEF FitsThen
  <2>3. CASE p = q /\ n = Len(U[q]) + 1
    <3>1. W[q][n] = c
      BY <1>2, <2>3
    <3>2. \A rk, b : GetCommandQueueId(rk, b) = q =>
            RowThen(W, D, q, n, rk, b) = RowLast(U, D, rk, b)
      BY <1>3, <2>3 DEF RowLast
    <3>. QED  BY <2>3, <3>1, <3>2 DEF FitsThen
  <2>. QED  BY <2>1, <2>2, <2>3
<1>. QED  BY <1>4 DEF QueuesFit, W

(* The head of queue q is sent, and the devices do what it says. *)
LEMMA PopRows ==
  ASSUME EveryBankHasQueue, NEW U \in [Queues -> Seq(CommandType)], NEW D, NEW E,
         QueuesFit(U, D), NEW q \in Queues, U[q] # << >>,
         \A rk \in Ranks, b \in Banks :
           RowIn(E[rk], b) = After(Head(U[q]), rk, b, RowIn(D[rk], b))
  PROVE  /\ \A rk \in Ranks, b \in Banks :
              RowLast(Popped(U, q), E, rk, b) = RowLast(U, D, rk, b)
         /\ GroupsCover => QueuesFit(Popped(U, q), E)
<1>. DEFINE W == Popped(U, q)
            c == Head(U[q])
<1>1. /\ W[q] = Tail(U[q]) /\ U[q] \in Seq(CommandType)
      /\ \A p \in Queues : p # q => W[p] = U[p]
  BY DEF Popped
<1>2. /\ Len(W[q]) = Len(U[q]) - 1 /\ Len(U[q]) \in Nat \ {0}
      /\ \A k \in 1 .. Len(U[q]) - 1 : W[q][k] = U[q][k + 1]
      /\ U[q][1] = c /\ c \in CommandType
  BY <1>1, TailOfCommands
<1>3. q = GetCommandQueueId(c.rank, c.bank)
  BY <1>2 DEF QueuesFit, FitsThen
<1>4. \A rk \in Ranks, b \in Banks : RowIn(E[rk], b) = After(c, rk, b, RowIn(D[rk], b))
  OBVIOUS
<1>. HIDE DEF W
<1>5. ASSUME NEW n \in 1 .. Len(U[q]), NEW rk \in Ranks, NEW b \in Banks
      PROVE  RowThen(W, E, q, n, rk, b) = RowThen(U, D, q, n + 1, rk, b)
  <2>. DEFINE row == RowIn(D[rk], b)
  <2>1. RowIn(E[rk], b) = After(c, rk, b, row)
    BY <1>4
  <2>. HIDE DEF row
  <2>2. RowBy(Tail(U[q]), n, rk, b, After(c, rk, b, row)) = RowBy(U[q], n + 1, rk, b, row)
    BY <1>1, RowTail
  <2>. HIDE DEF c
  <2>. QED  BY <1>1, <2>1, <2>2 DEF RowThen, row
<1>6. ASSUME NEW p \in Queues, p # q, NEW n, NEW rk \in Ranks, NEW b \in Banks,
             GetCommandQueueId(rk, b) = p
      PROVE  RowThen(W, E, p, n, rk, b) = RowThen(U, D, p, n, rk, b)
  <2>1. ~Turn(c, rk, b)
    BY <1>3, <1>6 DEF Turn
  <2>2. RowIn(E[rk], b) = RowIn(D[rk], b)
    BY <1>4, <2>1 DEF After
  <2>3. W[p] = U[p]
    BY <1>1, <1>6
  <2>. QED  BY <2>2, <2>3 DEF RowThen
<1>7. ASSUME NEW rk \in Ranks, NEW b \in Banks
      PROVE  RowLast(W, E, rk, b) = RowLast(U, D, rk, b)
  <2>. DEFINE p == GetCommandQueueId(rk, b)
  <2>1. p \in Queues
    BY QueueExists
  <2>2. CASE p = q
    <3>1. Len(U[q]) \in 1 .. Len(U[q]) /\ Len(W[q]) + 1 = Len(U[q])
      BY <1>2
    <3>2. RowThen(W, E, q, Len(U[q]), rk, b) = RowThen(U, D, q, Len(U[q]) + 1, rk, b)
      BY <1>5, <3>1
    <3>. QED  BY <2>2, <3>1, <3>2 DEF RowLast
  <2>3. CASE p # q
    <3>1. W[p] = U[p]
      BY <1>1, <2>1, <2>3
    <3>. QED  BY <1>6, <2>1, <2>3, <3>1 DEF RowLast
  <2>. QED  BY <2>2, <2>3
<1>8. ASSUME GroupsCover, NEW p \in Queues, NEW n \in 1 .. Len(W[p])
      PROVE  FitsThen(W, E, p, n)
  <2>1. CASE p = q
    <3>1. n + 1 \in 1 .. Len(U[q]) /\ W[q][n] = U[q][n + 1] /\ n \in 1 .. Len(U[q])
      BY <1>2, <2>1
    <3>2. FitsThen(U, D, q, n + 1)
      BY <3>1 DEF QueuesFit
    <3>3. U[q][n + 1] \in CommandType
      BY <1>1, <3>1
    <3>4. PICK x \in CommandType : x = U[q][n + 1]
      BY <3>3
    <3>5. /\ q = GetCommandQueueId(x.rank, x.bank)
          /\ Suits(x, RowThen(U, D, q, n + 1, x.rank, x.bank))
          /\ x.type = "REFRESH" => x.bank \in Heads
          /\ x.type = "REFRESH" => \A b \in RefreshedBanks(x.bank) :
               GetCommandQueueId(x.rank, b) = q => RowThen(U, D, q, n + 1, x.rank, b) = NoRow
      BY <3>2, <3>4 DEF FitsThen
    <3>6. x.rank \in Ranks /\ x.bank \in Banks
      BY DEF CommandType
    <3>7. x.type = "REFRESH" => RefreshedBanks(x.bank) \subseteq Banks
      BY <1>8, <3>5, RefreshedTogether
    <3>8. \A b \in Banks : RowThen(W, E, q, n, x.rank, b) = RowThen(U, D, q, n + 1, x.rank, b)
      BY <1>5, <3>1, <3>6, SMTT(60)
    <3>. QED  BY <2>1, <3>1, <3>4, <3>5, <3>6, <3>7, <3>8, ZenonT(60) DEF FitsThen
  <2>2. CASE p # q
    <3>1. n \in 1 .. Len(U[p]) /\ W[p][n] = U[p][n] /\ U[p] \in Seq(CommandType)
      BY <1>1, <2>2
    <3>2. FitsThen(U, D, p, n)
      BY <3>1 DEF QueuesFit
    <3>3. U[p][n] \in CommandType
      BY <3>1
    <3>4. PICK x \in CommandType : x = U[p][n]
      BY <3>3
    <3>5. /\ p = GetCommandQueueId(x.rank, x.bank)
          /\ Suits(x, RowThen(U, D, p, n, x.rank, x.bank))
          /\ x.type = "REFRESH" => x.bank \in Heads
          /\ x.type = "REFRESH" => \A b \in RefreshedBanks(x.bank) :
               GetCommandQueueId(x.rank, b) = p => RowThen(U, D, p, n, x.rank, b) = NoRow
      BY <3>2, <3>4 DEF FitsThen
    <3>6. x.rank \in Ranks /\ x.bank \in Banks
      BY DEF CommandType
    <3>7. x.type = "REFRESH" => RefreshedBanks(x.bank) \subseteq Banks
      BY <1>8, <3>5, RefreshedTogether
    <3>8. \A b \in Banks : GetCommandQueueId(x.rank, b) = p =>
            RowThen(W, E, p, n, x.rank, b) = RowThen(U, D, p, n, x.rank, b)
      BY <1>6, <2>2, <3>6
    <3>. QED  BY <3>1, <3>4, <3>5, <3>6, <3>7, <3>8, ZenonT(60) DEF FitsThen
  <2>. QED  BY <2>1, <2>2, SMTT(60)
<1>. QED  BY <1>7, <1>8 DEF W, QueuesFit

(* The devices change and no row does. *)
LEMMA SameRows ==
  ASSUME GroupsCover, NEW U \in [Queues -> Seq(CommandType)], NEW D, NEW E,
         \A rk \in Ranks, b \in Banks : RowIn(E[rk], b) = RowIn(D[rk], b)
  PROVE  /\ \A rk \in Ranks, b \in Banks : RowLast(U, E, rk, b) = RowLast(U, D, rk, b)
         /\ QueuesFit(U, D) => QueuesFit(U, E)
<1>1. \A rk \in Ranks, b \in Banks : \A q, n :
        RowThen(U, E, q, n, rk, b) = RowThen(U, D, q, n, rk, b)
  BY SMTT(60) DEF RowThen
<1>2. ASSUME QueuesFit(U, D), NEW p \in Queues, NEW n \in 1 .. Len(U[p])
      PROVE  FitsThen(U, E, p, n)
  <2>1. U[p] \in Seq(CommandType)
    OBVIOUS
  <2>2. U[p][n] \in CommandType
    BY <2>1
  <2>3. PICK x \in CommandType : x = U[p][n]
    BY <2>2
  <2>4. /\ p = GetCommandQueueId(x.rank, x.bank)
        /\ Suits(x, RowThen(U, D, p, n, x.rank, x.bank))
        /\ x.type = "REFRESH" => x.bank \in Heads
        /\ x.type = "REFRESH" => \A b \in RefreshedBanks(x.bank) :
             GetCommandQueueId(x.rank, b) = p => RowThen(U, D, p, n, x.rank, b) = NoRow
    BY <1>2, <2>3 DEF FitsThen, QueuesFit
  <2>5. x.rank \in Ranks /\ x.bank \in Banks
    BY DEF CommandType
  <2>6. x.type = "REFRESH" => RefreshedBanks(x.bank) \subseteq Banks
    BY <2>4, RefreshedTogether
  <2>7. \A b \in Banks : RowThen(U, E, p, n, x.rank, b) = RowThen(U, D, p, n, x.rank, b)
    BY <1>1, <2>5
  <2>. QED  BY <2>3, <2>4, <2>5, <2>6, <2>7, ZenonT(60) DEF FitsThen
<1>. QED  BY <1>1, <1>2 DEF RowLast, QueuesFit

-----------------------------------------------------------------------------
(* The controller's picture of the rows.                                   *)

RowTable == [Ranks -> [Banks -> Rows \cup {NoRow}]]

WithRow(R, rk, b, row) == [R EXCEPT ![rk][b] = row]

(* What one assignment to effectiveRow does. *)
LEMMA WithRowFacts ==
  ASSUME NEW R \in RowTable, NEW rk \in Ranks, NEW b \in Banks, NEW row \in Rows \cup {NoRow}
  PROVE  /\ WithRow(R, rk, b, row) \in RowTable
         /\ WithRow(R, rk, b, row)[rk][b] = row
         /\ \A x \in Ranks, y \in Banks : ~(x = rk /\ y = b) =>
              WithRow(R, rk, b, row)[x][y] = R[x][y]
         /\ \A other \in Rows \cup {NoRow} :
              WithRow(WithRow(R, rk, b, other), rk, b, row) = WithRow(R, rk, b, row)
         /\ WithRow(R, rk, b, R[rk][b]) = R
  BY DEF WithRow, RowTable

(* R says what row every bank will hold after the commands of U. *)
Known(U, D, R) == \A rk \in Ranks, b \in Banks : R[rk][b] = RowLast(U, D, rk, b)

Foreseen(U, D, R) ==
  U \in [Queues -> Seq(CommandType)] /\ R \in RowTable /\ QueuesFit(U, D) /\ Known(U, D, R)

(* A command that suits the row its bank will have may join its queue. *)
LEMMA PushForeseen ==
  ASSUME EveryBankHasQueue, NEW U, NEW D, NEW R, Foreseen(U, D, R),
         NEW c \in CommandType, c.type # "REFRESH", Suits(c, R[c.rank][c.bank]),
         NEW row \in Rows \cup {NoRow}, row = After(c, c.rank, c.bank, R[c.rank][c.bank])
  PROVE  Foreseen(Pushed(U, GetCommandQueueId(c.rank, c.bank), c), D,
                  WithRow(R, c.rank, c.bank, row))
<1>. DEFINE q == GetCommandQueueId(c.rank, c.bank)
            W == Pushed(U, q, c)
            S == WithRow(R, c.rank, c.bank, row)
<1>1. /\ U \in [Queues -> Seq(CommandType)] /\ R \in RowTable /\ QueuesFit(U, D)
      /\ Known(U, D, R) /\ c.rank \in Ranks /\ c.bank \in Banks
  BY DEF Foreseen, CommandType
<1>2. q \in Queues /\ R[c.rank][c.bank] = RowLast(U, D, c.rank, c.bank)
  BY <1>1, QueueExists DEF Known
<1>3. QueuesFit(W, D)
  BY <1>1, <1>2, PushFits
<1>4. /\ W \in [Queues -> Seq(CommandType)]
      /\ \A rk \in Ranks, b \in Banks :
           RowLast(W, D, rk, b) = After(c, rk, b, RowLast(U, D, rk, b))
  BY <1>1, <1>2, PushRows
<1>5. /\ S \in RowTable /\ S[c.rank][c.bank] = row
      /\ \A x \in Ranks, y \in Banks : ~(x = c.rank /\ y = c.bank) => S[x][y] = R[x][y]
  BY <1>1, WithRowFacts
<1>. HIDE DEF W, S, q
<1>6. ASSUME NEW rk \in Ranks, NEW b \in Banks
      PROVE  S[rk][b] = RowLast(W, D, rk, b)
  <2>1. RowLast(W, D, rk, b) = After(c, rk, b, R[rk][b])
    BY <1>1, <1>4 DEF Known
  <2>2. CASE rk = c.rank /\ b = c.bank
    BY <1>5, <2>1, <2>2
  <2>3. CASE ~(rk = c.rank /\ b = c.bank)
    BY <1>5, <2>1, <2>3 DEF After, Turn
  <2>. QED  BY <2>2, <2>3
<1>7. Known(W, D, S)
  BY <1>6 DEF Known
<1>8. Foreseen(W, D, S)
  BY <1>3, <1>4, <1>5, <1>7 DEF Foreseen
<1>. QED  BY <1>8 DEF W, S, q

(* Filling an empty queue is pushing the commands one by one. *)
LEMMA PushFilled ==
  ASSUME NEW U \in [Queues -> Seq(CommandType)], NEW q \in Queues, NEW s, NEW c
  PROVE  Pushed(Filled(U, q, s), q, c) = Filled(U, q, Append(s, c))
  BY DEF Filled, Pushed

(* ... for a row hit, *)
LEMMA FilledOne ==
  ASSUME NEW U \in [Queues -> Seq(CommandType)], NEW q \in Queues, U[q] = << >>,
         NEW x \in CommandType
  PROVE  Filled(U, q, <<x>>) = Pushed(U, q, x)
  BY DEF Pushed, Filled

(* for a closed bank, *)
LEMMA FilledTwo ==
  ASSUME NEW U \in [Queues -> Seq(CommandType)], NEW q \in Queues, U[q] = << >>,
         NEW x \in CommandType, NEW y \in CommandType
  PROVE  Filled(U, q, <<x, y>>) = Pushed(Pushed(U, q, x), q, y)
<1>1. Pushed(Filled(U, q, <<x>>), q, y) = Filled(U, q, Append(<<x>>, y))
  BY PushFilled
<1>2. Append(<<x>>, y) = <<x, y>>
  BY AppendTwo
<1>3. Filled(U, q, <<x>>) = Pushed(U, q, x)
  BY FilledOne
<1>. QED  BY <1>1, <1>2, <1>3

(* and for a bank with another row. *)
LEMMA FilledThree ==
  ASSUME NEW U \in [Queues -> Seq(CommandType)], NEW q \in Queues, U[q] = << >>,
         NEW x \in CommandType, NEW y \in CommandType, NEW z \in CommandType
  PROVE  Filled(U, q, <<x, y, z>>) = Pushed(Pushed(Pushed(U, q, x), q, y), q, z)
<1>1. Pushed(Filled(U, q, <<x, y>>), q, z) = Filled(U, q, Append(<<x, y>>, z))
  BY PushFilled
<1>2. Append(<<x, y>>, z) = <<x, y, z>>
  BY AppendThree
<1>3. Filled(U, q, <<x, y>>) = Pushed(Pushed(U, q, x), q, y)
  BY FilledTwo
<1>. QED  BY <1>1, <1>2, <1>3

(* IssueMemoryCommands(): the commands of a request fit, and the row it    *)
(* notes is the one they leave.                                            *)
LEMMA ScheduleForeseen ==
  ASSUME EveryBankHasQueue, TypeInv, RowsMatchFlags, NEW r \in Requests, NEW last \in BOOLEAN,
         Eligible(r), Unsent[QueueOf(r)] = << >>, Foreseen(Unsent, rank, effectiveRow)
  PROVE  Foreseen(Filled(Unsent, QueueOf(r), CommandsFor(r, last)), rank,
                  WithRow(effectiveRow, RankOf(r), BankOf(r), EffectiveRowAfter(r, last)))
<1>. DEFINE rk == RankOf(r)
            b  == BankOf(r)
            q  == QueueOf(r)
            row == Address[r].row
            act == Command("ACTIVATE", rk, b, Address[r].row, NoRequest)
            pre == Command("PRECHARGE", rk, b, effectiveRow[rk][b], NoRequest)
            access == Command("ACCESS", rk, b, Address[r].row, r)
            accessPre == Command("ACCESS_PRE", rk, b, Address[r].row, r)
            final  == IF last THEN accessPre ELSE access
            now == effectiveRow[rk][b]
<1>1. /\ rk \in Ranks /\ b \in Banks /\ row \in Rows /\ row # NoRow
      /\ effectiveRow \in RowTable /\ now \in Rows \cup {NoRow}
      /\ Unsent \in [Queues -> Seq(CommandType)]
  <2>1. rk \in Ranks /\ b \in Banks /\ row \in Rows
    BY AddressFacts
  <2>2. row # NoRow
    BY <2>1, ControllerAssumption
  <2>3. effectiveRow \in RowTable
    BY DEF TypeInv, TypeOK, RowTable
  <2>4. now \in Rows \cup {NoRow}
    BY <2>1, <2>3 DEF RowTable
  <2>. QED  BY <2>1, <2>2, <2>3, <2>4, UnsentType
<1>2. q = GetCommandQueueId(rk, b) /\ q \in Queues
  BY <1>1, QueueExists DEF QueueOf
<1>3. ~Dropped(r)
  BY DEF Eligible, Dropped
<1>4. ASSUME NEW c \in {act, pre, access, accessPre}
      PROVE  c \in CommandType /\ c.rank = rk /\ c.bank = b /\ c.type # "REFRESH"
  BY <1>1 DEF Command, CommandType
<1>5. /\ act.type = "ACTIVATE" /\ act.row = row
      /\ pre.type = "PRECHARGE" /\ access.type = "ACCESS" /\ access.row = row
      /\ accessPre.type = "ACCESS_PRE" /\ accessPre.row = row
  BY DEF Command
<1>6. /\ CommandsFor(r, last) = IF Hit(r) THEN <<final>>
                                ELSE IF ~Active(r) THEN <<act, final>>
                                ELSE <<pre, act, access>>
      /\ EffectiveRowAfter(r, last) =
           IF last /\ (Hit(r) \/ ~Active(r)) THEN NoRow ELSE row
  <2>0. Hit(r) => Active(r)
    BY DEF Hit
  <2>1. CommandsFor(r, last) = IF Hit(r) THEN <<final>>
                               ELSE IF ~Active(r) THEN <<act, final>>
                               ELSE <<pre, act, access>>
    BY <1>3, <2>0 DEF CommandsFor
  <2>2. EffectiveRowAfter(r, last) =
          IF last /\ (Hit(r) \/ ~Active(r)) THEN NoRow ELSE row
    BY <1>3 DEF EffectiveRowAfter
  <2>. QED  BY <2>1, <2>2
<1>7. /\ Hit(r) => now = row
      /\ Active(r) <=> now # NoRow
  BY <1>1 DEF Hit, Active, RowsMatchFlags
<1>. HIDE DEF rk, b, q, row, act, pre, access, accessPre, now
<1>8. ASSUME NEW U, NEW x \in Rows \cup {NoRow},
             Foreseen(U, rank, WithRow(effectiveRow, rk, b, x)),
             NEW c \in {act, pre, access, accessPre}, Suits(c, x),
             NEW y \in Rows \cup {NoRow}, y = After(c, rk, b, x)
      PROVE  Foreseen(Pushed(U, q, c), rank, WithRow(effectiveRow, rk, b, y))
  <2>. DEFINE R == WithRow(effectiveRow, rk, b, x)
  <2>1. R[rk][b] = x /\ WithRow(R, rk, b, y) = WithRow(effectiveRow, rk, b, y)
    BY <1>1, WithRowFacts
  <2>2. c \in CommandType /\ c.rank = rk /\ c.bank = b /\ c.type # "REFRESH"
    BY <1>4
  <2>3. Foreseen(U, rank, R)
    BY <1>8
  <2>. HIDE DEF R
  <2>4. Suits(c, R[c.rank][c.bank]) /\ y = After(c, c.rank, c.bank, R[c.rank][c.bank])
    BY <1>8, <2>1, <2>2
  <2>5. Foreseen(Pushed(U, GetCommandQueueId(c.rank, c.bank), c), rank,
                 WithRow(R, c.rank, c.bank, y))
    BY <2>2, <2>3, <2>4, PushForeseen
  <2>. QED  BY <1>2, <2>1, <2>2, <2>5
<1>9. /\ Turn(act, rk, b) /\ Turn(pre, rk, b) /\ Turn(accessPre, rk, b) /\ ~Turn(access, rk, b)
  BY <1>4, <1>5 DEF Turn
<1>10. \A x : /\ After(act, rk, b, x) = row /\ After(pre, rk, b, x) = NoRow
              /\ After(access, rk, b, x) = x /\ After(accessPre, rk, b, x) = NoRow
  BY <1>5, <1>9 DEF After
<1>11. /\ Suits(act, NoRow) /\ Suits(access, row) /\ Suits(accessPre, row)
       /\ now # NoRow => Suits(pre, now)
  BY <1>5 DEF Suits
<1>12. Foreseen(Unsent, rank, WithRow(effectiveRow, rk, b, now))
  <2>1. WithRow(effectiveRow, rk, b, now) = effectiveRow
    BY <1>1, WithRowFacts DEF now
  <2>. QED  BY <2>1
<1>. DEFINE end == IF last THEN NoRow ELSE row
<1>13. ASSUME NEW U, Foreseen(U, rank, WithRow(effectiveRow, rk, b, row))
       PROVE  Foreseen(Pushed(U, q, final), rank, WithRow(effectiveRow, rk, b, end))
  <2>1. CASE last
    BY <1>1, <1>8, <1>10, <1>11, <1>13, <2>1
  <2>2. CASE ~last
    BY <1>1, <1>8, <1>10, <1>11, <1>13, <2>2
  <2>. QED  BY <2>1, <2>2
<1>14. act \in CommandType /\ pre \in CommandType /\ access \in CommandType /\ final \in CommandType
  BY <1>4
<1>. HIDE DEF final
<1>18. Unsent \in [Queues -> Seq(CommandType)] /\ q \in Queues /\ Unsent[q] = << >>
  BY <1>1, <1>2 DEF q
<1>15. CASE Hit(r)
  <2>1. Foreseen(Unsent, rank, WithRow(effectiveRow, rk, b, row))
    BY <1>7, <1>12, <1>15
  <2>2. Foreseen(Pushed(Unsent, q, final), rank, WithRow(effectiveRow, rk, b, end))
    BY <1>13, <2>1
  <2>3. Filled(Unsent, q, <<final>>) = Pushed(Unsent, q, final)
    BY <1>14, <1>18, FilledOne
  <2>. QED  BY <1>6, <1>15, <2>2, <2>3 DEF q, rk, b, row, final, access, accessPre
<1>16. CASE ~Hit(r) /\ ~Active(r)
  <2>1. Foreseen(Pushed(Unsent, q, act), rank, WithRow(effectiveRow, rk, b, row))
    BY <1>1, <1>7, <1>8, <1>10, <1>11, <1>12, <1>16
  <2>2. Foreseen(Pushed(Pushed(Unsent, q, act), q, final), rank, WithRow(effectiveRow, rk, b, end))
    BY <1>13, <2>1
  <2>3. Filled(Unsent, q, <<act, final>>) = Pushed(Pushed(Unsent, q, act), q, final)
    BY <1>14, <1>18, FilledTwo
  <2>. QED  BY <1>6, <1>16, <2>2, <2>3 DEF q, rk, b, row, act, final, access, accessPre
<1>17. CASE ~Hit(r) /\ Active(r)
  <2>1. Foreseen(Pushed(Unsent, q, pre), rank, WithRow(effectiveRow, rk, b, NoRow))
    BY <1>1, <1>7, <1>8, <1>10, <1>11, <1>12, <1>17
  <2>2. Foreseen(Pushed(Pushed(Unsent, q, pre), q, act), rank, WithRow(effectiveRow, rk, b, row))
    BY <1>1, <1>8, <1>10, <1>11, <2>1
  <2>3. Foreseen(Pushed(Pushed(Pushed(Unsent, q, pre), q, act), q, access), rank,
                 WithRow(effectiveRow, rk, b, row))
    BY <1>1, <1>8, <1>10, <1>11, <2>2
  <2>4. Filled(Unsent, q, <<pre, act, access>>) =
          Pushed(Pushed(Pushed(Unsent, q, pre), q, act), q, access)
    BY <1>14, <1>18, FilledThree
  <2>. QED  BY <1>6, <1>17, <2>3, <2>4 DEF q, rk, b, row, pre, act, access
<1>. QED  BY <1>15, <1>16, <1>17

(* No row is foreseen for a bank whose REFRESH is queued. *)
RefreshFindsNoRow ==
  \A rk \in Ranks, b \in Banks : refreshQueued[rk][b] => effectiveRow[rk][b] = NoRow

(* HandleRefresh() has closed the banks its loop has been at. *)
PrechargedSoFar ==
  pc = "precharge" => \A t \in 0 .. BanksPerRefresh - 1 :
    t < refreshLoop.tmpBank => effectiveRow[refreshLoop.rank][refreshLoop.bank + t] = NoRow

RowInv ==
  /\ Foreseen(Unsent, rank, effectiveRow)
  /\ \A rk \in Ranks : Steady(rank[rk])
  /\ RefreshFindsNoRow
  /\ PrechargedSoFar

(* No row is open and none is foreseen at the start. *)
LEMMA RowInit ==
  ASSUME EveryBankHasQueue
  PROVE  Init => RowInv
<1>. SUFFICES ASSUME Init PROVE RowInv
  OBVIOUS
<1>1. /\ Unsent \in [Queues -> Seq(CommandType)] /\ \A q \in Queues : Unsent[q] = << >>
  BY DEF Init, Unsent
<1>2. \A rk \in Ranks : rank[rk] = NewRank
  BY DEF Init
<1>3. /\ NewRank.bank = [b \in Banks |-> "CLOSED"] /\ NewRank.array = [b \in Banks |-> "CLOSED"]
  BY DEF NewRank
<1>4. \A rk \in Ranks : Steady(rank[rk]) /\ \A b \in Banks : RowIn(rank[rk], b) = NoRow
  BY <1>2, <1>3 DEF Steady, RowIn
<1>5. QueuesFit(Unsent, rank)
  <2>1. \A q \in Queues : 1 .. Len(Unsent[q]) = {}
    BY <1>1
  <2>. QED  BY <2>1 DEF QueuesFit
<1>6. ASSUME NEW rk \in Ranks, NEW b \in Banks
      PROVE  effectiveRow[rk][b] = RowLast(Unsent, rank, rk, b)
  <2>1. PICK q \in Queues : q = GetCommandQueueId(rk, b)
    BY QueueExists
  <2>2. Turns(Unsent[q], Len(Unsent[q]) + 1, rk, b) = {}
    <3>1. Len(Unsent[q]) = 0
      BY <1>1
    <3>. QED  BY <3>1 DEF Turns
  <2>3. RowLast(Unsent, rank, rk, b) = RowIn(rank[rk], b)
    BY <2>1, <2>2 DEF RowLast, RowThen, RowBy
  <2>4. effectiveRow[rk][b] = NoRow
    BY DEF Init
  <2>. QED  BY <1>4, <2>3, <2>4
<1>7. effectiveRow \in RowTable
  BY DEF Init, RowTable
<1>8. Foreseen(Unsent, rank, effectiveRow)
  BY <1>1, <1>5, <1>6, <1>7 DEF Foreseen, Known
<1>9. RefreshFindsNoRow /\ PrechargedSoFar
  BY DEF Init, RefreshFindsNoRow, PrechargedSoFar
<1>. QED  BY <1>4, <1>8, <1>9 DEF RowInv

(* A request is scheduled: its bank waits behind no REFRESH. *)
LEMMA RowSchedule ==
  ASSUME EveryBankHasQueue, TypeInv, RowsMatchFlags, RowInv, Schedule, Candidates # {}
  PROVE  RowInv'
<1>1. UNCHANGED <<rank, refreshQueued>> /\ pc' = "lowpower"
  BY DEF Schedule, refreshVars
<1>2. ASSUME NEW r \in Requests, NEW last \in BOOLEAN, Eligible(r),
             Unsent[QueueOf(r)] = << >>,
             Unsent' = [Unsent EXCEPT ![QueueOf(r)] = CommandsFor(r, last)],
             effectiveRow' = [effectiveRow EXCEPT
                ![RankOf(r)][BankOf(r)] = EffectiveRowAfter(r, last)]
      PROVE  RowInv'
  <2>0. Foreseen(Unsent, rank, effectiveRow)
    BY DEF RowInv
  <2>1. Foreseen(Filled(Unsent, QueueOf(r), CommandsFor(r, last)), rank,
                 WithRow(effectiveRow, RankOf(r), BankOf(r), EffectiveRowAfter(r, last)))
    BY <1>2, <2>0, ScheduleForeseen
  <2>2. /\ Unsent' = Filled(Unsent, QueueOf(r), CommandsFor(r, last))
        /\ effectiveRow' = WithRow(effectiveRow, RankOf(r), BankOf(r), EffectiveRowAfter(r, last))
    BY <1>2 DEF Filled, WithRow
  <2>3. Foreseen(Unsent', rank', effectiveRow')
    BY <1>1, <2>1, <2>2
  <2>4. RefreshFindsNoRow'
    <3>1. effectiveRow \in [Ranks -> [Banks -> Rows \cup {NoRow}]] /\ RefreshFindsNoRow
      BY DEF TypeInv, TypeOK, RowInv
    <3>2. RankOf(r) \in Ranks /\ BankOf(r) \in Banks
      BY AddressFacts
    <3>3. ~refreshQueued[RankOf(r)][BankOf(r)]
      BY <1>2 DEF Eligible
    <3>4. ASSUME NEW rk \in Ranks, NEW b \in Banks, refreshQueued[rk][b]
          PROVE  effectiveRow'[rk][b] = NoRow
      <4>1. ~(rk = RankOf(r) /\ b = BankOf(r)) /\ effectiveRow[rk][b] = NoRow
        BY <3>1, <3>3, <3>4 DEF RefreshFindsNoRow
      <4>. QED  BY <1>2, <3>1, <3>2, <4>1
    <3>. QED  BY <1>1, <3>4 DEF RefreshFindsNoRow
  <2>5. PrechargedSoFar'
    BY <1>1 DEF PrechargedSoFar
  <2>. QED  BY <1>1, <2>3, <2>4, <2>5 DEF RowInv
<1>. QED  BY <1>2, ScheduleView

(* HandleRefresh() closes one bank of the group. *)
LEMMA RowPrecharge ==
  ASSUME GroupsCover, EveryBankHasQueue, TypeInv, RowsMatchFlags, RotationInv, RowInv,
         PrechargeForRefresh
  PROVE  RowInv'
<1>0. /\ UNCHANGED <<rank, refreshQueued, pc>> /\ pc = "precharge"
      /\ refreshLoop' = [refreshLoop EXCEPT !.tmpBank = @ + 1]
      /\ refreshLoop.tmpBank < BanksPerRefresh
      /\ refreshLoop \in [rank : Ranks, bank : Banks, tmpBank : 0 .. BanksPerRefresh]
      /\ effectiveRow \in [Ranks -> [Banks -> Rows \cup {NoRow}]]
  BY DEF PrechargeForRefresh, refreshVars, TypeInv, TypeOK
<1>1. PICK rk \in Ranks, b \in Banks :
           /\ rk = refreshLoop.rank
           /\ b = (refreshLoop.bank + refreshLoop.tmpBank) % BANKS
           /\ \/ /\ activateQueued[rk][b]
                 /\ Unsent' = [Unsent EXCEPT ![GetCommandQueueId(rk, b)] =
                      Append(@, Command("PRECHARGE_ALL", rk, b, NoRow, NoRequest))]
                 /\ activateQueued' = [activateQueued EXCEPT ![rk][b] = FALSE]
                 /\ effectiveRow' = [effectiveRow EXCEPT ![rk][b] = NoRow]
              \/ /\ ~activateQueued[rk][b]
                 /\ UNCHANGED <<Unsent, activateQueued, effectiveRow>>
  BY PrechargeView
<1>2. /\ refreshLoop.tmpBank \in 0 .. BanksPerRefresh - 1
      /\ refreshLoop'.tmpBank = refreshLoop.tmpBank + 1
      /\ refreshLoop'.rank = rk /\ refreshLoop'.bank = refreshLoop.bank
      /\ BanksPerRefresh \in Nat
  BY <1>0, <1>1, ControllerAssumption
<1>3. PICK j \in Heads : j = refreshLoop.bank
  BY <1>0 DEF RotationInv
<1>4. b = j + refreshLoop.tmpBank
  BY <1>1, <1>2, <1>3, HeadFacts
<1>5. \A t \in 0 .. BanksPerRefresh - 1 : j + t \in Banks
  BY <1>3, HeadFacts, GroupBanksExist
<1>6. /\ effectiveRow'[rk][b] = NoRow
      /\ \A x \in Ranks, y \in Banks : effectiveRow[x][y] = NoRow => effectiveRow'[x][y] = NoRow
  <2>1. CASE activateQueued[rk][b] /\ effectiveRow' = [effectiveRow EXCEPT ![rk][b] = NoRow]
    BY <1>0, <2>1
  <2>2. CASE ~activateQueued[rk][b] /\ effectiveRow' = effectiveRow
    BY <2>2 DEF RowsMatchFlags
  <2>. QED  BY <1>1, <2>1, <2>2
<1>7. PrechargedSoFar'
  <2>1. ASSUME NEW t \in 0 .. BanksPerRefresh - 1, t < refreshLoop.tmpBank + 1
        PROVE  effectiveRow'[rk][j + t] = NoRow
    <3>1. CASE t = refreshLoop.tmpBank
      BY <1>4, <1>6, <3>1
    <3>2. CASE t # refreshLoop.tmpBank
      <4>1. t < refreshLoop.tmpBank
        BY <1>2, <2>1, <3>2
      <4>2. effectiveRow[rk][j + t] = NoRow
        BY <1>0, <1>1, <1>3, <4>1 DEF RowInv, PrechargedSoFar
      <4>. QED  BY <1>5, <1>6, <4>2
    <3>. QED  BY <3>1, <3>2
  <2>. QED  BY <1>2, <1>3, <2>1 DEF PrechargedSoFar
<1>8. RefreshFindsNoRow'
  BY <1>0, <1>6, ZenonT(40) DEF RowInv, RefreshFindsNoRow
<1>9. Foreseen(Unsent', rank', effectiveRow')
  <2>0. Foreseen(Unsent, rank, effectiveRow)
    BY DEF RowInv
  <2>1. CASE UNCHANGED <<Unsent, effectiveRow>>
    BY <1>0, <2>0, <2>1
  <2>2. CASE /\ activateQueued[rk][b]
             /\ Unsent' = [Unsent EXCEPT ![GetCommandQueueId(rk, b)] =
                  Append(@, Command("PRECHARGE_ALL", rk, b, NoRow, NoRequest))]
             /\ effectiveRow' = [effectiveRow EXCEPT ![rk][b] = NoRow]
    <3>1. PICK c : c = Command("PRECHARGE_ALL", rk, b, NoRow, NoRequest)
      OBVIOUS
    <3>2. /\ c \in CommandType /\ c.rank = rk /\ c.bank = b /\ c.type = "PRECHARGE_ALL"
      BY <3>1 DEF Command, CommandType
    <3>3. effectiveRow[rk][b] # NoRow
      BY <2>2 DEF RowsMatchFlags
    <3>4. Suits(c, effectiveRow[c.rank][c.bank]) /\ c.type # "REFRESH" /\ c \in CommandType
      BY <3>2, <3>3 DEF Suits
    <3>5. PICK row \in Rows \cup {NoRow} : row = NoRow
      OBVIOUS
    <3>6. row = After(c, c.rank, c.bank, effectiveRow[c.rank][c.bank])
      BY <3>2, <3>5 DEF After, Turn
    <3>7. Foreseen(Pushed(Unsent, GetCommandQueueId(c.rank, c.bank), c), rank,
                   WithRow(effectiveRow, c.rank, c.bank, row))
      BY <2>0, <3>4, <3>6, PushForeseen
    <3>8. /\ Unsent' = Pushed(Unsent, GetCommandQueueId(c.rank, c.bank), c)
          /\ effectiveRow' = WithRow(effectiveRow, c.rank, c.bank, row)
      BY <2>2, <3>1, <3>2, <3>5 DEF Pushed, WithRow
    <3>. QED  BY <1>0, <3>7, <3>8
  <2>. QED  BY <1>1, <2>1, <2>2
<1>10. \A x \in Ranks : Steady(rank'[x])
  BY <1>0 DEF RowInv
<1>. QED  BY <1>7, <1>8, <1>9, <1>10 DEF RowInv

(* The REFRESH is queued behind the precharges of its group. *)
LEMMA RowRefresh ==
  ASSUME GroupsCover, EveryBankHasQueue, TypeInv, RotationInv, RowInv, QueueRefresh
  PROVE  RowInv'
<1>0. /\ UNCHANGED <<rank, effectiveRow>> /\ pc = "precharge" /\ pc' = "cleanup"
      /\ refreshLoop.tmpBank = BanksPerRefresh /\ BanksPerRefresh \in Nat
      /\ refreshQueued \in [Ranks -> [Banks -> BOOLEAN]]
  BY ControllerAssumption DEF QueueRefresh, pageVars, TypeInv, TypeOK
<1>1. PICK rk \in Ranks, j \in Banks :
           /\ rk = refreshLoop.rank /\ j = refreshLoop.bank
           /\ GetCommandQueueId(rk, j) \in Queues
           /\ Unsent' = [Unsent EXCEPT ![GetCommandQueueId(rk, j)] =
                Append(@, Command("REFRESH", rk, j, NoRow, NoRequest))]
           /\ refreshQueued' = [refreshQueued EXCEPT ![rk] =
                [b \in Banks |-> b \in RefreshTargets(j) \/ @[b]]]
  BY RefreshView
<1>2. j \in Heads
  BY <1>0, <1>1 DEF RotationInv
<1>3. \A b \in RefreshedBanks(j) : effectiveRow[rk][b] = NoRow
  <2>. SUFFICES ASSUME NEW b \in RefreshedBanks(j) PROVE effectiveRow[rk][b] = NoRow
    OBVIOUS
  <2>1. j \in Int
    BY <1>1, ControllerAssumption DEF Banks
  <2>2. PICK t \in 0 .. BanksPerRefresh - 1 : t = b - j
    BY <1>0, <2>1 DEF RefreshedBanks
  <2>3. b = j + t /\ t < refreshLoop.tmpBank
    BY <1>0, <2>1, <2>2 DEF RefreshedBanks
  <2>. QED  BY <1>0, <1>1, <2>3 DEF RowInv, PrechargedSoFar
<1>4. RefreshTargets(j) = RefreshedBanks(j) /\ RefreshedBanks(j) \subseteq Banks
  BY <1>2, HeadFacts, RefreshedTogether
<1>5. RefreshFindsNoRow'
  <2>1. ASSUME NEW x \in Ranks, NEW b \in Banks, refreshQueued'[x][b]
        PROVE  effectiveRow[x][b] = NoRow
    <3>1. refreshQueued[x][b] \/ (x = rk /\ b \in RefreshTargets(j))
      BY <1>0, <1>1, <2>1
    <3>. QED  BY <1>3, <1>4, <3>1 DEF RowInv, RefreshFindsNoRow
  <2>. QED  BY <1>0, <2>1 DEF RefreshFindsNoRow
<1>6. PICK c : c = Command("REFRESH", rk, j, NoRow, NoRequest)
  OBVIOUS
<1>7. c \in CommandType /\ c.rank = rk /\ c.bank = j /\ c.type = "REFRESH"
  BY <1>6 DEF Command, CommandType
<1>8. PICK q \in Queues : q = GetCommandQueueId(c.rank, c.bank)
  BY <1>1, <1>7
<1>9. Unsent' = Pushed(Unsent, q, c)
  BY <1>1, <1>6, <1>7, <1>8 DEF Pushed
<1>10. /\ Unsent \in [Queues -> Seq(CommandType)] /\ QueuesFit(Unsent, rank)
       /\ effectiveRow \in RowTable /\ Known(Unsent, rank, effectiveRow)
  BY DEF RowInv, Foreseen
<1>11. /\ Suits(c, RowLast(Unsent, rank, c.rank, c.bank)) /\ c.bank \in Heads
       /\ \A b \in RefreshedBanks(c.bank) : RowLast(Unsent, rank, c.rank, b) = NoRow
  <2>1. Suits(c, RowLast(Unsent, rank, c.rank, c.bank))
    BY <1>7 DEF Suits
  <2>2. \A b \in RefreshedBanks(j) : RowLast(Unsent, rank, rk, b) = NoRow
    BY <1>3, <1>4, <1>10 DEF Known
  <2>. QED  BY <1>2, <1>7, <2>1, <2>2
<1>12. QueuesFit(Pushed(Unsent, q, c), rank)
  BY <1>7, <1>8, <1>10, <1>11, PushFits
<1>13. /\ Pushed(Unsent, q, c) \in [Queues -> Seq(CommandType)]
       /\ \A x \in Ranks, b \in Banks :
              RowLast(Pushed(Unsent, q, c), rank, x, b) = After(c, x, b, RowLast(Unsent, rank, x, b))
  BY <1>7, <1>8, <1>10, PushRows, ZenonT(60)
<1>14. Known(Pushed(Unsent, q, c), rank, effectiveRow)
  BY <1>7, <1>10, <1>13 DEF Known, After, Turn
<1>15. Foreseen(Unsent', rank', effectiveRow')
  BY <1>0, <1>9, <1>10, <1>12, <1>13, <1>14 DEF Foreseen
<1>16. PrechargedSoFar'
  BY <1>0 DEF PrechargedSoFar
<1>17. \A x \in Ranks : Steady(rank'[x])
  BY <1>0 DEF RowInv
<1>. QED  BY <1>5, <1>15, <1>16, <1>17 DEF RowInv

(* The head of a queue is sent to its rank. *)
LEMMA RowIssue ==
  ASSUME GroupsCover, EveryBankHasQueue, TypeInv, RowInv, NEW ready \in SUBSET Queues,
         CycleCommandQueues(ready)
  PROVE  RowInv'
<1>0. /\ UNCHANGED effectiveRow /\ pc' = "cleanup"
      /\ rank \in [Ranks -> RankType(Rows)] /\ refreshQueued \in [Ranks -> [Banks -> BOOLEAN]]
  BY DEF CycleCommandQueues, pageVars, TypeInv, TypeOK
<1>1. PrechargedSoFar'
  BY <1>0 DEF PrechargedSoFar
<1>2. CASE UNCHANGED <<rank, inService, refreshQueued, Unsent>>
  BY <1>0, <1>1, <1>2 DEF RowInv, RefreshFindsNoRow
<1>3. ASSUME NEW q \in Queues, NEW c \in CommandType,
             Unsent[q] # << >>, c = Head(Unsent[q]), IsIssuable(rank[c.rank], c),
             Unsent' = [Unsent EXCEPT ![q] = Tail(@)],
             rank' = [rank EXCEPT ![c.rank] = IssueCommand(@, c)],
             refreshQueued' = ResetRefreshQueued(c)
      PROVE  RowInv'
  <2>1. /\ Unsent \in [Queues -> Seq(CommandType)] /\ QueuesFit(Unsent, rank)
        /\ effectiveRow \in RowTable /\ Known(Unsent, rank, effectiveRow)
    BY DEF RowInv, Foreseen
  <2>2. c.rank \in Ranks /\ c.bank \in Banks
    BY DEF CommandType
  <2>3. c.type = "REFRESH" => c.bank \in Heads
    <3>1. Unsent[q] \in Seq(CommandType)
      BY <2>1
    <3>2. 1 \in 1 .. Len(Unsent[q]) /\ Unsent[q][1] = c
      BY <1>3, <3>1, TailOfCommands
    <3>3. FitsThen(Unsent, rank, q, 1)
      BY <2>1, <3>2 DEF QueuesFit
    <3>. QED  BY <3>2, <3>3 DEF FitsThen
  <2>4. PICK d \in RankType(Rows) : d = rank[c.rank]
    BY <1>0, <2>2
  <2>5. Steady(d) /\ IsIssuable(d, c)
    BY <1>3, <2>2, <2>4 DEF RowInv
  <2>6. /\ Steady(IssueCommand(d, c))
        /\ \A b \in Banks : RowIn(IssueCommand(d, c), b) = After(c, c.rank, b, RowIn(d, b))
    BY <2>3, <2>5, IssueRows
  <2>7. /\ rank'[c.rank] = IssueCommand(d, c)
        /\ \A rk \in Ranks : rk # c.rank => rank'[rk] = rank[rk]
    BY <1>0, <1>3, <2>2, <2>4
  <2>8. \A rk \in Ranks : Steady(rank'[rk])
    BY <2>6, <2>7 DEF RowInv
  <2>9. ASSUME NEW rk \in Ranks, NEW b \in Banks
        PROVE  RowIn(rank'[rk], b) = After(Head(Unsent[q]), rk, b, RowIn(rank[rk], b))
    <3>1. CASE rk = c.rank
      BY <1>3, <2>4, <2>6, <2>7, <3>1
    <3>2. CASE rk # c.rank
      <4>1. rank'[rk] = rank[rk] /\ ~Turn(c, rk, b)
        BY <2>7, <3>2 DEF Turn
      <4>. QED  BY <1>3, <4>1 DEF After
    <3>. QED  BY <3>1, <3>2
  <2>10. /\ \A rk \in Ranks, b \in Banks :
              RowLast(Popped(Unsent, q), rank', rk, b) = RowLast(Unsent, rank, rk, b)
         /\ QueuesFit(Popped(Unsent, q), rank')
    <3>1. PICK E : E = rank'
      OBVIOUS
    <3>2. \A rk \in Ranks, b \in Banks :
            RowIn(E[rk], b) = After(Head(Unsent[q]), rk, b, RowIn(rank[rk], b))
      BY <2>9, <3>1
    <3>3. Unsent \in [Queues -> Seq(CommandType)] /\ QueuesFit(Unsent, rank) /\ Unsent[q] # << >>
      BY <1>3, <2>1
    <3>4. /\ \A rk \in Ranks, b \in Banks :
               RowLast(Popped(Unsent, q), E, rk, b) = RowLast(Unsent, rank, rk, b)
          /\ QueuesFit(Popped(Unsent, q), E)
      BY <3>2, <3>3, PopRows, ZenonT(60)
    <3>. QED  BY <3>1, <3>4
  <2>11. Unsent' = Popped(Unsent, q)
    BY <1>3 DEF Popped
  <2>12. Popped(Unsent, q) \in [Queues -> Seq(CommandType)]
    <3>1. Tail(Unsent[q]) \in Seq(CommandType)
      BY <1>3, <2>1, TailOfCommands
    <3>. QED  BY <2>1, <3>1 DEF Popped
  <2>13. Known(Popped(Unsent, q), rank', effectiveRow)
    BY <2>1, <2>10 DEF Known
  <2>14. Foreseen(Unsent', rank', effectiveRow')
    BY <1>0, <2>1, <2>10, <2>11, <2>12, <2>13 DEF Foreseen
  <2>15. \A rk \in Ranks, b \in Banks : refreshQueued'[rk][b] => refreshQueued[rk][b]
    BY <1>0, <1>3, <2>2 DEF ResetRefreshQueued
  <2>16. RefreshFindsNoRow'
    BY <1>0, <2>15 DEF RowInv, RefreshFindsNoRow
  <2>. QED  BY <1>1, <2>8, <2>14, <2>16 DEF RowInv
<1>. QED  BY <1>2, <1>3, IssueView

(* The devices do something that concerns no row. *)
LEMMA RowDevices ==
  ASSUME GroupsCover, RowInv, Unsent' = Unsent,
         UNCHANGED <<effectiveRow, refreshQueued>>, pc' # "precharge",
         \A rk \in Ranks : Steady(rank'[rk]) /\ \A b \in Banks : RowIn(rank'[rk], b) = RowIn(rank[rk], b)
  PROVE  RowInv'
<1>1. /\ Unsent \in [Queues -> Seq(CommandType)] /\ QueuesFit(Unsent, rank)
      /\ effectiveRow \in RowTable /\ Known(Unsent, rank, effectiveRow)
  BY DEF RowInv, Foreseen
<1>2. PICK E : E = rank'
  OBVIOUS
<1>3. \A rk \in Ranks, b \in Banks : RowIn(E[rk], b) = RowIn(rank[rk], b)
  BY <1>2
<1>4. /\ \A rk \in Ranks, b \in Banks : RowLast(Unsent, E, rk, b) = RowLast(Unsent, rank, rk, b)
      /\ QueuesFit(Unsent, rank) => QueuesFit(Unsent, E)
  BY <1>1, <1>3, SameRows
<1>5. Foreseen(Unsent, E, effectiveRow)
  BY <1>1, <1>4 DEF Foreseen, Known
<1>6. Foreseen(Unsent', rank', effectiveRow')
  BY <1>2, <1>5
<1>7. RefreshFindsNoRow' /\ PrechargedSoFar'
  BY DEF RowInv, RefreshFindsNoRow, PrechargedSoFar
<1>. QED  BY <1>6, <1>7 DEF RowInv

(* The events of the devices change no row. *)
LEMMA RowEvent ==
  ASSUME GroupsCover, TypeInv, RowInv, NEW rk \in Ranks, NEW j \in Banks, DeviceEvent(rk, j)
  PROVE  RowInv'
<1>1. /\ UNCHANGED <<effectiveRow, refreshQueued>> /\ pc' # "precharge" /\ Unsent' = Unsent
      /\ rank \in [Ranks -> RankType(Rows)]
  BY OtherView DEF DeviceEvent, pageVars, refreshVars, TypeInv, TypeOK
<1>2. PICK d \in RankType(Rows) : d = rank[rk]
  BY <1>1
<1>3. Steady(d)
  BY <1>2 DEF RowInv
<1>4. ASSUME NEW e, rank' = [rank EXCEPT ![rk] = e], Steady(e),
             \A b \in Banks : RowIn(e, b) = RowIn(d, b)
      PROVE  RowInv'
  <2>1. ASSUME NEW x \in Ranks
        PROVE  Steady(rank'[x]) /\ \A b \in Banks : RowIn(rank'[x], b) = RowIn(rank[x], b)
    <3>1. CASE x = rk
      BY <1>1, <1>2, <1>4, <3>1
    <3>2. CASE x # rk
      <4>1. rank'[x] = rank[x]
        BY <1>1, <1>4, <3>2
      <4>. QED  BY <4>1 DEF RowInv
    <3>. QED  BY <3>1, <3>2
  <2>. QED  BY <1>1, <2>1, RowDevices
<1>5. CASE PrechargePending(d, j) /\ rank' = [rank EXCEPT ![rk] = StartPrecharge(d, j)]
  BY <1>3, <1>4, <1>5, EventRows
<1>6. CASE d.array[j] = "PRECHARGING" /\ rank' = [rank EXCEPT ![rk] = EndPrecharge(d, j)]
  BY <1>3, <1>4, <1>6, EventRows
<1>7. CASE /\ d.array[j] = "REFRESHING" /\ j % BanksPerRefresh = 0
           /\ rank' = [rank EXCEPT ![rk] = EndRefresh(d, j)]
  <2>1. j \in Heads
    <3>1. GroupOf(j) \in Groups
      BY GroupFacts
    <3>2. j \in Nat /\ BanksPerRefresh \in Nat \ {0} /\ j % BanksPerRefresh = 0
      BY <1>7, ControllerAssumption DEF Banks
    <3>3. j = GroupOf(j) * BanksPerRefresh
      BY <3>2 DEF GroupOf
    <3>. QED  BY <3>1, <3>3 DEF Heads
  <2>. QED  BY <1>3, <1>4, <1>7, <2>1, EventRows
<1>8. CASE PrechargePending(d, j) /\ rank' = [rank EXCEPT ![rk] = StartPrechargeOfRank(d, j)]
  BY <1>3, <1>4, <1>8, EventRows
<1>. QED  BY <1>1, <1>2, <1>5, <1>6, <1>7, <1>8 DEF DeviceEvent

(* HandleLowPower() changes no row. *)
LEMMA RowPower ==
  ASSUME GroupsCover, TypeInv, RowInv, NEW ready \in SUBSET Ranks, HandleLowPower(ready)
  PROVE  RowInv'
<1>1. /\ UNCHANGED <<effectiveRow, refreshQueued>> /\ pc' # "precharge" /\ Unsent' = Unsent
      /\ rank \in [Ranks -> RankType(Rows)]
  BY OtherView DEF HandleLowPower, pageVars, refreshVars, TypeInv, TypeOK
<1>2. ASSUME NEW x \in Ranks
      PROVE  Steady(rank'[x]) /\ \A b \in Banks : RowIn(rank'[x], b) = RowIn(rank[x], b)
  <2>1. PICK d \in RankType(Rows) : d = rank[x]
    BY <1>1
  <2>2. Steady(d)
    BY <2>1 DEF RowInv
  <2>3. CASE rank'[x] = d
    BY <2>1, <2>2, <2>3
  <2>4. CASE CanPowerUp(d) /\ rank'[x] = PowerUp(d)
    BY <2>1, <2>2, <2>4, PowerRows
  <2>5. CASE PowerDownOp(x) # "none" /\ rank'[x] = PowerDown(d, PowerDownOp(x))
    <3>1. PICK op \in PoweredDown : op = PowerDownOp(x) /\ CanPowerDown(d, op)
      BY <2>1, <2>5 DEF PowerDownOp, PoweredDown
    <3>. QED  BY <2>1, <2>2, <2>5, <3>1, PowerRows
  <2>6. \/ rank'[x] = d
        \/ CanPowerUp(d) /\ rank'[x] = PowerUp(d)
        \/ PowerDownOp(x) # "none" /\ rank'[x] = PowerDown(d, PowerDownOp(x))
    BY <1>1, <2>1 DEF HandleLowPower, WantsPowerUp, WantsPowerDown
  <2>. QED  BY <2>3, <2>4, <2>5, <2>6
<1>. QED  BY <1>1, <1>2, RowDevices

(* Every step of the controller keeps RowInv. *)
LEMMA RowStep ==
  ASSUME GroupsCover, EveryBankHasQueue, TypeInv, RowsMatchFlags, RotationInv, RowInv,
         [Next]_vars
  PROVE  RowInv'
<1>0. ASSUME Unsent' = Unsent, UNCHANGED <<rank, effectiveRow, refreshQueued>>, PrechargedSoFar'
      PROVE  RowInv'
  BY <1>0 DEF RowInv, RefreshFindsNoRow
<1>1. CASE \/ \E r \in Requests : Arrive(r) \/ RequestComplete(r)
           \/ \E rk \in Ranks, g \in Groups : RefreshCallback(rk, g)
           \/ Schedule /\ Candidates = {}
  <2>1. Unsent' = Unsent
    BY <1>1, OtherView
  <2>2. UNCHANGED <<rank, effectiveRow, refreshQueued>> /\ pc' # "precharge"
    BY <1>1 DEF Arrive, RequestComplete, RefreshCallback, Schedule, pageVars, refreshVars
  <2>. QED  BY <1>0, <2>1, <2>2 DEF PrechargedSoFar
<1>2. CASE UNCHANGED vars
  <2>1. Unsent' = Unsent
    BY <1>2, OtherView
  <2>. QED  BY <1>0, <1>2, <2>1 DEF vars, RowInv, PrechargedSoFar
<1>3. CASE FindRefresh
  <2>1. Unsent' = Unsent
    BY <1>3, OtherView
  <2>2. UNCHANGED <<rank, effectiveRow, refreshQueued>>
    BY <1>3 DEF FindRefresh, pageVars, refreshVars
  <2>3. pc' = "precharge" => refreshLoop'.tmpBank = 0
    BY <1>3 DEF FindRefresh
  <2>4. PrechargedSoFar'
    BY <2>3 DEF PrechargedSoFar
  <2>. QED  BY <1>0, <2>1, <2>2, <2>4
<1>4. CASE CleanupCallback
  <2>1. UNCHANGED <<rank, effectiveRow, refreshQueued>> /\ pc' # "precharge"
    BY <1>4 DEF CleanupCallback, pageVars, refreshVars
  <2>. QED  BY <1>0, <1>4, <2>1, CleanupView DEF PrechargedSoFar
<1>5. CASE (Schedule /\ Candidates # {}) \/ PrechargeForRefresh \/ QueueRefresh
  BY <1>5, RowSchedule, RowPrecharge, RowRefresh
<1>6. CASE \/ \E ready \in SUBSET Queues : CycleCommandQueues(ready)
           \/ \E ready \in SUBSET Ranks : HandleLowPower(ready)
           \/ \E rk \in Ranks, b \in Banks : DeviceEvent(rk, b)
  BY <1>6, RowIssue, RowPower, RowEvent
<1>. QED  BY <1>1, <1>2, <1>3, <1>4, <1>5, <1>6 DEF Next

-----------------------------------------------------------------------------
(* What the properties of FRFCFS say of the command queues is what RowInv  *)
(* says of Unsent.                                                         *)

(* RowBefore() is RowThen(), the positions moved by what is issued. *)
LEMMA RowBeforeIs ==
  ASSUME TypeInv, NEW q \in Queues, NEW o \in {0, 1},
         /\ Len(Unsent[q]) = Len(commandQueues[q]) - o
         /\ Len(commandQueues[q]) \in Nat /\ Len(Unsent[q]) \in Nat
         /\ Unissued(q) = o + 1 .. Len(commandQueues[q])
         /\ \A k \in 1 .. Len(Unsent[q]) : commandQueues[q][k + o] = Unsent[q][k],
         NEW n \in Nat, NEW rk \in Ranks, NEW b \in Banks
  PROVE  RowBefore(q, n + o, rk, b) = RowThen(Unsent, rank, q, n, rk, b)
<1>. DEFINE B == RowCommands(q, n + o, rk, b)
            T == Turns(Unsent[q], n, rk, b)
<1>1. o \in Int /\ o >= 0
  OBVIOUS
<1>2. ASSUME NEW k \in T
      PROVE  k \in Nat /\ k + o \in B
  <2>1. k \in 1 .. Len(Unsent[q]) /\ k < n /\ Turn(Unsent[q][k], rk, b)
    BY DEF Turns
  <2>2. k + o \in Unissued(q) /\ k + o < n + o /\ commandQueues[q][k + o] = Unsent[q][k]
    BY <1>1, <2>1
  <2>3. Turn(commandQueues[q][k + o], rk, b)
    BY <2>1, <2>2, Zenon
  <2>4. k + o \in B
    BY <2>2, <2>3, Zenon DEF RowCommands, Turn
  <2>. QED  BY <2>1, <2>4
<1>3. ASSUME NEW k \in B
      PROVE  k \in Nat /\ k - o \in T
  <2>1. /\ k \in Unissued(q) /\ k < n + o /\ Turn(commandQueues[q][k], rk, b)
    BY DEF RowCommands, Turn
  <2>2. k - o \in 1 .. Len(Unsent[q]) /\ k - o < n /\ k - o + o = k
    BY <1>1, <2>1
  <2>3. commandQueues[q][k] = Unsent[q][k - o]
    BY <2>2
  <2>. QED  BY <1>1, <2>1, <2>2, <2>3 DEF Turns
<1>4. CASE T = {}
  <2>1. B = {}
    BY <1>3, <1>4
  <2>. QED  BY <1>4, <2>1 DEF RowBefore, RowThen, RowBy, RowIn
<1>5. CASE T # {}
  <2>1. T \subseteq 0 .. Len(Unsent[q])
    BY DEF Turns
  <2>2. PICK m \in T : m = Max(T) /\ \A y \in T : y <= m
    BY <1>5, <2>1, MaxFacts
  <2>3. m \in 1 .. Len(Unsent[q]) /\ Turn(Unsent[q][m], rk, b)
    BY DEF Turns
  <2>4. B \subseteq 0 .. Len(commandQueues[q])
    BY <1>1 DEF RowCommands
  <2>5. \A y \in B : y <= m + o
    <3>. SUFFICES ASSUME NEW y \in B PROVE y <= m + o
      OBVIOUS
    <3>1. y \in Nat /\ y - o \in T /\ y - o <= m
      BY <1>3, <2>2
    <3>. QED  BY <1>1, <2>3, <3>1
  <2>6. m + o \in B
    BY <1>2
  <2>. HIDE DEF B, T
  <2>7. Max(B) = m + o
    <3>1. PICK w \in B : w = m + o
      BY <2>6
    <3>2. B \subseteq Nat /\ \A y \in B : y <= w
      BY <2>4, <2>5, <3>1
    <3>3. Max(B) = w
      BY <3>2, MaxIs
    <3>. QED  BY <3>1, <3>3
  <2>8. commandQueues[q][m + o] = Unsent[q][m] /\ B # {}
    BY <2>3, <2>6
  <2>9. RowBefore(q, n + o, rk, b) =
          IF Unsent[q][m].type = "ACTIVATE" THEN Unsent[q][m].row ELSE NoRow
    BY <2>7, <2>8 DEF RowBefore, B
  <2>10. RowThen(Unsent, rank, q, n, rk, b) =
           IF Unsent[q][m].type = "ACTIVATE" THEN Unsent[q][m].row ELSE NoRow
    BY <1>5, <2>2, <2>3 DEF RowThen, RowBy, After, T
  <2>. QED  BY <2>9, <2>10
<1>. QED  BY <1>4, <1>5

(* RowAtEnd() is RowLast(). *)
LEMMA RowAtEndIs ==
  ASSUME EveryBankHasQueue, TypeInv, NEW rk \in Ranks, NEW b \in Banks
  PROVE  RowAtEnd(rk, b) = RowLast(Unsent, rank, rk, b)
<1>1. PICK q \in Queues : q = GetCommandQueueId(rk, b)
  BY QueueExists
<1>2. PICK o \in {0, 1} :
           /\ Len(Unsent[q]) = Len(commandQueues[q]) - o
           /\ Len(commandQueues[q]) \in Nat /\ Len(Unsent[q]) \in Nat
           /\ Unissued(q) = o + 1 .. Len(commandQueues[q])
           /\ \A k \in 1 .. Len(Unsent[q]) : commandQueues[q][k + o] = Unsent[q][k]
  BY UnissuedIs
<1>3. PICK n \in Nat : n = Len(Unsent[q]) + 1
  <2>1. Len(Unsent[q]) \in Nat
    BY <1>2
  <2>2. Len(Unsent[q]) + 1 \in Nat
    BY <2>1
  <2>. QED  BY <2>2
<1>4. Len(commandQueues[q]) + 1 = n + o
  BY <1>2, <1>3
<1>5. RowBefore(q, n + o, rk, b) = RowThen(Unsent, rank, q, n, rk, b)
  BY <1>2, RowBeforeIs
<1>. QED  BY <1>1, <1>3, <1>4, <1>5 DEF RowAtEnd, RowLast

(* RowInv holds always. *)
THEOREM ControllerRows ==
  ASSUME GroupsCover, EveryBankHasQueue
  PROVE  Spec => []RowInv
<1>1. TypeInv /\ PageInv /\ RotationInv /\ RowInv /\ [Next]_vars => RowInv'
  BY RowStep DEF PageInv
<1>2. Init => RowInv
  BY RowInit
<1>. QED  BY <1>1, <1>2, ControllerTypeInv, ControllerPages, ControllerRotation, PTL DEF Spec

(* The row the controller believes a bank to hold is the one the devices   *)
(* will have opened once the queued commands have been issued, for every   *)
(* number of ranks, banks, rows and requests and every policy, if the      *)
(* groups cover the rank and every bank has a queue.                       *)
THEOREM ControllerPictureTrue ==
  ASSUME GroupsCover, EveryBankHasQueue
  PROVE  Spec => []ControllerPicture
<1>1. TypeInv /\ PageInv /\ RowInv => ControllerPicture
  <2>. SUFFICES ASSUME TypeInv, PageInv, RowInv, NEW rk \in Ranks, NEW b \in Banks
                PROVE  /\ effectiveRow[rk][b] = RowAtEnd(rk, b)
                       /\ activateQueued[rk][b] = (effectiveRow[rk][b] # NoRow)
    BY DEF ControllerPicture
  <2>1. effectiveRow[rk][b] = RowAtEnd(rk, b)
    BY RowAtEndIs DEF RowInv, Foreseen, Known
  <2>2. activateQueued[rk][b] = (effectiveRow[rk][b] # NoRow)
    <3>1. activateQueued[rk][b] <=> effectiveRow[rk][b] # NoRow
      BY DEF PageInv, RowsMatchFlags
    <3>2. activateQueued[rk][b] \in BOOLEAN
      BY DEF TypeInv, TypeOK
    <3>. QED  BY <3>1, <3>2
  <2>. QED  BY <2>1, <2>2
<1>. QED  BY <1>1, ControllerTypeInv, ControllerPages, ControllerRows, PTL

(* Every queued command will find its bank as it needs it: the ACTIVATE a  *)
(* closed bank, the access its row, the precharges an open row, and the    *)
(* REFRESH every bank of its group closed, in its own queue and in theirs. *)
THEOREM ControllerCommandsFit ==
  ASSUME GroupsCover, EveryBankHasQueue
  PROVE  Spec => []CommandsFit
<1>1. TypeInv /\ RefInv /\ RowInv => CommandsFit
  <2>. SUFFICES ASSUME TypeInv, RefInv, RowInv, NEW q \in Queues, NEW m \in Unissued(q)
                PROVE  Fits(q, m, commandQueues[q][m])
    BY DEF CommandsFit
  <2>1. PICK o \in {0, 1} :
           /\ Len(Unsent[q]) = Len(commandQueues[q]) - o
           /\ Len(commandQueues[q]) \in Nat /\ Len(Unsent[q]) \in Nat
           /\ Unissued(q) = o + 1 .. Len(commandQueues[q])
           /\ \A k \in 1 .. Len(Unsent[q]) : commandQueues[q][k + o] = Unsent[q][k]
    BY UnissuedIs
  <2>2. PICK n \in 1 .. Len(Unsent[q]) : n = m - o
    BY <2>1
  <2>3. n \in Nat /\ m = n + o
    BY <2>1, <2>2
  <2>4. PICK c : c = commandQueues[q][m]
    OBVIOUS
  <2>5. c = Unsent[q][n] /\ c \in CommandType
    <3>1. c = Unsent[q][n]
      BY <2>1, <2>3, <2>4
    <3>2. Unsent \in [Queues -> Seq(CommandType)]
      BY UnsentType
    <3>3. Unsent[q] \in Seq(CommandType)
      BY <3>2
    <3>. QED  BY <3>1, <3>3
  <2>6. c.rank \in Ranks /\ c.bank \in Banks
    BY <2>5 DEF CommandType
  <2>7. /\ q = GetCommandQueueId(c.rank, c.bank)
        /\ Suits(c, RowThen(Unsent, rank, q, n, c.rank, c.bank))
        /\ c.type = "REFRESH" => c.bank \in Heads
        /\ c.type = "REFRESH" => \A b \in RefreshedBanks(c.bank) :
             GetCommandQueueId(c.rank, b) = q => RowThen(Unsent, rank, q, n, c.rank, b) = NoRow
    BY <2>5 DEF RowInv, Foreseen, QueuesFit, FitsThen
  <2>8. \A b \in Banks : RowBefore(q, m, c.rank, b) = RowThen(Unsent, rank, q, n, c.rank, b)
    BY <2>1, <2>3, <2>6, RowBeforeIs
  <2>9. ASSUME c.type = "REFRESH", NEW b \in RefreshedBanks(c.bank)
        PROVE  IF GetCommandQueueId(c.rank, b) = q
               THEN RowBefore(q, m, c.rank, b) = NoRow
               ELSE RowAtEnd(c.rank, b) = NoRow
    <3>1. b \in Banks
      BY <2>7, <2>9, RefreshedTogether
    <3>2. RefreshedBanks(c.bank) = GroupBanks(GroupOf(c.bank)) /\ GroupOf(c.bank) \in Groups
      BY <2>7, <2>9, HeadFacts
    <3>3. Held(Unsent, RefreshesOf(c.rank, GroupOf(c.bank)))
      BY <2>5, <2>9 DEF Held, RefreshesOf
    <3>4. refreshQueued[c.rank][b]
      BY <2>6, <3>2, <3>3 DEF RefInv, RefreshAt
    <3>5. effectiveRow[c.rank][b] = NoRow
      BY <2>6, <3>1, <3>4 DEF RowInv, RefreshFindsNoRow
    <3>6. RowAtEnd(c.rank, b) = NoRow
      BY <2>6, <3>1, <3>5, RowAtEndIs, SMTT(60) DEF RowInv, Foreseen, Known
    <3>. QED  BY <2>7, <2>8, <2>9, <3>1, <3>6
  <2>10. Fits(q, m, c)
    BY <2>5, <2>6, <2>7, <2>8, <2>9, ZenonT(60) DEF Fits, Suits, CommandType
  <2>. QED  BY <2>4, <2>10
<1>. QED  BY <1>1, ControllerTypeInv, ControllerRefreshInv, ControllerRows, PTL

-----------------------------------------------------------------------------
(* The service of the rows.                                                *)

(* A request joins the transaction queue. *)
LEMMA QueuedAppend ==
  ASSUME NEW m \in Seq(Requests), NEW r \in Requests, NEW x, NEW y
  PROVE  /\ Queued(Append(m, r), x) <=> Queued(m, x) \/ x = r
         /\ QueuedBefore(Append(m, r), x, y) <=> QueuedBefore(m, x, y) \/ (Queued(m, x) /\ y = r)
<1>1. PICK n : n = Append(m, r)
  OBVIOUS
<1>2. /\ Len(n) = Len(m) + 1 /\ Len(m) \in Nat
      /\ \A k \in 1 .. Len(m) : n[k] = m[k]
      /\ n[Len(m) + 1] = r
  BY <1>1
<1>3. Queued(n, x) <=> Queued(m, x) \/ x = r
  <2>1. ASSUME Queued(n, x) PROVE Queued(m, x) \/ x = r
    BY <1>2, <2>1 DEF Queued
  <2>2. ASSUME Queued(m, x) \/ x = r PROVE Queued(n, x)
    BY <1>2, <2>2 DEF Queued
  <2>. QED  BY <2>1, <2>2
<1>4. ASSUME QueuedBefore(n, x, y) PROVE QueuedBefore(m, x, y) \/ (Queued(m, x) /\ y = r)
  <2>1. PICK i \in 1 .. Len(n), j \in 1 .. Len(n) : i < j /\ n[i] = x /\ n[j] = y
    BY <1>4 DEF QueuedBefore
  <2>2. i \in 1 .. Len(m) /\ m[i] = x
    BY <1>2, <2>1
  <2>3. CASE j \in 1 .. Len(m)
    BY <1>2, <2>1, <2>2, <2>3 DEF QueuedBefore
  <2>4. CASE j = Len(m) + 1
    BY <1>2, <2>1, <2>2, <2>4 DEF Queued
  <2>. QED  BY <1>2, <2>3, <2>4
<1>5. ASSUME QueuedBefore(m, x, y) PROVE QueuedBefore(n, x, y)
  BY <1>2, <1>5 DEF QueuedBefore
<1>6. ASSUME Queued(m, x), y = r PROVE QueuedBefore(n, x, y)
  <2>1. PICK i \in 1 .. Len(m) : m[i] = x
    BY <1>6 DEF Queued
  <2>2. /\ i \in 1 .. Len(n) /\ Len(m) + 1 \in 1 .. Len(n) /\ i < Len(m) + 1
        /\ n[i] = x /\ n[Len(m) + 1] = y
    BY <1>2, <1>6, <2>1
  <2>. QED  BY <2>2 DEF QueuedBefore
<1>. QED  BY <1>1, <1>3, <1>4, <1>5, <1>6

(* A request leaves the transaction queue, in which it stood once. *)
LEMMA QueuedRemove ==
  ASSUME NEW m \in Seq(Requests), NEW i \in 1 .. Len(m),
         \A k \in 1 .. Len(m) : m[k] = m[i] => k = i,
         NEW x, NEW y
  PROVE  /\ Queued(RemoveAt(m, i), x) <=> Queued(m, x) /\ x # m[i]
         /\ QueuedBefore(RemoveAt(m, i), x, y) <=>
              QueuedBefore(m, x, y) /\ x # m[i] /\ y # m[i]
<1>1. PICK n : n = RemoveAt(m, i)
  OBVIOUS
<1>2. /\ Len(n) = Len(m) - 1 /\ Len(m) \in Nat
      /\ \A k \in 1 .. i - 1 : n[k] = m[k]
      /\ \A k \in i .. Len(m) - 1 : n[k] = m[k + 1]
  BY <1>1, RemoveAtFacts
<1>. DEFINE from(k) == IF k < i THEN k ELSE k + 1
            to(k) == IF k < i THEN k ELSE k - 1
<1>3. ASSUME NEW k \in 1 .. Len(n)
      PROVE  from(k) \in 1 .. Len(m) /\ m[from(k)] = n[k] /\ from(k) # i
  BY <1>2
<1>4. ASSUME NEW k \in 1 .. Len(m), k # i
      PROVE  to(k) \in 1 .. Len(n) /\ n[to(k)] = m[k]
  <2>1. CASE k < i
    BY <1>2, <2>1
  <2>2. CASE k > i
    <3>1. k - 1 \in i .. Len(m) - 1 /\ k - 1 + 1 = k /\ k - 1 \in 1 .. Len(n)
      BY <1>2, <2>2
    <3>2. n[k - 1] = m[k]
      BY <1>2, <3>1
    <3>. QED  BY <2>2, <3>1, <3>2
  <2>. QED  BY <1>4, <2>1, <2>2
<1>5. \A k, l \in 1 .. Len(n) : k < l => from(k) < from(l)
  BY <1>2
<1>6. \A k, l \in 1 .. Len(m) : k < l /\ k # i /\ l # i => to(k) < to(l)
  BY <1>2
<1>. HIDE DEF from, to
<1>7. ASSUME Queued(n, x) PROVE Queued(m, x) /\ x # m[i]
  BY <1>3, <1>7 DEF Queued
<1>8. ASSUME Queued(m, x), x # m[i] PROVE Queued(n, x)
  BY <1>4, <1>8 DEF Queued
<1>9. ASSUME QueuedBefore(n, x, y) PROVE QueuedBefore(m, x, y) /\ x # m[i] /\ y # m[i]
  <2>1. PICK k \in 1 .. Len(n), l \in 1 .. Len(n) : k < l /\ n[k] = x /\ n[l] = y
    BY <1>9 DEF QueuedBefore
  <2>2. /\ from(k) \in 1 .. Len(m) /\ m[from(k)] = x /\ from(k) # i
        /\ from(l) \in 1 .. Len(m) /\ m[from(l)] = y /\ from(l) # i
        /\ from(k) < from(l)
    BY <1>3, <1>5, <2>1
  <2>. QED  BY <2>2 DEF QueuedBefore
<1>10. ASSUME QueuedBefore(m, x, y), x # m[i], y # m[i] PROVE QueuedBefore(n, x, y)
  <2>1. PICK k \in 1 .. Len(m), l \in 1 .. Len(m) : k < l /\ m[k] = x /\ m[l] = y
    BY <1>10 DEF QueuedBefore
  <2>2. k # i /\ l # i
    BY <1>10, <2>1
  <2>3. /\ to(k) \in 1 .. Len(n) /\ n[to(k)] = x
        /\ to(l) \in 1 .. Len(n) /\ n[to(l)] = y
        /\ to(k) < to(l)
    BY <1>4, <1>6, <2>1, <2>2
  <2>. QED  BY <2>3 DEF QueuedBefore
<1>. QED  BY <1>1, <1>7, <1>8, <1>9, <1>10

(* A command without a request joins a command queue. *)
LEMMA TakenPush ==
  ASSUME NEW u \in [Queues -> Seq(CommandType)], NEW q \in Queues, NEW c \in CommandType,
         c.req = NoRequest, NEW x \in Requests, NEW y \in Requests
  PROVE  /\ Taken(Pushed(u, q, c), x) <=> Taken(u, x)
         /\ TakenBefore(Pushed(u, q, c), x, y) <=> TakenBefore(u, x, y)
<1>1. PICK v : v = Pushed(u, q, c)
  OBVIOUS
<1>2. /\ v[q] = Append(u[q], c) /\ \A p \in Queues : p # q => v[p] = u[p]
      /\ u[q] \in Seq(CommandType)
  BY <1>1 DEF Pushed
<1>3. x # NoRequest /\ y # NoRequest
  BY ControllerAssumption
<1>4. /\ Len(v[q]) = Len(u[q]) + 1 /\ Len(u[q]) \in Nat
      /\ \A k \in 1 .. Len(u[q]) : v[q][k] = u[q][k]
      /\ v[q][Len(u[q]) + 1] = c
  BY <1>2, AppendCommand
<1>5. ASSUME NEW p \in Queues, NEW k \in 1 .. Len(u[p])
      PROVE  k \in 1 .. Len(v[p]) /\ v[p][k] = u[p][k]
  <2>1. CASE p = q
    BY <1>4, <2>1
  <2>2. CASE p # q
    BY <1>2, <2>2
  <2>. QED  BY <2>1, <2>2
<1>6. ASSUME NEW p \in Queues, NEW k \in 1 .. Len(v[p]), v[p][k].req # NoRequest
      PROVE  k \in 1 .. Len(u[p]) /\ v[p][k] = u[p][k]
  <2>1. CASE p = q
    <3>1. k # Len(u[q]) + 1
      BY <1>4, <1>6, <2>1
    <3>2. k \in 1 .. Len(u[q])
      BY <1>4, <2>1, <3>1
    <3>. QED  BY <1>4, <2>1, <3>2
  <2>2. CASE p # q
    BY <1>2, <2>2
  <2>. QED  BY <2>1, <2>2
<1>7. ASSUME Taken(v, x) PROVE Taken(u, x)
  <2>0. PICK p \in Queues : \E k \in 1 .. Len(v[p]) : v[p][k].req = x
    BY <1>7 DEF Taken
  <2>1. PICK k \in 1 .. Len(v[p]) : v[p][k].req = x
    BY <2>0
  <2>2. k \in 1 .. Len(u[p]) /\ u[p][k].req = x
    BY <1>3, <1>6, <2>1
  <2>. QED  BY <2>2 DEF Taken
<1>8. ASSUME Taken(u, x) PROVE Taken(v, x)
  <2>0. PICK p \in Queues : \E k \in 1 .. Len(u[p]) : u[p][k].req = x
    BY <1>8 DEF Taken
  <2>1. PICK k \in 1 .. Len(u[p]) : u[p][k].req = x
    BY <2>0
  <2>2. k \in 1 .. Len(v[p]) /\ v[p][k].req = x
    BY <1>5, <2>1
  <2>. QED  BY <2>2 DEF Taken
<1>9. ASSUME TakenBefore(v, x, y) PROVE TakenBefore(u, x, y)
  <2>0. PICK p \in Queues : \E k, l \in 1 .. Len(v[p]) :
          k < l /\ v[p][k].req = x /\ v[p][l].req = y
    BY <1>9 DEF TakenBefore
  <2>1. PICK k \in 1 .. Len(v[p]), l \in 1 .. Len(v[p]) :
          k < l /\ v[p][k].req = x /\ v[p][l].req = y
    BY <2>0
  <2>2. /\ k \in 1 .. Len(u[p]) /\ u[p][k].req = x
        /\ l \in 1 .. Len(u[p]) /\ u[p][l].req = y
    BY <1>3, <1>6, <2>1
  <2>. QED  BY <2>1, <2>2 DEF TakenBefore
<1>10. ASSUME TakenBefore(u, x, y) PROVE TakenBefore(v, x, y)
  <2>0. PICK p \in Queues : \E k, l \in 1 .. Len(u[p]) :
          k < l /\ u[p][k].req = x /\ u[p][l].req = y
    BY <1>10 DEF TakenBefore
  <2>1. PICK k \in 1 .. Len(u[p]), l \in 1 .. Len(u[p]) :
          k < l /\ u[p][k].req = x /\ u[p][l].req = y
    BY <2>0
  <2>2. /\ k \in 1 .. Len(v[p]) /\ v[p][k].req = x
        /\ l \in 1 .. Len(v[p]) /\ v[p][l].req = y
    BY <1>5, <2>1
  <2>. QED  BY <2>1, <2>2 DEF TakenBefore
<1>. QED  BY <1>1, <1>7, <1>8, <1>9, <1>10

(* An empty queue is filled with the commands s of request r, of which the *)
(* last one is the access.                                                 *)
AccessLast(s, r) ==
  \A k \in 1 .. Len(s) : (s[k].req = r <=> k = Len(s)) /\ s[k].req \in {r, NoRequest}

LEMMA TakenFill ==
  ASSUME NEW u \in [Queues -> Seq(CommandType)], NEW q \in Queues, u[q] = << >>,
         NEW r \in Requests, NEW s \in Seq(CommandType), s # << >>, AccessLast(s, r),
         NEW x \in Requests, NEW y \in Requests
  PROVE  /\ Taken(Filled(u, q, s), x) <=> Taken(u, x) \/ x = r
         /\ TakenBefore(Filled(u, q, s), x, y) <=> TakenBefore(u, x, y)
<1>1. PICK v : v = Filled(u, q, s)
  OBVIOUS
<1>2. /\ v[q] = s /\ \A p \in Queues : p # q => v[p] = u[p]
      /\ Len(u[q]) = 0 /\ Len(s) \in 1 .. Len(s)
  BY <1>1 DEF Filled
<1>3. x # NoRequest /\ y # NoRequest
  BY ControllerAssumption
<1>4. ASSUME NEW p \in Queues, NEW k \in 1 .. Len(u[p])
      PROVE  p # q /\ v[p] = u[p]
  BY <1>2
<1>5. Taken(u, x) => Taken(v, x)
  BY <1>4 DEF Taken
<1>6. Taken(v, r)
  BY <1>2 DEF Taken, AccessLast
<1>7. ASSUME Taken(v, x), x # r PROVE Taken(u, x)
  <2>0. PICK p \in Queues : \E k \in 1 .. Len(v[p]) : v[p][k].req = x
    BY <1>7 DEF Taken
  <2>1. PICK k \in 1 .. Len(v[p]) : v[p][k].req = x
    BY <2>0
  <2>2. p # q
    BY <1>2, <1>3, <1>7, <2>1 DEF AccessLast
  <2>. QED  BY <1>2, <2>1, <2>2 DEF Taken
<1>8. TakenBefore(u, x, y) => TakenBefore(v, x, y)
  BY <1>4 DEF TakenBefore
<1>9. ASSUME TakenBefore(v, x, y) PROVE TakenBefore(u, x, y)
  <2>0. PICK p \in Queues : \E k, l \in 1 .. Len(v[p]) :
          k < l /\ v[p][k].req = x /\ v[p][l].req = y
    BY <1>9 DEF TakenBefore
  <2>1. PICK k \in 1 .. Len(v[p]), l \in 1 .. Len(v[p]) :
          k < l /\ v[p][k].req = x /\ v[p][l].req = y
    BY <2>0
  <2>2. ASSUME p = q PROVE FALSE
    <3>1. k \in 1 .. Len(s) /\ l \in 1 .. Len(s) /\ s[k].req = x /\ s[l].req = y
      BY <1>2, <2>1, <2>2
    <3>2. x = r /\ y = r
      BY <1>3, <3>1 DEF AccessLast
    <3>3. k = Len(s) /\ l = Len(s)
      BY <3>1, <3>2 DEF AccessLast
    <3>. QED  BY <2>1, <3>3
  <2>. QED  BY <1>2, <2>1, <2>2 DEF TakenBefore
<1>. QED  BY <1>1, <1>5, <1>6, <1>7, <1>8, <1>9

(* The head of a queue is sent. *)
LEMMA TakenPop ==
  ASSUME NEW u \in [Queues -> Seq(CommandType)], NEW q \in Queues, u[q] # << >>,
         NEW c, c = Head(u[q]), NEW x, NEW y
  PROVE  /\ Taken(u, x) <=> Taken(Popped(u, q), x) \/ c.req = x
         /\ TakenBefore(Popped(u, q), x, y) => TakenBefore(u, x, y)
         /\ TakenBefore(u, x, y) /\ c.req # x => TakenBefore(Popped(u, q), x, y)
<1>1. PICK v : v = Popped(u, q)
  OBVIOUS
<1>2. /\ v[q] = Tail(u[q]) /\ \A p \in Queues : p # q => v[p] = u[p]
      /\ u[q] \in Seq(CommandType)
  BY <1>1 DEF Popped
<1>3. /\ Len(v[q]) = Len(u[q]) - 1 /\ Len(u[q]) \in Nat \ {0} /\ c = u[q][1]
      /\ \A k \in 1 .. Len(u[q]) - 1 : v[q][k] = u[q][k + 1]
  BY <1>2, TailOfCommands
<1>. DEFINE o(p) == IF p = q THEN 1 ELSE 0
<1>4. \A p : o(p) \in {0, 1}
  OBVIOUS
<1>5. ASSUME NEW p \in Queues, NEW k \in 1 .. Len(v[p])
      PROVE  k + o(p) \in 1 .. Len(u[p]) /\ u[p][k + o(p)] = v[p][k]
  <2>1. CASE p = q
    BY <1>3, <2>1
  <2>2. CASE p # q
    BY <1>2, <2>2
  <2>. QED  BY <2>1, <2>2
<1>6. ASSUME NEW p \in Queues, NEW k \in 1 .. Len(u[p]), p # q \/ k # 1
      PROVE  k - o(p) \in 1 .. Len(v[p]) /\ v[p][k - o(p)] = u[p][k]
  <2>1. CASE p = q
    <3>1. k - 1 \in 1 .. Len(u[q]) - 1 /\ k - 1 + 1 = k
      BY <1>3, <1>6, <2>1
    <3>2. v[q][k - 1] = u[q][k]
      BY <1>3, <3>1
    <3>. QED  BY <1>3, <2>1, <3>1, <3>2
  <2>2. CASE p # q
    BY <1>2, <2>2
  <2>. QED  BY <2>1, <2>2
<1>. HIDE DEF o
<1>7. ASSUME Taken(v, x) PROVE Taken(u, x)
  <2>0. PICK p \in Queues : \E k \in 1 .. Len(v[p]) : v[p][k].req = x
    BY <1>7 DEF Taken
  <2>1. PICK k \in 1 .. Len(v[p]) : v[p][k].req = x
    BY <2>0
  <2>2. k + o(p) \in 1 .. Len(u[p]) /\ u[p][k + o(p)].req = x
    BY <1>5, <2>1
  <2>. QED  BY <2>2 DEF Taken
<1>8. c.req = x => Taken(u, x)
  <2>1. 1 \in 1 .. Len(u[q])
    BY <1>3
  <2>. QED  BY <1>3, <2>1 DEF Taken
<1>9. ASSUME Taken(u, x), c.req # x PROVE Taken(v, x)
  <2>0. PICK p \in Queues : \E k \in 1 .. Len(u[p]) : u[p][k].req = x
    BY <1>9 DEF Taken
  <2>1. PICK k \in 1 .. Len(u[p]) : u[p][k].req = x
    BY <2>0
  <2>2. p # q \/ k # 1
    BY <1>3, <1>9, <2>1
  <2>3. k - o(p) \in 1 .. Len(v[p]) /\ v[p][k - o(p)].req = x
    BY <1>6, <2>1, <2>2
  <2>. QED  BY <2>3 DEF Taken
<1>10. ASSUME TakenBefore(v, x, y) PROVE TakenBefore(u, x, y)
  <2>0. PICK p \in Queues : \E k, l \in 1 .. Len(v[p]) :
          k < l /\ v[p][k].req = x /\ v[p][l].req = y
    BY <1>10 DEF TakenBefore
  <2>1. PICK k \in 1 .. Len(v[p]), l \in 1 .. Len(v[p]) :
          k < l /\ v[p][k].req = x /\ v[p][l].req = y
    BY <2>0
  <2>2. /\ k + o(p) \in 1 .. Len(u[p]) /\ u[p][k + o(p)].req = x
        /\ l + o(p) \in 1 .. Len(u[p]) /\ u[p][l + o(p)].req = y
    BY <1>5, <2>1
  <2>3. k + o(p) < l + o(p)
    BY <1>4, <2>1
  <2>. QED  BY <2>2, <2>3 DEF TakenBefore
<1>11. ASSUME TakenBefore(u, x, y), c.req # x PROVE TakenBefore(v, x, y)
  <2>0. PICK p \in Queues : \E k, l \in 1 .. Len(u[p]) :
          k < l /\ u[p][k].req = x /\ u[p][l].req = y
    BY <1>11 DEF TakenBefore
  <2>1. PICK k \in 1 .. Len(u[p]), l \in 1 .. Len(u[p]) :
          k < l /\ u[p][k].req = x /\ u[p][l].req = y
    BY <2>0
  <2>2. p # q \/ (k # 1 /\ l # 1)
    BY <1>3, <1>11, <2>1
  <2>3. /\ k - o(p) \in 1 .. Len(v[p]) /\ v[p][k - o(p)].req = x
        /\ l - o(p) \in 1 .. Len(v[p]) /\ v[p][l - o(p)].req = y
    BY <1>6, <2>1, <2>2
  <2>4. k - o(p) < l - o(p)
    BY <1>4, <2>1
  <2>. QED  BY <2>3, <2>4 DEF TakenBefore
<1>. QED  BY <1>1, <1>7, <1>8, <1>9, <1>10, <1>11

(* What ReqInv says of the places of a request, in the terms of the        *)
(* service.                                                                *)
LEMMA HeldIsTaken ==
  ASSUME TypeInv, NEW r \in Requests
  PROVE  Held(Unsent, AccessesOf(r)) <=> Taken(Unsent, r)
<1>1. Unsent \in [Queues -> Seq(CommandType)]
  BY UnsentType
<1>2. ASSUME NEW q \in Queues, NEW k \in 1 .. Len(Unsent[q])
      PROVE  Unsent[q][k] \in AccessesOf(r) <=> Unsent[q][k].req = r
  <2>1. Unsent[q] \in Seq(CommandType)
    BY <1>1
  <2>2. Unsent[q][k] \in CommandType
    BY <2>1
  <2>. QED  BY <2>2 DEF AccessesOf
<1>. QED  BY <1>2, Zenon DEF Held, Taken

(* A request is in one place, and in none unless it is owed. *)
LEMMA PlacesOfRequest ==
  ASSUME TypeInv, ReqInv, NEW r \in Requests
  PROVE  /\ \A i, j \in 1 .. Len(memQueue) : memQueue[i] = r /\ memQueue[j] = r => i = j
         /\ Queued(memQueue, r) => ~Taken(Unsent, r) /\ r \notin inService
         /\ Taken(Unsent, r) => r \notin inService
         /\ r \in owed <=> Queued(memQueue, r) \/ Taken(Unsent, r) \/ r \in inService
<1>1. InMemory(r) <=> Queued(memQueue, r)
  BY Zenon DEF InMemory, Queued
<1>2. Held(Unsent, AccessesOf(r)) <=> Taken(Unsent, r)
  BY HeldIsTaken
<1>. QED  BY <1>1, <1>2 DEF ReqInv

(* The requests of the current cycle are the last of the transaction       *)
(* queue: the searches of Cycle() pass over no older one because of them.  *)
FreshLast ==
  \A i, j \in 1 .. Len(memQueue) : i < j /\ memQueue[i] \in fresh => memQueue[j] \in fresh

(* The access of a request is in the queue of its bank. *)
Placed(u) ==
  \A q \in Queues : \A k \in 1 .. Len(u[q]) :
    u[q][k].req \in Requests => QueueOf(u[q][k].req) = q

(* Of the requests for one row Cycle() picks the oldest. *)
LEMMA OldestOfRow ==
  ASSUME TypeInv, FreshLast, Candidates # {}, NEW i \in 1 .. Len(memQueue), i = PickOldest,
         NEW j \in 1 .. Len(memQueue), j < i
  PROVE  Address[memQueue[j]] # Address[memQueue[i]]
<1>. SUFFICES ASSUME Address[memQueue[j]] = Address[memQueue[i]] PROVE FALSE
  OBVIOUS
<1>1. memQueue \in Seq(Requests) /\ DOMAIN memQueue = 1 .. Len(memQueue)
  BY DEF TypeInv, TypeOK
<1>2. PICK r \in Requests, s \in Requests :
        r = memQueue[i] /\ s = memQueue[j] /\ Address[s] = Address[r]
  BY <1>1
<1>3. PICK F : /\ F \in {{x \in Requests : Starved(x)}, {x \in Requests : Hit(x)},
                         {x \in Requests : Active(x)}, {x \in Requests : ~Active(x)}}
               /\ Candidates = EligiblePositions(F)
  <2>. DEFINE A == {x \in Requests : Starved(x)}
              B == {x \in Requests : Hit(x)}
              C == {x \in Requests : Active(x)}
              D == {x \in Requests : ~Active(x)}
  <2>1. \/ Candidates = EligiblePositions(A) \/ Candidates = EligiblePositions(B)
        \/ Candidates = EligiblePositions(C) \/ Candidates = EligiblePositions(D)
    <3>1. PICK a, b, c, d : /\ a = EligiblePositions(A) /\ b = EligiblePositions(B)
                            /\ c = EligiblePositions(C) /\ d = EligiblePositions(D)
      OBVIOUS
    <3>2. Candidates = CASE a # {} -> a [] b # {} -> b [] c # {} -> c [] OTHER -> d
      BY <3>1 DEF Candidates
    <3>3. Candidates = a \/ Candidates = b \/ Candidates = c \/ Candidates = d
      <4>1. CASE a # {}
        BY <3>2, <4>1
      <4>2. CASE a = {} /\ b # {}
        BY <3>2, <4>2
      <4>3. CASE a = {} /\ b = {} /\ c # {}
        BY <3>2, <4>3
      <4>4. CASE a = {} /\ b = {} /\ c = {}
        BY <3>2, <4>4
      <4>. QED  BY <4>1, <4>2, <4>3, <4>4
    <3>. QED  BY <3>1, <3>3, Zenon
  <2>. HIDE DEF A, B, C, D
  <2>2. \E G \in {A, B, C, D} : Candidates = EligiblePositions(G)
    BY <2>1
  <2>. QED  BY <2>2 DEF A, B, C, D
<1>4. Candidates \subseteq 1 .. Len(memQueue) /\ Candidates \subseteq Nat
  BY <1>1, <1>3 DEF EligiblePositions
<1>5. i \in Candidates /\ \A k \in Candidates : i <= k
  BY <1>4, MinFacts DEF PickOldest
<1>6. Eligible(r) /\ r \in F
  BY <1>2, <1>3, <1>5 DEF EligiblePositions
<1>7. s \notin fresh
  BY <1>2, <1>6 DEF FreshLast, Eligible
<1>8. Eligible(s)
  BY <1>2, <1>6, <1>7 DEF Eligible, QueueOf, RankOf, BankOf
<1>9. s \in F
  BY <1>2, <1>3, <1>6 DEF Starved, Hit, Active, RankOf, BankOf
<1>10. j \in Candidates
  BY <1>1, <1>2, <1>3, <1>8, <1>9 DEF EligiblePositions
<1>. QED  BY <1>5, <1>10

(* Accesses are put into the queues of their banks and nowhere else. *)
LEMMA PlacedPush ==
  ASSUME NEW u \in [Queues -> Seq(CommandType)], Placed(u), NEW q \in Queues,
         NEW c \in CommandType, c.req = NoRequest
  PROVE  Placed(Pushed(u, q, c))
<1>1. PICK v : v = Pushed(u, q, c)
  OBVIOUS
<1>2. /\ v[q] = Append(u[q], c) /\ \A p \in Queues : p # q => v[p] = u[p]
      /\ u[q] \in Seq(CommandType)
  BY <1>1 DEF Pushed
<1>3. ASSUME NEW p \in Queues, NEW k \in 1 .. Len(v[p]), v[p][k].req \in Requests
      PROVE  QueueOf(v[p][k].req) = p
  <2>1. CASE p # q
    BY <1>2, <1>3, <2>1 DEF Placed
  <2>2. CASE p = q
    <3>1. v[q][k] = c \/ (k \in 1 .. Len(u[q]) /\ v[q][k] = u[q][k])
      BY <1>2, <2>2, AppendCommand
    <3>2. v[q][k] # c
      BY <1>3, <2>2, ControllerAssumption
    <3>. QED  BY <1>3, <2>2, <3>1, <3>2 DEF Placed
  <2>. QED  BY <2>1, <2>2
<1>. QED  BY <1>1, <1>3 DEF Placed

(* The commands of a request fill the queue of its bank. *)
LEMMA PlacedFill ==
  ASSUME NEW u \in [Queues -> Seq(CommandType)], Placed(u), NEW r \in Requests,
         QueueOf(r) \in Queues, NEW s \in Seq(CommandType),
         \A k \in 1 .. Len(s) : s[k].req \in {r, NoRequest}
  PROVE  Placed(Filled(u, QueueOf(r), s))
<1>1. PICK v, q : v = Filled(u, q, s) /\ q = QueueOf(r)
  OBVIOUS
<1>2. v[q] = s /\ \A p \in Queues : p # q => v[p] = u[p]
  BY <1>1 DEF Filled
<1>3. ASSUME NEW p \in Queues, NEW k \in 1 .. Len(v[p]), v[p][k].req \in Requests
      PROVE  QueueOf(v[p][k].req) = p
  <2>1. CASE p # q
    BY <1>2, <1>3, <2>1 DEF Placed
  <2>2. CASE p = q
    <3>1. v[p][k].req = r
      BY <1>2, <1>3, <2>2, ControllerAssumption
    <3>. QED  BY <1>1, <2>2, <3>1
  <2>. QED  BY <2>1, <2>2
<1>. QED  BY <1>1, <1>3 DEF Placed

(* The head of a queue leaves. *)
LEMMA PlacedPop ==
  ASSUME NEW u \in [Queues -> Seq(CommandType)], Placed(u), NEW q \in Queues, u[q] # << >>
  PROVE  Placed(Popped(u, q))
<1>1. PICK v : v = Popped(u, q)
  OBVIOUS
<1>2. /\ v[q] = Tail(u[q]) /\ \A p \in Queues : p # q => v[p] = u[p]
      /\ u[q] \in Seq(CommandType)
  BY <1>1 DEF Popped
<1>3. ASSUME NEW p \in Queues, NEW k \in 1 .. Len(v[p]), v[p][k].req \in Requests
      PROVE  QueueOf(v[p][k].req) = p
  <2>1. CASE p # q
    BY <1>2, <1>3, <2>1 DEF Placed
  <2>2. CASE p = q
    <3>1. k + 1 \in 1 .. Len(u[q]) /\ v[q][k] = u[q][k + 1]
      BY <1>2, <2>2, TailOfCommands
    <3>. QED  BY <1>3, <2>2, <3>1 DEF Placed
  <2>. QED  BY <2>1, <2>2
<1>. QED  BY <1>1, <1>3 DEF Placed

(* The command queue of a row is empty when a request for it is picked. *)
LEMMA NoneTaken ==
  ASSUME NEW u, Placed(u), NEW r \in Requests, NEW x \in Requests, Address[x] = Address[r],
         QueueOf(r) \in Queues, u[QueueOf(r)] = << >>
  PROVE  ~Taken(u, x)
<1>. SUFFICES ASSUME Taken(u, x) PROVE FALSE
  OBVIOUS
<1>1. PICK q \in Queues : \E k \in 1 .. Len(u[q]) : u[q][k].req = x
  BY DEF Taken
<1>2. q = QueueOf(x)
  BY <1>1 DEF Placed
<1>3. q = QueueOf(r)
  BY <1>2 DEF QueueOf, RankOf, BankOf
<1>4. Len(u[q]) = 0
  BY <1>3
<1>. QED  BY <1>1, <1>4

(* The same requests wait in the same order. *)
LEMMA SameService ==
  ASSUME NEW m, NEW u, NEW n, NEW v,
         \A x \in Requests : Queued(n, x) \/ Taken(v, x) <=> Queued(m, x) \/ Taken(u, x),
         \A x, y \in Requests :
           Address[x] = Address[y] => (Ahead(n, v, x, y) <=> Ahead(m, u, x, y))
  PROVE  Waiting(n, v) = Waiting(m, u) /\ WaitsBefore(n, v) = WaitsBefore(m, u)
<1>1. Waiting(n, v) = Waiting(m, u)
  BY DEF Waiting
<1>2. ASSUME NEW p \in Requests \X Requests
      PROVE  Address[p[1]] = Address[p[2]] /\ Ahead(n, v, p[1], p[2]) <=>
             Address[p[1]] = Address[p[2]] /\ Ahead(m, u, p[1], p[2])
  <2>1. p[1] \in Requests /\ p[2] \in Requests
    OBVIOUS
  <2>. QED  BY <2>1
<1>3. WaitsBefore(n, v) = WaitsBefore(m, u)
  BY <1>2, Zenon DEF WaitsBefore
<1>. QED  BY <1>1, <1>3

(* IssueMemoryCommands() changes nothing in the order of the requests for  *)
(* one row: the oldest one is taken, and no other is under way.            *)
LEMMA ServiceSchedule ==
  ASSUME EveryBankHasQueue, TypeInv, ReqInv, FreshLast, Placed(Unsent),
         Schedule, Candidates # {}
  PROVE  /\ Waiting(memQueue', Unsent') = Waiting(memQueue, Unsent)
         /\ WaitsBefore(memQueue', Unsent') = WaitsBefore(memQueue, Unsent)
         /\ Placed(Unsent')
<1>1. PICK i \in 1 .. Len(memQueue) : \E r \in Requests : \E last \in BOOLEAN :
           /\ i = PickOldest /\ r = memQueue[i] /\ Eligible(r)
           /\ QueueOf(r) \in Queues /\ Unsent[QueueOf(r)] = << >>
           /\ memQueue' = RemoveAt(memQueue, i)
           /\ Unsent' = [Unsent EXCEPT ![QueueOf(r)] = CommandsFor(r, last)]
  BY ScheduleView
<1>2. PICK r \in Requests : \E last \in BOOLEAN :
           /\ i = PickOldest /\ r = memQueue[i] /\ Eligible(r)
           /\ QueueOf(r) \in Queues /\ Unsent[QueueOf(r)] = << >>
           /\ memQueue' = RemoveAt(memQueue, i)
           /\ Unsent' = [Unsent EXCEPT ![QueueOf(r)] = CommandsFor(r, last)]
  BY <1>1
<1>3. PICK last \in BOOLEAN :
           /\ i = PickOldest /\ r = memQueue[i] /\ Eligible(r)
           /\ QueueOf(r) \in Queues /\ Unsent[QueueOf(r)] = << >>
           /\ memQueue' = RemoveAt(memQueue, i)
           /\ Unsent' = [Unsent EXCEPT ![QueueOf(r)] = CommandsFor(r, last)]
  BY <1>2
<1>4. PICK s : s = CommandsFor(r, last)
  OBVIOUS
<1>5. /\ s \in Seq(CommandType) /\ s # << >>
      /\ \A k \in 1 .. Len(s) : s[k].req = r <=> k = Len(s)
      /\ \A k \in 1 .. Len(s) : s[k].req \in {r, NoRequest}
  BY <1>3, <1>4, CommandsForRequest
<1>6. PICK m, u, n, v : m = memQueue /\ u = Unsent /\ n = memQueue' /\ v = Unsent'
  OBVIOUS
<1>7. /\ m \in Seq(Requests) /\ u \in [Queues -> Seq(CommandType)] /\ Placed(u)
      /\ n = RemoveAt(m, i) /\ v = Filled(u, QueueOf(r), s)
      /\ i \in 1 .. Len(m) /\ r = m[i] /\ u[QueueOf(r)] = << >> /\ QueueOf(r) \in Queues
  BY <1>3, <1>4, <1>6, UnsentType DEF TypeInv, TypeOK, Filled
<1>8. \A k \in 1 .. Len(m) : m[k] = m[i] => k = i
  BY <1>6, <1>7, PlacesOfRequest
<1>9. \A x, y : /\ Queued(n, x) <=> Queued(m, x) /\ x # r
                /\ QueuedBefore(n, x, y) <=> QueuedBefore(m, x, y) /\ x # r /\ y # r
  BY <1>7, <1>8, QueuedRemove
<1>10. ASSUME NEW x \in Requests, NEW y \in Requests
       PROVE  /\ Taken(v, x) <=> Taken(u, x) \/ x = r
              /\ TakenBefore(v, x, y) <=> TakenBefore(u, x, y)
  <2>1. PICK q \in Queues : q = QueueOf(r)
    BY <1>7
  <2>2. v = Filled(u, q, s) /\ u[q] = << >>
    BY <1>7, <2>1
  <2>3. AccessLast(s, r)
    BY <1>5 DEF AccessLast
  <2>4. u \in [Queues -> Seq(CommandType)] /\ s \in Seq(CommandType) /\ s # << >>
    BY <1>5, <1>7
  <2>. QED  BY <2>2, <2>3, <2>4, TakenFill
<1>11. \A j \in 1 .. Len(m) : j < i => Address[m[j]] # Address[r]
  BY <1>3, <1>6, <1>7, OldestOfRow
<1>12. \A x \in Requests : Address[x] = Address[r] => ~Taken(u, x)
  BY <1>7, NoneTaken
<1>13. ASSUME NEW x \in Requests, Address[x] = Address[r]
       PROVE  ~QueuedBefore(m, x, r)
  BY <1>7, <1>8, <1>11, <1>13 DEF QueuedBefore
<1>14. ASSUME NEW y \in Requests, Address[y] = Address[r]
       PROVE  QueuedBefore(m, r, y) <=> Queued(m, y) /\ y # r
  <2>1. ASSUME QueuedBefore(m, r, y) PROVE Queued(m, y) /\ y # r
    BY <1>7, <1>8, <2>1 DEF QueuedBefore, Queued
  <2>2. ASSUME Queued(m, y), y # r PROVE QueuedBefore(m, r, y)
    <3>1. PICK j \in 1 .. Len(m) : m[j] = y
      BY <2>2 DEF Queued
    <3>2. j # i /\ ~(j < i)
      BY <1>7, <1>11, <1>14, <2>2, <3>1
    <3>3. i < j
      BY <1>7, <3>2
    <3>. QED  BY <1>7, <3>1, <3>3 DEF QueuedBefore
  <2>. QED  BY <2>1, <2>2
<1>15. ASSUME NEW x \in Requests
       PROVE  Queued(n, x) \/ Taken(v, x) <=> Queued(m, x) \/ Taken(u, x)
  <2>1. Queued(m, r)
    BY <1>7 DEF Queued
  <2>. QED  BY <1>9, <1>10, <2>1
<1>16. ASSUME NEW x \in Requests, NEW y \in Requests, Address[x] = Address[y]
       PROVE  Ahead(n, v, x, y) <=> Ahead(m, u, x, y)
  <2>1. Ahead(n, v, x, y) <=>
          \/ QueuedBefore(m, x, y) /\ x # r /\ y # r
          \/ (Taken(u, x) \/ x = r) /\ Queued(m, y) /\ y # r
          \/ TakenBefore(u, x, y)
    BY <1>9, <1>10 DEF Ahead
  <2>2. CASE y = r
    BY <1>12, <1>13, <1>16, <2>1, <2>2 DEF Ahead
  <2>3. CASE y # r /\ x = r
    BY <1>12, <1>14, <1>16, <2>1, <2>3 DEF Ahead
  <2>4. CASE y # r /\ x # r
    BY <2>1, <2>4 DEF Ahead
  <2>. QED  BY <2>2, <2>3, <2>4
<1>17. Waiting(n, v) = Waiting(m, u) /\ WaitsBefore(n, v) = WaitsBefore(m, u)
  BY <1>15, <1>16, SameService
<1>18. Placed(v)
  BY <1>5, <1>7, PlacedFill
<1>. QED  BY <1>6, <1>17, <1>18

(* A precharge or a REFRESH is queued. *)
LEMMA ServicePush ==
  ASSUME TypeInv, Placed(Unsent), NEW q \in Queues, NEW c \in CommandType, c.req = NoRequest,
         Unsent' = Pushed(Unsent, q, c), UNCHANGED memQueue
  PROVE  /\ Waiting(memQueue', Unsent') = Waiting(memQueue, Unsent)
         /\ WaitsBefore(memQueue', Unsent') = WaitsBefore(memQueue, Unsent)
         /\ Placed(Unsent')
<1>1. PICK m, u, v : m = memQueue /\ u = Unsent /\ v = Unsent'
  OBVIOUS
<1>2. u \in [Queues -> Seq(CommandType)] /\ Placed(u) /\ v = Pushed(u, q, c) /\ memQueue' = m
  BY <1>1, UnsentType
<1>3. \A x, y \in Requests : /\ Taken(v, x) <=> Taken(u, x)
                             /\ TakenBefore(v, x, y) <=> TakenBefore(u, x, y)
  BY <1>2, TakenPush
<1>4. \A x, y \in Requests : Ahead(m, v, x, y) <=> Ahead(m, u, x, y)
  BY <1>3 DEF Ahead
<1>5. Waiting(m, v) = Waiting(m, u) /\ WaitsBefore(m, v) = WaitsBefore(m, u)
  BY <1>3, <1>4, SameService
<1>6. Placed(v)
  BY <1>2, PlacedPush
<1>. QED  BY <1>1, <1>2, <1>5, <1>6

(* Nothing that the service is about changes. *)
LEMMA ServiceRests ==
  ASSUME Waiting(memQueue', Unsent') = Waiting(memQueue, Unsent),
         WaitsBefore(memQueue', Unsent') = WaitsBefore(memQueue, Unsent),
         UNCHANGED inService
  PROVE  UNCHANGED Service!vars
BY DEF Service!vars

(* A request arrives: Accept. *)
LEMMA ServiceArrive ==
  ASSUME TypeInv, ReqInv, FreshLast, NEW r \in Requests, Arrive(r)
  PROVE  Service!Accept(r) /\ FreshLast' /\ Unsent' = Unsent
<1>1. /\ memQueue' = Append(memQueue, r) /\ fresh' = fresh \cup {r} /\ r \notin owed
      /\ UNCHANGED inService /\ memQueue \in Seq(Requests) /\ Unsent' = Unsent
  BY OtherView DEF Arrive, TypeInv, TypeOK
<1>2. PICK m, n, u : m = memQueue /\ n = memQueue' /\ u = Unsent
  OBVIOUS
<1>3. ~Queued(m, r) /\ ~Taken(u, r) /\ r \notin inService
  BY <1>1, <1>2, PlacesOfRequest
<1>4. \A x, y : /\ Queued(n, x) <=> Queued(m, x) \/ x = r
                /\ QueuedBefore(n, x, y) <=> QueuedBefore(m, x, y) \/ (Queued(m, x) /\ y = r)
  BY <1>1, <1>2, QueuedAppend
<1>5. Waiting(n, u) = Waiting(m, u) \cup {r} /\ r \notin Waiting(m, u)
  BY <1>3, <1>4 DEF Waiting
<1>6. ASSUME NEW x \in Requests, NEW y \in Requests
      PROVE  Ahead(n, u, x, y) <=> Ahead(m, u, x, y) \/ ((Queued(m, x) \/ Taken(u, x)) /\ y = r)
  BY <1>4 DEF Ahead
<1>7. WaitsBefore(n, u)
        = WaitsBefore(m, u) \cup ({x \in Waiting(m, u) : Address[x] = Address[r]} \X {r})
  <2>1. ASSUME NEW x \in Requests, NEW y \in Requests
        PROVE  <<x, y>> \in WaitsBefore(n, u) <=>
                 \/ <<x, y>> \in WaitsBefore(m, u)
                 \/ x \in Waiting(m, u) /\ Address[x] = Address[r] /\ y = r
    BY <1>6 DEF WaitsBefore, Waiting
  <2>2. WaitsBefore(n, u) \subseteq Requests \X Requests
        /\ WaitsBefore(m, u) \subseteq Requests \X Requests
        /\ Waiting(m, u) \subseteq Requests
    BY DEF WaitsBefore, Waiting
  <2>. QED  BY <2>1, <2>2
<1>8. Service!Accept(r)
  BY <1>1, <1>2, <1>3, <1>5, <1>7 DEF Service!Accept
<1>9. ASSUME NEW i \in 1 .. Len(n), NEW j \in 1 .. Len(n), i < j, n[i] \in fresh'
      PROVE  n[j] \in fresh'
  <2>1. /\ Len(n) = Len(m) + 1 /\ Len(m) \in Nat
        /\ \A k \in 1 .. Len(m) : n[k] = m[k]
        /\ n[Len(m) + 1] = r
    BY <1>1, <1>2
  <2>2. CASE j = Len(m) + 1
    BY <1>1, <2>1, <2>2
  <2>3. CASE j \in 1 .. Len(m)
    <3>1. i \in 1 .. Len(m) /\ m[i] = n[i] /\ m[j] = n[j]
      BY <1>9, <2>1, <2>3
    <3>2. m[i] # r
      BY <1>3, <3>1 DEF Queued
    <3>3. m[i] \in fresh
      BY <1>1, <1>9, <3>1, <3>2
    <3>. QED  BY <1>1, <1>2, <1>9, <2>3, <3>1, <3>3 DEF FreshLast
  <2>. QED  BY <2>1, <2>2, <2>3
<1>. QED  BY <1>1, <1>2, <1>8, <1>9 DEF FreshLast

(* A request whose access is at the head of a queue has no other one. *)
LEMMA AccessIsOne ==
  ASSUME TypeInv, ReqInv, NEW q \in Queues, Unsent[q] # << >>,
         NEW r \in Requests, Head(Unsent[q]).req = r
  PROVE  ~Taken(Popped(Unsent, q), r) /\ \A x : ~TakenBefore(Unsent, x, r)
<1>1. PICK u : u = Unsent
  OBVIOUS
<1>2. /\ u \in [Queues -> Seq(CommandType)] /\ u[q] # << >> /\ Head(u[q]).req = r
      /\ HeldOnce(u, AccessesOf(r))
  BY <1>1, UnsentType DEF ReqInv
<1>3. u[q][1].req = r /\ 1 \in 1 .. Len(u[q]) /\ u[q] \in Seq(CommandType)
  BY <1>2, TailOfCommands
<1>4. ASSUME NEW p \in Queues, NEW k \in 1 .. Len(u[p]), u[p][k].req = r
      PROVE  p = q /\ k = 1
  <2>1. u[p] \in Seq(CommandType)
    BY <1>2
  <2>2. u[p][k] \in AccessesOf(r) /\ u[q][1] \in AccessesOf(r)
    BY <1>3, <1>4, <2>1 DEF AccessesOf
  <2>. QED  BY <1>2, <1>3, <2>2 DEF HeldOnce
<1>5. PICK v : v = Popped(u, q)
  OBVIOUS
<1>6. v[q] = Tail(u[q]) /\ \A p \in Queues : p # q => v[p] = u[p]
  BY <1>2, <1>5 DEF Popped
<1>7. ASSUME NEW p \in Queues, NEW k \in 1 .. Len(v[p]), v[p][k].req = r
      PROVE  FALSE
  <2>1. CASE p = q
    <3>1. k + 1 \in 1 .. Len(u[q]) /\ v[q][k] = u[q][k + 1] /\ k + 1 # 1
      BY <1>2, <1>3, <1>6, <2>1, TailOfCommands
    <3>. QED  BY <1>4, <1>7, <2>1, <3>1
  <2>2. CASE p # q
    BY <1>4, <1>6, <1>7, <2>2
  <2>. QED  BY <2>1, <2>2
<1>8. ~Taken(v, r)
  BY <1>7 DEF Taken
<1>9. ASSUME NEW x, TakenBefore(u, x, r) PROVE FALSE
  <2>1. PICK p \in Queues : \E k, l \in 1 .. Len(u[p]) :
          k < l /\ u[p][k].req = x /\ u[p][l].req = r
    BY <1>9 DEF TakenBefore
  <2>2. PICK k \in 1 .. Len(u[p]), l \in 1 .. Len(u[p]) : k < l /\ u[p][l].req = r
    BY <2>1
  <2>3. l = 1
    BY <1>4, <2>2
  <2>. QED  BY <2>2, <2>3
<1>. QED  BY <1>1, <1>5, <1>8, <1>9

(* The head of a queue is sent: HandOver, if it is an access. *)
LEMMA ServiceIssue ==
  ASSUME TypeInv, ReqInv, Placed(Unsent), NEW ready \in SUBSET Queues, CycleCommandQueues(ready)
  PROVE  /\ \/ UNCHANGED Service!vars
            \/ \E r \in Requests : Service!HandOver(r)
         /\ Placed(Unsent')
<1>0. memQueue' = memQueue
  BY DEF CycleCommandQueues, queueVars
<1>1. CASE UNCHANGED <<rank, inService, refreshQueued, Unsent>>
  BY <1>0, <1>1, ServiceRests
<1>2. ASSUME NEW q \in Queues, NEW c \in CommandType,
             Unsent[q] # << >>, c = Head(Unsent[q]),
             Unsent' = [Unsent EXCEPT ![q] = Tail(@)],
             inService' = inService \cup ({c.req} \ {NoRequest})
      PROVE  /\ \/ UNCHANGED Service!vars
                \/ \E r \in Requests : Service!HandOver(r)
             /\ Placed(Unsent')
  <2>1. PICK m, u, v : m = memQueue /\ u = Unsent /\ v = Unsent'
    OBVIOUS
  <2>2. /\ u \in [Queues -> Seq(CommandType)] /\ Placed(u) /\ v = Popped(u, q)
        /\ u[q] # << >> /\ c = Head(u[q])
    BY <1>2, <2>1, UnsentType DEF Popped
  <2>3. \A x, y : /\ Taken(u, x) <=> Taken(v, x) \/ c.req = x
                  /\ TakenBefore(v, x, y) => TakenBefore(u, x, y)
                  /\ TakenBefore(u, x, y) /\ c.req # x => TakenBefore(v, x, y)
    BY <2>2, TakenPop
  <2>4. Placed(v)
    BY <2>2, PlacedPop
  <2>5. CASE c.req = NoRequest
    <3>1. \A x \in Requests : x # NoRequest
      BY ControllerAssumption
    <3>2. \A x, y \in Requests : /\ Taken(v, x) <=> Taken(u, x)
                                 /\ TakenBefore(v, x, y) <=> TakenBefore(u, x, y)
      BY <2>3, <2>5, <3>1
    <3>3. \A x, y \in Requests : Ahead(m, v, x, y) <=> Ahead(m, u, x, y)
      BY <3>2 DEF Ahead
    <3>4. Waiting(m, v) = Waiting(m, u) /\ WaitsBefore(m, v) = WaitsBefore(m, u)
      BY <3>2, <3>3, SameService
    <3>5. inService' = inService
      BY <1>2, <2>5
    <3>. QED  BY <1>0, <2>1, <2>4, <3>4, <3>5, ServiceRests
  <2>6. CASE c.req # NoRequest
    <3>1. PICK r \in Requests : r = c.req
      BY <2>6 DEF CommandType
    <3>2. Taken(u, r) /\ ~Queued(m, r) /\ r \notin inService
      BY <2>1, <2>3, <3>1, PlacesOfRequest
    <3>3. ~Taken(v, r) /\ \A x : ~TakenBefore(u, x, r)
      BY <2>1, <2>2, <3>1, AccessIsOne
    <3>4. \A y : ~TakenBefore(v, r, y)
      BY <3>3 DEF Taken, TakenBefore
    <3>5. Waiting(m, v) = Waiting(m, u) \ {r} /\ r \in Waiting(m, u)
      BY <2>3, <3>1, <3>2, <3>3 DEF Waiting
    <3>6. \A x \in Requests : ~Ahead(m, u, x, r)
      BY <3>2, <3>3 DEF Ahead, QueuedBefore, Queued
    <3>7. ASSUME NEW x \in Requests, NEW y \in Requests
          PROVE  Ahead(m, v, x, y) <=> Ahead(m, u, x, y) /\ x # r
      BY <2>3, <3>1, <3>2, <3>3, <3>4 DEF Ahead, QueuedBefore, Queued
    <3>8. ASSUME NEW x \in Requests, NEW y \in Requests, Ahead(m, u, x, y)
          PROVE  y \in Waiting(m, u)
      BY <3>8 DEF Ahead, Waiting, QueuedBefore, TakenBefore, Queued, Taken
    <3>9. WaitsBefore(m, v) = WaitsBefore(m, u) \ ({r} \X Waiting(m, u))
      <4>1. ASSUME NEW x \in Requests, NEW y \in Requests
            PROVE  <<x, y>> \in WaitsBefore(m, v) <=>
                     <<x, y>> \in WaitsBefore(m, u) /\ ~(x = r /\ y \in Waiting(m, u))
        BY <3>7, <3>8 DEF WaitsBefore
      <4>2. WaitsBefore(m, v) \subseteq Requests \X Requests
            /\ WaitsBefore(m, u) \subseteq Requests \X Requests
        BY DEF WaitsBefore
      <4>. QED  BY <4>1, <4>2
    <3>10. \A x \in Waiting(m, u) : <<x, r>> \notin WaitsBefore(m, u)
      BY <3>6 DEF WaitsBefore, Waiting
    <3>11. inService' = inService \cup {r}
      BY <1>2, <2>6, <3>1
    <3>12. Service!HandOver(r)
      BY <1>0, <2>1, <3>5, <3>9, <3>10, <3>11 DEF Service!HandOver
    <3>. QED  BY <2>1, <2>4, <3>12
  <2>. QED  BY <2>5, <2>6
<1>. QED  BY <1>1, <1>2, IssueView

(* A request is completed: Complete. *)
LEMMA ServiceComplete ==
  ASSUME NEW r \in Requests, RequestComplete(r)
  PROVE  Service!Complete(r) /\ Unsent' = Unsent /\ UNCHANGED <<memQueue, fresh>>
<1>1. /\ inService' = inService \ {r} /\ r \in inService
      /\ UNCHANGED <<memQueue, fresh>> /\ Unsent' = Unsent
  BY OtherView DEF RequestComplete
<1>. QED  BY <1>1 DEF Service!Complete

(* Every step of the controller is a step of the service, or none. *)
LEMMA ServiceStep ==
  ASSUME EveryBankHasQueue, TypeInv, ReqInv, FreshLast, Placed(Unsent), [Next]_vars
  PROVE  [Service!Next]_(Service!vars) /\ FreshLast' /\ Placed(Unsent')
<1>0. ASSUME Unsent' = Unsent, UNCHANGED <<memQueue, inService>>
      PROVE  UNCHANGED Service!vars /\ Placed(Unsent')
  BY <1>0, ServiceRests
<1>1. CASE \E r \in Requests : Arrive(r)
  <2>1. PICK r \in Requests : Service!Accept(r) /\ FreshLast' /\ Unsent' = Unsent
    BY <1>1, ServiceArrive
  <2>. QED  BY <2>1 DEF Service!Next
<1>2. CASE \E r \in Requests : RequestComplete(r)
  <2>1. PICK r \in Requests :
          Service!Complete(r) /\ Unsent' = Unsent /\ UNCHANGED <<memQueue, fresh>>
    BY <1>2, ServiceComplete
  <2>2. FreshLast'
    BY <2>1 DEF FreshLast
  <2>. QED  BY <2>1, <2>2 DEF Service!Next
<1>3. CASE \/ \E rk \in Ranks, g \in Groups : RefreshCallback(rk, g)
           \/ \E rk \in Ranks, b \in Banks : DeviceEvent(rk, b)
           \/ \E ready \in SUBSET Ranks : HandleLowPower(ready)
           \/ FindRefresh
           \/ UNCHANGED vars
  <2>1. Unsent' = Unsent
    BY <1>3, OtherView
  <2>2. UNCHANGED <<memQueue, fresh, inService>>
    BY <1>3 DEF RefreshCallback, DeviceEvent, HandleLowPower, FindRefresh, vars, queueVars
  <2>3. FreshLast'
    BY <2>2 DEF FreshLast
  <2>. QED  BY <1>0, <2>1, <2>2, <2>3
<1>4. CASE Schedule
  <2>1. fresh' = {} /\ UNCHANGED inService
    BY <1>4 DEF Schedule
  <2>2. FreshLast'
    BY <2>1 DEF FreshLast
  <2>3. CASE Candidates = {}
    <3>1. Unsent' = Unsent
      BY <1>4, <2>3, OtherView
    <3>2. memQueue' = memQueue
      BY <1>4, <2>3 DEF Schedule
    <3>. QED  BY <1>0, <2>1, <2>2, <3>1, <3>2
  <2>4. CASE Candidates # {}
    BY <1>4, <2>1, <2>2, <2>4, ServiceSchedule, ServiceRests
  <2>. QED  BY <2>3, <2>4
<1>5. CASE PrechargeForRefresh
  <2>0. UNCHANGED <<memQueue, fresh, inService>>
    BY <1>5 DEF PrechargeForRefresh, queueVars
  <2>1. FreshLast'
    BY <2>0 DEF FreshLast
  <2>2. CASE Unsent' = Unsent
    BY <1>0, <2>0, <2>1, <2>2
  <2>3. ASSUME NEW rk \in Ranks, NEW b \in Banks,
               Unsent' = [Unsent EXCEPT ![GetCommandQueueId(rk, b)] =
                 Append(@, Command("PRECHARGE_ALL", rk, b, NoRow, NoRequest))]
        PROVE  UNCHANGED Service!vars /\ Placed(Unsent')
    <3>1. PICK c \in CommandType :
            c = Command("PRECHARGE_ALL", rk, b, NoRow, NoRequest) /\ c.req = NoRequest
      <4>1. LET d == Command("PRECHARGE_ALL", rk, b, NoRow, NoRequest)
            IN d \in CommandType /\ d.req = NoRequest
        BY DEF Command, CommandType
      <4>. QED  BY <4>1
    <3>2. PICK q \in Queues : q = GetCommandQueueId(rk, b)
      BY QueueExists
    <3>3. Unsent' = Pushed(Unsent, q, c)
      BY <2>3, <3>1, <3>2 DEF Pushed
    <3>. QED  BY <2>0, <3>1, <3>3, ServicePush, ServiceRests
  <2>. QED  BY <1>5, <2>1, <2>2, <2>3, PrechargeView
<1>6. CASE QueueRefresh
  <2>0. UNCHANGED <<memQueue, fresh, inService>>
    BY <1>6 DEF QueueRefresh, queueVars
  <2>1. FreshLast'
    BY <2>0 DEF FreshLast
  <2>2. PICK rk \in Ranks, j \in Banks :
           Unsent' = [Unsent EXCEPT ![GetCommandQueueId(rk, j)] =
                Append(@, Command("REFRESH", rk, j, NoRow, NoRequest))]
    BY <1>6, RefreshView
  <2>3. PICK c \in CommandType :
          c = Command("REFRESH", rk, j, NoRow, NoRequest) /\ c.req = NoRequest
    <3>1. LET d == Command("REFRESH", rk, j, NoRow, NoRequest)
          IN d \in CommandType /\ d.req = NoRequest
      BY DEF Command, CommandType
    <3>. QED  BY <3>1
  <2>4. PICK q \in Queues : q = GetCommandQueueId(rk, j)
    BY QueueExists
  <2>5. Unsent' = Pushed(Unsent, q, c)
    BY <2>2, <2>3, <2>4 DEF Pushed
  <2>. QED  BY <2>0, <2>1, <2>3, <2>5, ServicePush, ServiceRests
<1>7. CASE \E ready \in SUBSET Queues : CycleCommandQueues(ready)
  <2>1. UNCHANGED <<memQueue, fresh>>
    BY <1>7 DEF CycleCommandQueues, queueVars
  <2>2. FreshLast'
    BY <2>1 DEF FreshLast
  <2>. QED  BY <1>7, <2>2, ServiceIssue DEF Service!Next
<1>8. CASE CleanupCallback
  <2>1. UNCHANGED <<memQueue, fresh, inService>>
    BY <1>8 DEF CleanupCallback, queueVars
  <2>2. FreshLast'
    BY <2>1 DEF FreshLast
  <2>. QED  BY <1>0, <1>8, <2>1, <2>2, CleanupView
<1>. QED  BY <1>1, <1>2, <1>3, <1>4, <1>5, <1>6, <1>7, <1>8 DEF Next

(* Nothing waits at the start. *)
LEMMA ServiceInit ==
  ASSUME Init
  PROVE  Service!Init /\ FreshLast /\ Placed(Unsent)
<1>1. /\ Len(memQueue) = 0 /\ inService = {} /\ 1 .. 0 = {}
      /\ \A q \in Queues : Unsent[q] = << >>
  BY DEF Init, Unsent
<1>2. \A q \in Queues : Len(Unsent[q]) = 0
  BY <1>1
<1>3. \A x : ~Queued(memQueue, x) /\ ~Taken(Unsent, x)
  BY <1>1, <1>2 DEF Queued, Taken
<1>4. \A x, y : ~Ahead(memQueue, Unsent, x, y)
  BY <1>1, <1>2, <1>3 DEF Ahead, QueuedBefore, TakenBefore
<1>5. Waiting(memQueue, Unsent) = {} /\ WaitsBefore(memQueue, Unsent) = {}
  BY <1>3, <1>4 DEF Waiting, WaitsBefore
<1>. QED  BY <1>1, <1>2, <1>5 DEF Service!Init, FreshLast, Placed

(* The controller implements RowService: whatever the searches of Cycle()  *)
(* prefer, and through refreshes and powerdowns, a request is handed to    *)
(* the devices once and the requests for one row in the order in which     *)
(* they came, if every bank has a command queue.                           *)
THEOREM ControllerServesRows ==
  ASSUME EveryBankHasQueue
  PROVE  Spec => ServesRowsInOrder
<1>1. Init => Service!Init /\ FreshLast /\ Placed(Unsent)
  BY ServiceInit
<1>2. TypeInv /\ ReqInv /\ FreshLast /\ Placed(Unsent) /\ [Next]_vars
        => [Service!Next]_(Service!vars) /\ FreshLast' /\ Placed(Unsent)'
  BY ServiceStep
<1>3. TypeInv /\ ReqInv /\ [Next]_vars => ReqInv'
  BY ReqStep
<1>. QED  BY <1>1, <1>2, <1>3, ReqInit, ControllerTypeInv, PTL
          DEF Spec, ServesRowsInOrder, Service!Spec

-----------------------------------------------------------------------------
(* What a group that is due, or whose REFRESH waits, has in the command    *)
(* queues.                                                                 *)
LEMMA DueTakes ==
  ASSUME EveryBankHasQueue, TypeInv, DueMarked, RefInv, [Next]_vars, NEW rk \in Ranks,
         NEW g \in Groups, NeedRefresh(rk, g) \/ RefreshWaits(rk, g),
         NEW x \in Requests, RankOf(x) = rk, BankOf(x) \in GroupBanks(g)
  PROVE  Taken(Unsent', x) => Taken(Unsent, x)
<1>1. bankNeedRefresh[rk][BankOf(x)] \/ refreshQueued[rk][BankOf(x)]
  <2>1. CASE NeedRefresh(rk, g)
    BY <2>1 DEF DueMarked
  <2>2. CASE RefreshWaits(rk, g)
    <3>1. Held(Unsent, RefreshesOf(rk, g))
      BY <2>2, UnsentType DEF RefreshWaits, Held, RefreshesOf
    <3>. QED  BY <3>1 DEF RefInv, RefreshAt
  <2>. QED  BY <2>1, <2>2
<1>2. PICK u, v : u = Unsent /\ v = Unsent'
  OBVIOUS
<1>3. u \in [Queues -> Seq(CommandType)]
  BY <1>2, UnsentType
<1>4. ASSUME NEW q \in Queues, NEW c \in CommandType, c.req = NoRequest, v = Pushed(u, q, c)
      PROVE  Taken(v, x) => Taken(u, x)
  BY <1>3, <1>4, TakenPush
<1>5. CASE Schedule /\ Candidates # {}
  <2>1. PICK r \in Requests, last \in BOOLEAN :
           /\ Eligible(r) /\ QueueOf(r) \in Queues /\ u[QueueOf(r)] = << >>
           /\ v = [u EXCEPT ![QueueOf(r)] = CommandsFor(r, last)]
    BY <1>2, <1>5, ScheduleView
  <2>2. PICK s : s = CommandsFor(r, last)
    OBVIOUS
  <2>3. /\ s \in Seq(CommandType) /\ s # << >> /\ AccessLast(s, r)
    BY <2>1, <2>2, CommandsForRequest DEF AccessLast
  <2>4. PICK q \in Queues : q = QueueOf(r)
    BY <2>1
  <2>5. v = Filled(u, q, s) /\ u[q] = << >>
    BY <2>1, <2>2, <2>4 DEF Filled
  <2>6. Taken(v, x) <=> Taken(u, x) \/ x = r
    BY <1>3, <2>3, <2>5, TakenFill
  <2>7. x # r
    BY <1>1, <2>1 DEF Eligible
  <2>. QED  BY <1>2, <2>6, <2>7
<1>6. CASE PrechargeForRefresh
  <2>1. ASSUME NEW b \in Banks, NEW k \in Ranks,
               Unsent' = [Unsent EXCEPT ![GetCommandQueueId(k, b)] =
                 Append(@, Command("PRECHARGE_ALL", k, b, NoRow, NoRequest))]
        PROVE  Taken(v, x) => Taken(u, x)
    <3>1. PICK c : c = Command("PRECHARGE_ALL", k, b, NoRow, NoRequest)
      OBVIOUS
    <3>2. c \in CommandType /\ c.req = NoRequest
      BY <3>1 DEF Command, CommandType
    <3>3. PICK q \in Queues : q = GetCommandQueueId(k, b)
      BY QueueExists
    <3>4. v = Pushed(u, q, c)
      BY <1>2, <2>1, <3>1, <3>3 DEF Pushed
    <3>. QED  BY <1>4, <3>2, <3>4
  <2>. QED  BY <1>2, <1>6, <2>1, PrechargeView
<1>7. CASE QueueRefresh
  <2>1. PICK k \in Ranks, b \in Banks :
           Unsent' = [Unsent EXCEPT ![GetCommandQueueId(k, b)] =
             Append(@, Command("REFRESH", k, b, NoRow, NoRequest))]
    BY <1>7, RefreshView
  <2>2. PICK c : c = Command("REFRESH", k, b, NoRow, NoRequest)
    OBVIOUS
  <2>3. c \in CommandType /\ c.req = NoRequest
    BY <2>2 DEF Command, CommandType
  <2>4. PICK q \in Queues : q = GetCommandQueueId(k, b)
    BY QueueExists
  <2>5. v = Pushed(u, q, c)
    BY <1>2, <2>1, <2>2, <2>4 DEF Pushed
  <2>. QED  BY <1>2, <1>4, <2>3, <2>5
<1>8. CASE \E ready \in SUBSET Queues : CycleCommandQueues(ready)
  <2>1. ASSUME NEW q \in Queues, Unsent[q] # << >>, Unsent' = [Unsent EXCEPT ![q] = Tail(@)]
        PROVE  Taken(v, x) => Taken(u, x)
    <3>1. v = Popped(u, q) /\ u[q] # << >>
      BY <1>2, <2>1 DEF Popped
    <3>2. PICK c : c = Head(u[q])
      OBVIOUS
    <3>. QED  BY <1>3, <3>1, <3>2, TakenPop
  <2>. QED  BY <1>2, <1>8, <2>1, IssueView
<1>9. CASE Unsent' = Unsent
  BY <1>9
<1>. QED  BY <1>5, <1>6, <1>7, <1>8, <1>9, CleanupView, OtherView DEF Next

(* From the pulse that makes a group due until the devices have its        *)
(* REFRESH no request for its banks is taken, for any number of ranks and  *)
(* groups, any threshold and either queue model: ProcessRefreshPulse(),    *)
(* HandleRefresh() and CycleCommandQueues() hand the marks over in time.   *)
THEOREM DueGroupsTakeNothing ==
  ASSUME GroupsCover, EveryBankHasQueue
  PROVE  Spec => RefreshComesFirst
<1>1. TypeInv /\ DueMarked /\ RefInv /\ [Next]_vars =>
        [\A rk \in Ranks, g \in Groups : NeedRefresh(rk, g) \/ RefreshWaits(rk, g) =>
           TakenOf(rk, g)' \subseteq TakenOf(rk, g)]_vars
  <2>. SUFFICES ASSUME TypeInv, DueMarked, RefInv, [Next]_vars, NEW rk \in Ranks, NEW g \in Groups,
                       NeedRefresh(rk, g) \/ RefreshWaits(rk, g)
                PROVE  TakenOf(rk, g)' \subseteq TakenOf(rk, g)
    OBVIOUS
  <2>1. ASSUME NEW x \in TakenOf(rk, g)'
        PROVE  x \in TakenOf(rk, g)
    <3>1. /\ x \in Requests /\ RankOf(x) = rk /\ BankOf(x) \in GroupBanks(g)
          /\ Taken(Unsent', x)
      BY <2>1 DEF TakenOf, RankOf, BankOf, GroupBanks, RefreshedBanks, Taken
    <3>2. Taken(Unsent, x)
      BY <3>1, DueTakes
    <3>. QED  BY <3>1, <3>2 DEF TakenOf
  <2>. QED  BY <2>1
<1>. QED  BY <1>1, DueGroupsMarked, ControllerRefreshInv, ControllerTypeInv, PTL
          DEF Spec, RefreshComesFirst
=============================================================================
