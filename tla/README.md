# A TLA+ model of the gem5 + NVMain hybrid memory

The repository couples two simulators. `gem5-cache/` is gem5 with a changed
cache hierarchy; `nvmain-test/` is NVMain, a cycle-level simulator of DRAM and
of non-volatile memories. A machine built from
`gem5-cache/configs/common/MemConfig.py` has its caches on a coherent crossbar
(`membus`) and two main memories behind it: a PCM (`NVMainMemory`) and a DRAM
(`MyDramMemory`), each with an NVMain of its own.

This project models the path of an access from a cache to a memory bank: the
coherence of the caches and what they do with misses, snoops and writebacks;
the layers of the crossbar; the place where the two simulators meet; the
scheduling inside NVMain, with its event queue. It is about where packets and
requests wait, who has to wake whom, who owns a block, which command may go to
a bank, and what refreshes and powerdowns do in between. Of the data only the
version of a block is kept; timing constants, energy and statistics are left
out.

Paths below are relative to the repository. Files whose names end in `~` or
contain `复件` or `副本` are stale copies next to the real ones and are ignored.

## 1. Inventory

| Component | Source | State | Operations | Talks to |
|---|---|---|---|---|
| Caches | `gem5-cache/src/mem/cache/cache_impl.hh`, `mshr.cc`, `mshr_queue.cc`, `base.hh`, `blk.hh`, `tags/base_set_assoc.hh` | blocks (valid, readable, writable, dirty, load locks), lines per memory in a set, MSHRs with targets and deferred targets, write buffer, causes of blocking | `recvTimingReq`, `access`, `getNextMSHR`, `getTimingPacket`, `sendDeferredPacket`, `recvTimingSnoopReq`, `handleSnoop`, `recvTimingResp`, `handleFill`, `allocateBlock` | processor above, crossbar below (requests, snoops, responses) |
| Replacement policies | `gem5-cache/src/mem/cache/tags/` (`brp.cc` for the L3) | recency lists, shadow directories, shares of the cores | `accessBlock`, `insertBlock`, `findVictim`, `setRecord` | caches |
| Crossbar layer | `gem5-cache/src/mem/xbar.cc` (`BaseXBar::Layer`) | `state`, `waitingForLayer`, `waitingForPeer`, release event, drain manager | `tryTiming`, `succeededTiming`, `failedTiming`, `releaseLayer`, `retryWaiting`, `recvRetry`, `drain` | source ports (`sendRetry`), destination port (`recvRetry`), event queue |
| Coherent crossbar | `gem5-cache/src/mem/coherent_xbar.cc` | one request layer per memory, one response layer per master, routes, outstanding snoops | `recvTimingReq`, `recvTimingResp`, `recvTimingSnoopResp`, `forwardTiming`, retries | masters, layers, memories, all by synchronous calls |
| Memory objects | `nvmain-test/Simulators/gem5/nvmain_mem.cc`, `mydram_mem.cc` | `retryRead`, `retryWrite`, `retryResp`, `responseQueue`, `m_request_map`, `m_awake`, `clockEvent`, `respondEvent`, drain manager | `recvTimingReq`, `recvAtomic`, `RequestComplete`, `SendResponses`, `recvRetry`, `tick`, `wakeup`, `drain` | crossbar (`sendRetry`, `sendTimingResp`), NVMain (`IssueCommand`, `Cycle`, callback `RequestComplete`) |
| NVMain front end | `nvmain-test/NVM/nvmain.cpp` | channels, prefetch buffer, pending requests | `IsIssuable`, `IssueCommand`, `Cycle`, `RequestComplete` | memory object above, controllers below |
| Memory controller | `nvmain-test/MemControl/FRFCFS/FRFCFS.cpp`, `nvmain-test/src/MemoryController.cpp` | transaction queue; command queues; per bank the open row it expects, activation flag and starvation counter; refresh counters, marks and rotation; powerdown flags; `curQueue` | `IssueCommand`, `Cycle`, the `Find...` searches, `IssueMemoryCommands`, `HandleRefresh`, `HandleLowPower`, `CycleCommandQueues`, `CleanupCallback`, `RefreshCallback`, `RequestComplete` | NVMain above, rank devices below, event queue |
| Rank, bank, subarray | `nvmain-test/Ranks/StandardRank/`, `Banks/DDR3Bank/`, `src/SubArray.cpp` | state of rank, banks and arrays; open rows; timers | `IsIssuable`, `IssueCommand`, `PowerDown`, `PowerUp`, precharge and refresh completion | controller, event queue |
| Off-chip bus | `nvmain-test/Interconnect/OffChipBus/` | none that matters | passes commands to the rank of their address | controller, ranks |
| Event queue of NVMain | `nvmain-test/src/EventQueue.cpp` | per cycle a list of events by priority, `nextEventCycle`, the clock | `InsertEvent`, `RemoveEvent`, `FindEvent`, `Loop`, `Process` | everything in NVMain: the handlers it calls insert and remove events |
| Address decoding | `nvmain-test/src/AddressTranslator.cpp`, `TranslationMethod.cpp` | configuration | `Translate`, `ReverseTranslate` | NVMain, controllers |
| Other controllers, DRAM caches | `nvmain-test/MemControl/*` | of their own | of their own | as FRFCFS |
| Endurance, encoding, energy, statistics | `nvmain-test/Endurance`, `DataEncoders`, `src/Stats.cpp` | counters | accounting | devices |
| XBarControl | `gem5-cache/src/mem/xbar_control.cc` | migration tables | page migration | commented out in the one configuration that names it |
| CPUs, Ruby, devices, simulator core | `gem5-cache/src/` | - | - | masters of the caches and of the crossbar |

What is hard in each, and what makes it correct:

* **Caches.** A snoop may arrive before the cache's own request for the block is
  sent, while it is in service, while the block waits in the write buffer, or
  between a refused request and its retry; a request in service gathers snoops
  that are answered later and in turn promise data to others. Correct: one
  owner of every block, one writer, no copy that lacks a write, every request
  in service answered once and no circle of promises, no load lock on bytes that have
  been written since, a processor shut out only for a cause that will go, and the
  counters of PCM and DRAM lines right.
* **Event queue.** Handlers insert into, and remove from, the list `Process()` is
  walking through, and rewrite `nextEventCycle`, which it uses afterwards. Correct:
  every event happens in its cycle, in the order of priorities; no step of
  `Loop()` passes one over; the list of a cycle comes to an end.
* **Crossbar layer.** A retry of the destination may come while the layer is
  busy; a port told to retry may send from inside the call or send nothing.
  Correct: no refused port is forgotten or entered twice, whoever waits has an
  event to wait for, the assertions of `recvRetry()` and `tryTiming()` hold.
* **Memory object.** `RequestComplete()` runs inside `tick()` and calls
  `sendRetry()` in the middle of its work; the crossbar calls back into
  `recvTimingReq()` before `RequestComplete()` goes on. Writes are answered
  before NVMain performs them. The clock stops and is started again; a drain may
  fall anywhere. Correct: retry flags and layers agree, one response per
  packet, a running clock while something is outstanding, a drain that ends and
  that finds the object at rest.
* **Controller and devices.** The controller's picture of a bank changes when a
  command is *queued*, the bank when it is *issued*. Refresh and powerdown insert
  commands of their own, and implicit precharges happen later still. Correct:
  no request is lost or performed twice, requests for one row keep their order,
  each command finds the row it was made for, refreshes happen in spite of
  traffic, sleeping ranks are woken, nothing starves that should not.

The same list, line by line, is under `hazards` in `PROJECT.json`.

The deployed configurations (`nvmain-test/Config/My_Pcm.config`,
`My_Dram.config`) use `FRFCFS`, one rank of eight banks, `QueueModel PerRank`,
`ScheduleScheme 2`, `ClosePage 0`, one subarray per bank (`MATHeight = ROWS`),
low power with fast exit, and, for the DRAM, a refresh of all banks at once. The
model keeps these as CONSTANTS, so that the other policies the code offers are
checked too.

## 2. Modules

| Module | Models | Uses |
|---|---|---|
| `Cache` | a cache as operators on a record, one for each handler | |
| `CoherentCaches` | caches on a crossbar above a memory, with their processors | `Cache` |
| `MCCoherentCaches` | instances for TLC | |
| `CacheFacts` | lemmas about the operators of a cache, and what each keeps of its local invariant | `CoherentCaches`, `ListFacts` |
| `CoherentCachesProofs` | proofs about `CoherentCaches` | `CacheFacts` |
| `Layer` | a layer as operations on a record | |
| `XBarLayer` | one layer and every environment the port protocol allows: the abstract specification of a layer | `Layer` |
| `LayerFacts` | lemmas about the operations of a layer and its ports | `Layer` |
| `XBarLayerProofs` | proofs about `XBarLayer` | |
| `NVMainMemory` | the memory object, a variable per member, an operator per method | |
| `HybridMemory` | masters, crossbar layers and memory objects together | `NVMainMemory`, `Layer`, `XBarLayer` |
| `MCHybridMemory` | instances for TLC | |
| `HybridMemoryProofs` | proofs about `HybridMemory` | `LayerFacts` |
| `MemoryRank` | rank, banks and subarrays as operations on a record | |
| `RowService` | abstract specification of a controller: each request handed over once, the requests for one row in order | |
| `FRFCFS` | the controller, driving ranks of `MemoryRank` | `MemoryRank`, `RowService` |
| `MCFRFCFS` | instances for TLC | |
| `FRFCFSProofs` | proofs about `FRFCFS` | `ListFacts` |
| `Agenda` | abstract specification of an event queue: an event happens in its cycle, and time passes no cycle in which something is to happen | |
| `EventQueue` | the queue with the handlers that use it | `Agenda` |
| `MCEventQueue` | instance for TLC | |
| `EventQueueProofs` | proofs about `EventQueue` | `ListFacts` |
| `ListFacts` | lemmas about sequences and least elements | |

Definitions carry the names of the methods and members they stand for;
`map` in `PROJECT.json` gives the lines. A definition whose comment begins with
`Mutant:` is no part of the model: it is the following definition with a
plausible error in it, kept to show that a property notices.

### 2.1 Layer, XBarLayer

The record holds the members of `BaseXBar::Layer`. `BUSY` between events means
that the release event is scheduled. `retrying` is the local variable
`retryingPort` of `retryWaiting()`: while the state is `RETRY` the called port is
running. `XBarLayer` adds the environment: a port refused sends nothing before
its `sendRetry()`; a destination that refused calls `recvRetry()` once.

### 2.2 NVMainMemory, HybridMemory

gem5 runs one event at a time, and the calls of a handler are synchronous. A
handler is split into several steps only where it calls out and the callee may
call back: `tick()` (`TickBegins` ... `TickReturns`), and within it
`RequestComplete()` (`pc` goes through `retryRead`, `retryWrite`, `finish`), and
`retryWaiting()` (a layer in `RETRY`). `Quiet` says that no handler is running; only
then does another event start. So `MasterResends` between `TickRetriesRead` and
`TickRetriesWrite` is the re-entrant call, and nothing else can come between. A refused
master sends the same packet again; a cache makes its packet afresh at the retry (cache_impl.hh:2486-2505),
which is in `CoherentCaches`. No property here depends on which packet it is.

| Code | Action |
|---|---|
| `CoherentXBar::recvTimingReq` + `MemoryPort::recvTimingReq` | `MasterSends`, `MasterResends` |
| `sendRetry` the master does not answer at once | `MasterDefers` |
| `Layer::releaseLayer` | `Release` |
| `SendResponses` + `CoherentXBar::recvTimingResp` | `SendResponses` |
| `MemoryPort::recvRetry` | `MemRecvRetry` |
| `tick`, with the completions in it | `Tick...` |
| `MemoryPort::recvAtomic` | `AtomicAccess` |
| `drain` of memories and layers; the switch of the memory mode | `Drain`, `Resume` |

NVMain is reduced to what the object sees: a transaction queue of bounded size
(`IsIssuable`), requests leaving it (`Dispatch`) and completing (`CompleteStarts`)
in any order. That is more than FRFCFS does, so what holds here holds with any
controller.

The two requests the code keeps for a write (the copy carries the packet and is
completed at once) are one entry of `m_request_map`: the copy enters and leaves the
map inside the call.

### 2.3 MemoryRank, FRFCFS

A rank is a record of its own state, the states of its `DDR3Bank`s and the
states of their `SubArray`s, which need not agree: after a column access with
implicit precharge the bank is closed and the array is still open; after
`PDA` the bank is powered down and the array open.

One memory cycle is `FRFCFS::Cycle()` and then the events of the next cycle. `pc`
gives the part of it that comes next; the order is that of the code, including
the early end of `CycleCommandQueues()` when a refresh was queued.

| `pc` | Action | Code |
|---|---|---|
| `events` | `Arrive`, `RequestComplete`, `RefreshCallback`, `DeviceEvent` | `IssueCommand`, `RequestComplete`, `RefreshCallback`, events of `SubArray` and `StandardRank` |
| `events` | `Schedule` | first half of `Cycle()`: the four searches and `IssueMemoryCommands()` |
| `lowpower` | `HandleLowPower` | `HandleLowPower()`, `PowerDown()`, `PowerUp()` |
| `refresh` | `FindRefresh` | the double loop of `HandleRefresh()` |
| `precharge` | `PrechargeForRefresh`, `QueueRefresh` | its body: one round per bank, then the REFRESH |
| `issue` | `CycleCommandQueues` | the loop over the command queues |
| `cleanup` | `CleanupCallback` | `CleanupCallback()`, first event of the next cycle by its priority |

Abstractions. A request is ACCESS, read or write alike; its address is a rank, a
bank and a row (row and column mux together); only `IsLastRequest()` compares the row without
the mux, and `RowNumber` gives it what it compares. The ranks start powered up (`InitPD` is false in the
configurations). A precharge at the end of an access is an event of the subarray and one
of the rank (`StartPrechargeOfRank`), which may find the subarray open still. The timers of the devices are
replaced by choice: `ready` is the set of queues (ranks) whose timers have run
out, and any set is possible. Where timers would rule an order out, the model has
more behaviours than the code. The one place where time is assumed is
`RefreshKeepsUp`: the next pulse of a group comes only after the REFRESH of the
last one has left its queue. The interval of the DRAM is about 5200 cycles
against some tens for a queue of commands; the code has no test for it (see the
hazard at `RefreshCallback`), so `RefreshFlagsAgree` does not cover a second pulse while the REFRESH is queued. `starvationCounter` stops at the threshold, past which
the code only compares it.

The properties of `FRFCFS` use two auxiliary notions: `owed`, the requests accepted
and not completed, and `RowBefore(q, n, rk, b)`, the row bank `b` will hold when the
devices reach position `n` of queue `q`.

### 2.4 Agenda, EventQueue

`eventMap` gives for each cycle the list of its events. `Loop()` and `Process()` are split
where they call a handler: the cursor of `Process()` stands at the event whose
handler is running, and that handler is a number of `Schedule` and `TakeBack` steps. What
a handler may schedule, and how far ahead, is read off the controllers, the
devices and the bus (`Inserts`). Who drives the queue is a configuration: `tick()` with
single cycles, or, event driven, a caller that steps several cycles at once.

The priority passed to `InsertEvent()` decides where an event goes, but what it is
compared with is the priority stored in the events that are there, and only
`InsertCallback()` stores one. For `EventCycle` (`InsertEvent()` with priority 30) the stored value is 0,
so its place among later insertions is not the intended one; `SameCycleOrder` is stated for the
others, on whose order `FRFCFS` relies. Also, the comment at MemoryController.h:57-65 gives
the transaction queue a lower priority than the command queues, while 30 goes
before 40.

`FindEvent()` looks through the whole list of the cycle, including the events that
`Process()` has handled and whose objects are gone; what it reads of those is
undefined, and the model lets it miss them.

### 2.5 Cache, CoherentCaches

The data of a block are its version, the number of writes they contain; `latest` counts
the writes done. So a lost write, a write to an old copy and a read of an old copy
all show as a version that is too small.

| Code | Action |
|---|---|
| `recvTimingReq`, `access`, `satisfyCpuSideRequest`; the hit | `AccessHits` |
| ... the miss: `allocateTarget`, `allocateMissBuffer` | `AccessMisses` |
| ready times of MSHRs and writebacks run out | `TimePasses` |
| `getTimingPacket`, `CoherentXBar::recvTimingReq` with the snoops of the other caches, `sendDeferredPacket` | `SendMiss` |
| ... refused by the memory | `SendRefused` |
| a writeback | `SendWriteback` |
| the memory performs a read | `MemoryResponds` |
| `recvTimingResp`: targets, deferred snoops, replacement, promotion of deferred targets | `RecvResp` |

A request goes over the crossbar, and through `recvTimingSnoopReq()` of every other
cache, in one call, so it is one step. Responses wait in `answer` and arrive in any
order. `unripe` keeps the order in which MSHRs and writebacks become ready; the lists
`readyMiss` and `readyWB` hold what `getNextMSHR()` chooses from.

Abstractions. The caches are the top-level caches of one crossbar, without caches
above or below. All modelled blocks are of one set, and any valid block of it may be the
victim even while a way is free, as some of the replacement policies allow.
Loads and stores, load-locked and store-conditional are the accesses; instruction
fetches, uncacheable accesses, prefetches, swaps and WriteInvalidate are left out, as are
atomic and functional accesses and drain. A request has a context and a range of bytes in its block, and a load lock keeps both, as
`CacheBlk::Lock` does: a store conditional needs a lock of its own context around its bytes, and a store erases the
locks that it overlaps and no others. The comments at blk.hh:309-313 and 408 speak of all the locks of the block; the code of
`clearLoadLocks()` (325-341) is what is modelled, and `LocksHold` says that it is enough. The version in a lock is auxiliary: it counts the
writes that spared the bytes of the lock, so that it equals `latest` as long as no other write was done. Layers that are busy refuse before
anything is snooped, which has no effect on the caches and is the matter of `XBarLayer`.
A cache has one buffered writeback of a block at most (`wb`). The source could hold two only after a request for the
block had overtaken the first, which is what `WritebackFirst` excludes; with it, a block whose writeback
waits is not valid in that cache (`OwnerInv`, proved) and cannot be evicted again. After a violation of `WritebackFirst`
the model says nothing more about the code.

## 3. Runs

| Run | Configuration | What it shows |
|---|---|---|
| `layer` | three ports, any environment | no refused port is forgotten or left without an event that will retry it; the assertions of `xbar.cc` hold |
| `hybrid_two` | PCM and DRAM with one queue entry each, reads, write, writeback and upgrade of two masters; shared response layers; drains and mode switches | a memory owes a retry exactly when its layer waits for one (`RetryMatchesLayer`) and has a request that will pay it (`RetryHasCause`); the clock runs while anything is outstanding; every queued response has a sender, those refused by a taken layer included; one response per packet; a drained system is at rest although `drain()` looks at `m_request_map` only; each layer of the whole system is a behaviour of `XBarLayer` (`LayersImplement`), so that its theorems apply |
| `hybrid_live` | PCM, three packets, fairness | every packet is accepted in the end, whoever refuses it on the way, and answered |
| `hybrid_drain` | as before | *violation*, see 6 |
| `hybrid_wake` | as before | *violation*, see 6 |
| `frfcfs_open` | the deployed policy, two banks, three rows, four requests, queue of three | requests conserved, the controller's picture true, commands fit, no request of a due group taken before its REFRESH has been issued (`RefreshComesFirst`), powerdown known, rows served in order (`ServesRowsInOrder`, the refinement of `RowService`) |
| `frfcfs_bank` | a queue per bank, relaxed close page, three rows of which two differ in the mux only | where the REFRESH waits in one queue for precharges in others, commands still fit |
| `frfcfs_ranks` | two ranks of two refresh groups, threshold two, restricted close page, no powerdown | the assertion of `IssueMemoryCommands()` (`ClosePageCloses`); refresh counters above one; groups and ranks do not disturb each other's marks; wherever the rotation of `HandleRefresh()` stands, it passes no group over (`RefreshVisitsGroups`) |
| `frfcfs_live` | one bank, hits and a miss that come again for ever, refresh and powerdown | a due refresh reaches the devices under any stream of requests, and the starvation counter protects the miss |
| `event_queue` | one event of each kind and two responses, both ways of driving the queue | no event is lost or passed over, however handlers change the list that is being processed; `nextEventCycle` is right and never behind the clock; events of one cycle in the order of their priorities; the queue implements `Agenda`; what is scheduled happens |
| `caches` | three processors and caches, two blocks, one cache with two accesses outstanding and a write buffer of one | one owner, one writer, current copies, no stale access; no lock on bytes written since (`LocksHold`); one answer for each request in service and no circle of promises; causes of blocking; line counters; the assertions of cache and crossbar; the writeback of a block goes before the next request for it (`WritebackFirst`, on which the proofs rest) |
| `caches_writeback` | two caches, one with three writes outstanding | *violation*, see 6 |

`EveryRequestServed` is stated for one bank only. With two banks it is false, as the
code is written: the counter of a bank counts the row hits of that bank and
protects nobody in another.

### Bounds

* Packets and requests are names that are used again after they complete, so the
  runs of crossbar, memories and controller are not bounded in length; only the
  number in flight is.
* A queue size of one in front of the memory (`HybridMemory`) makes refusals
  common; two masters are enough for one to be refused by the memory while the
  other waits for the layer. Two memories are enough for two responses to meet in
  a layer.
* In `caches`, `Accesses` says what each outstanding access may be and `MaxWrites` how often a
  block is written (versions up to two and one). Three caches are the fewest
  in which one promises data to a second that has promised them to a third; two
  accesses of one cache are needed for deferred targets, for a full target list (its limit
  is two) and for a victim with an outstanding upgrade. A third one leads into the
  finding of `caches_writeback` (`WritebackFirst` fails, and `CopiesCurrent` as a consequence of it); that is
  why `caches` has two. A block has two bytes: the load locked takes the first, and stores to
  the second, to the first and to both follow it, from its own context and from others. Locks of any range are the matter of `LocksAreHeld`.
* In `event_queue` the clock stops at cycle `MaxCycle` = 3. With `tREFI` = 2, steps of up to two cycles
  and devices that schedule up to two ahead, an event falls before, at and
  after the end of a step, and pulses, replies and wakeups meet in one cycle. The run may end
  there, so deadlock is not checked in it.
* Four requests in two banks give two requests for one row, a row conflict, and
  another bank of the same refresh group. Two groups, two ranks and a threshold
  of two appear in `frfcfs_ranks`; the starvation threshold is one, so that both
  sides of it are reached.
* r1 and r2 have the same address and are symmetric in the two large safety runs;
  no liveness run uses symmetry.

### Fairness

`HybridMemory!FairSpec`. `EventsFire`: an event that stays scheduled fires, even if other
events keep firing, because the event queue of gem5 is ordered by time and time
advances. `HandlersRun`: a handler that has started runs on. Outside the modelled
code: `NVMainServes` (NVMain works on every request it holds; `frfcfs_live` is
about this) and `MastersAnswer` (in the long run a master answers
a retry from inside the call, as `PacketQueue::retry()` does. A master that never
did would burn a cycle of the layer each time and might never get through.)

`FRFCFS!FairSpec`. Weak fairness of the cycle: `tick()` goes on while something is
outstanding. Strong fairness of the events of devices, of issuing from each
queue, of waking each rank and of completion: the timers behind them run out
once and stay so, while the model chooses anew in each cycle whether they have.
Strong fairness of scheduling some request: refresh pulses are far apart, so
they cannot block the banks in every cycle. The liveness run has one bank group:
with several, the model could place their pulses so that one REFRESH or another is
always in the shared queue, which tREFI excludes and the model does not express.

`EventQueue!FairSpec`. Weak fairness of a loop or handler that has begun (`RunsOn`), strong fairness of
a call of `Loop()` with a positive number of cycles: `tick()` makes one each memory cycle,
whatever else is done with the queue in between.

No liveness is checked of the caches: with processors that go on for ever the graph is too
large. `OneAnswer` and `BlockedHasCause` are its safety side: whatever waits has something to
wait for that does not wait for it.

## 4. Proofs

Everything below holds for every value of the constants that the modules' assumptions allow.
The lemmas a result rests on are in its module, `LayerFacts` (layers), `CacheFacts` (one cache) and `ListFacts`
(sequences, least elements, permutations).

### One layer (`XBarLayerProofs`)

`LayerInvariant`: `TypeOK`, `NoForgottenPort`, `WaitsOnce`, `NoLostWakeup` and
`RetryIsExpected` are inductive together (`Inv`). None is alone: a port taken out of
the front of the list leaves the set of registered ports only if it is in the
list once (`WaitsOnce`), and that in turn needs that only ports that are not
registered send (`NoForgottenPort`). `LayerForgetsNoPort`, `LayerLosesNoWakeup` and
`LayerExpectsRetry` are the parts. `LayerFacts` has the same, operation by operation on a record,
so that the composition below can use it.

### Crossbar, masters and memory objects (`HybridMemoryProofs`)

`HybridInvariant`: `IInv` is inductive. Its parts:

* `LayersInv`: at every layer the invariant of a single layer, with the ports that the
  composition has refused (`BlockedAt`) and the retry the memory owes (`Owes`).
* `HandlerInv`: gem5 runs one handler at a time, so at most one layer is retrying, and a retry inside
  `RequestComplete()` is one of the layer of the memory that ticks. Without it the answer
  to one retry could be taken for the answer to another.
* `MasterInv`, `RetryInv`: a blocked port is blocked on a packet of its own, and the port a layer
  is retrying still has the packet it was refused. This is what makes "the port sends again"
  a step of the abstract layer.
* `RequestInv`: at most one of `retryRead`, `retryWrite`; who owes a retry has a request left, also
  in the middle of `RequestComplete()`, where the request that completes is already out of
  the queue; whatever is outstanding has a clock.
* `ResponseInv`: a packet that was sent and waits is in `m_request_map` as a read or in
  `responseQueue` once; early answers of writes make the map alone too weak.
* `DrainedInv`: what the drain managers saw stays so.

From it follow `HybridTypes`, `HybridRetryMatches`, `HybridRetryCaused`, `HybridClockRuns`,
`HybridResponseSent`, `HybridOneResponse`, `HybridDrainedAtRest`. `HybridLayersImplement` is the
refinement: every step of the composition is, at each layer, a step of `XBarLayer`
or changes nothing of it, so the theorems of `XBarLayerProofs` hold of every layer.

### Controller and devices (`FRFCFSProofs`)

The first results ask nothing but `ControllerAssumption`:

* `ControllerTypes`. `TypeOK` needs two more facts. `IssuedAtCleanup`: a queue in
  `issued` is nonempty, or `CleanupCallback()` would take the tail of nothing.
  `LoopIsDue`: while the loop of `HandleRefresh()` is running, its group is due, or the counter
  would go below zero. The positions the searches return exist because a
  nonempty set of numbers has a least element (`MinFacts`).
* `ControllerKnowsPowerdown`. The inductive form `PowerInv` says, per rank, that all banks
  are powered down exactly when the controller thinks so, that the rank's own state
  says so, and that an array is refreshing only in a rank that is in state REFRESHING.
  The last part is what `CanPowerDown()` relies on: it asks the rank and not the
  arrays.
* `DueGroupsMarked`. The banks of a due group carry the mark of `SetRefresh()`; inductive given the types.
  The groups being disjoint (`GroupsDisjoint`) is what keeps the REFRESH of one from unblocking another.
* `ClosePageAssertionHolds`. Inductive with `RowsMatchFlags` (activation flag and row agree).

The others need two conditions on the configuration that the source does not check.
They are hypotheses of the theorems, where they are needed, and both deployed
configurations satisfy them: `GroupsCover` (`BanksPerRefresh` divides `BANKS`) and
`EveryBankHasQueue` (`ScheduleScheme` is set where each bank has a queue: `GetCommandQueueId()` has no case
for 0, section 6).

* `RefreshReachesGroups` (`GroupsCover`). Inductive form `RotationInv`: the rotation stands at
  the head of a group. The rest is modular arithmetic.
* `ControllerConservesRequests` (`EveryBankHasQueue`). `RequestConserved` counts the places of a request.
  The inductive form `ReqInv` says without counting that a request is at one position of
  the transaction queue, or carried by one command that is not issued, or at the devices, and that
  these exclude each other. What every action does to a queue is "push at the end", "send the first
  that is not issued" or "drop the issued head"; one lemma for each says where a command is held after it.
* `ControllerRefreshFlags` (both). `RefInv`: at most one REFRESH of a group is queued, exactly the banks of
  its group are marked, and while a group is due none of its is queued. The last part is why
  `HandleRefresh()` cannot queue a second one.
* `DueGroupsTakeNothing` (both), `Spec => RefreshComesFirst`: from `DueMarked`, which covers the time from the pulse to the
  REFRESH in the queue, and `RefInv`, which covers the rest. `Eligible` asks for both marks, and no other action takes a request.
* `ControllerPictureTrue` and `ControllerCommandsFit` (both). `RowInv`, the largest of the invariants: the row a bank
  will hold is computed along its queue from the last command before it that opens or closes the bank (`RowBefore`); every unissued command
  suits the row before it, and `effectiveRow` is the row after the last (`Foreseen`); a bank that
  counts as open has its row and the arrays of a group refresh together (`Steady`); no row is
  foreseen where a REFRESH is queued (`RefreshFindsNoRow`), and the loop of `HandleRefresh()` has closed
  the banks it has passed (`PrechargedSoFar`). `Steady` is needed because a bank reports its row and the array
  has it; the last two because a REFRESH goes into the queue of one bank of its group
  and concerns all of them. It uses `PageInv`, `RotationInv` and the types.
* `ControllerServesRows` (`EveryBankHasQueue`), the refinement `Spec => ServesRowsInOrder`. `RowService` keeps the requests
  that wait and, as a set of pairs, which of two for one row came first; the mapping reads both off the transaction queue and
  the commands that are not issued. `Arrive` is `Accept`, issuing an access is `HandOver`, `RequestComplete` is `Complete`, and
  everything else stutters. The step to prove is `Schedule`, which moves a request past others: it must pass none of its own row.
  Two facts make that so. `FreshLast`: the requests of the current cycle, which the searches skip, are the last of the
  transaction queue, so that the first request a search accepts is the oldest of its row (`OldestOfRow`; all the other
  conditions of a search depend on the address alone). `Placed`: an access is in the command queue of its bank, and
  the searches want that queue empty, so that no older request for the row is still there. `ReqInv` is used for the rest.

### Event queue (`EventQueueProofs`)

`QueueInvariant`: `IInv` joins the properties `TypeOK`, `NextIsFirst`, `NoEventLost`, `SameCycleOrder` with
`PendingOnce` (an event that is not over stands at one place, so taking it back or handling it takes
one pair off the agenda) and `ClockInv` (during `Process()` the clock stands at the cycle being processed, and
a step of `Loop()` does not lead past the bound). The assumption is that there are finitely many
events (`IsFiniteSet(Events)`). `QueueTypes`, `QueueNextIsFirst`, `QueueLosesNoEvent`, `QueueInOrder` are the parts; `QueueKeepsAgenda` is the
refinement `Spec => KeepsAgenda`, with every insertion a step of the agenda and every walk
of the iterator one that hands an event over.

### Caches (`CacheFacts`, `CoherentCachesProofs`)

The theorems on the single properties have the form `Spec /\ []WritebackFirst => []P`. `WritebackFirst` says that no request is
in service for a block whose writeback waits: what `getNextMSHR()` sets out to guarantee, and the code
does not when a cache has three writes outstanding (`caches_writeback`, section 6). Where it fails, `CopiesCurrent` fails with it.
Where it holds is settled at the end of the module: with two accesses per processor at most.
The assumptions are `CacheAssumption` (finitely many blocks, at least one register, target and way), `CoherentAssumption`
and `NullAssumption`.

`InvariantHolds`: `IInv` is inductive under the hypothesis. Its parts:

* `LocalOK`, what a cache makes sure of on its own. `LineOK` and `MSHROK`: an MSHR fits its block, and its targets are
  in an order in which one pass of `recvTimingResp()` serves them (writes before snoops, an invalidation last).
  `QueueOK`: the lists of what is to be sent agree with the registers and buffers. `CauseOK` and `LinesOK`: causes of
  blocking and counters of lines.
* `Coh`, for each block over all the caches. `ChainInv`: a cache that asked for an exclusive copy will own the block; of
  these owners to come one is the newest, one at most has its answer, and who waits for whom has no circle.
  `TargetInv`: what an owner to come has promised (a deferred snoop) is what was asked for. `AnswerInv`: an answer fits its request.
  `CopyInv` and `OwnerInv`: who has a copy, who may have one when an answer comes, and that there is one owner. `DataInv`: where the
  last version is.
* `OpInv` and `FloorInv`: an access that waits is on one list of targets, and what is on its way to it
  is not older than the access.

`OneOwner` and `CopiesCurrent` speak of blocks, writebacks and answers. They are not inductive because a
deferred snoop decides who owns the block two responses later: `ChainInv` and `TargetInv` carry that decision
from `MSHR::handleSnoop()` to the loop over the targets. "No circle" is stated as in the property, by sets
of caches each of which waits for one in the set, so that no induction along the chain is needed.

From the invariant follow `TypeCorrect`, `OwnerIsOne`, `CopiesAreCurrent`, `NoAccessIsStale`, `LocksAreHeld`, `AnswerIsOne`,
`BlockedForCause`, `LinesAreCounted` and `AssertionsAreTrue`. The last is about what a step would do
in the state at hand: one cache at most inhibits the memory, an upgrade finds its block, a response finds its targets.

`WritebackGoesFirst`: `WritebackFirst` is an invariant if no processor has three accesses under way (`TwoAccesses`, a
condition on `CpuOf`), for any number of processors, blocks, ways, registers and buffers. `caches_writeback` shows that three
are enough to break it, so the bound is exact. The inductive form `OrderInv` says of every writeback that waits
(`OrderAt`) that no access is older than it (`older`, which `getNextMSHR()` would prefer), that no request for its
block is in service, that no request for its block is ready while the writeback itself is not, and that one which is not ready stands
behind it in the order of time. The last two are needed because `getNextMSHR()` looks only at what is ready: a
writeback that ripens after the request for its block would be overtaken. It is inductive because a
new writeback is made only by a response, for a victim without an MSHR, or for a block that found no room
and passed through the tempBlock; in the second case a deferred target for the same block would be ready at once. Then one access waits
for that block, one was served, and a third holds the way that was not free (`NoLateTarget`, by `OpInv`: the accesses of a
processor are on one list each). With two accesses the deferred list is empty. The proof is by induction together with
`IInv`, since each needs the other.

`CachesAreCorrect` puts the two together: with two accesses per processor all the properties above hold with no
hypothesis on the behaviour.

### Only model-checked

* All liveness properties: fairness and `ENABLED` are outside what the prover's backends do.
* The properties of the runs that expect a violation, which are false.

## 5. Plan

Done, in this order: `Layer`/`XBarLayer` with proofs; `NVMainMemory`/`HybridMemory`;
`MemoryRank`/`FRFCFS`/`RowService`; `FRFCFSProofs`; `Agenda`/`EventQueue`; `Cache`/`CoherentCaches`;
the proofs of section 4.

Next, in this order:

1. A write buffer that holds several writebacks of a block, to follow the caches with three accesses outstanding past a
   violation of `WritebackFirst`.
2. The partitioning policy `BRP`: recency lists, shadow directories, and `setRecord()` with
   its recursive search, checked against the best partition by definition; whether the shares of
   the cores ever exceed the ways.
3. `AddressTranslator`: decoding and `ReverseTranslate` as functions on small bit widths,
   checked as inverses of each other.
4. NVMain front end between `NVMainMemory` and `RowService`: channels, the prefetch
   buffer, `IssueAtomic`; then a composition in which the bounded queue of
   `NVMainMemory` is a `RowService`.
5. Two levels of caches: express snoops, `downstreamPending`, inclusion.
6. `FRFCFS-WQF` (write queue and drain watermarks) on the same `MemoryRank`, and the
   event-driven mode of controller and memory object.

## 6. Findings

* **A drain that waits for a write never ends** (`hybrid_drain`). `RequestComplete()` calls
  `CheckDrainState()` (nvmain_mem.cc:778) before it erases the request from
  `m_request_map` (791). If a write is the last request, the check finds the map
  not empty and nothing checks again. `drain.hh:127` says that an object that has finished
  draining signals its manager.
* **The clock event may be scheduled twice** (`hybrid_wake`). `recvAtomic()` clears `m_awake`
  while `clockEvent` is still scheduled. If the system returns to timing mode before
  that event, the next request calls `wakeup()`, and `schedule()` asserts that the event
  is not scheduled (`eventq_impl.hh:45`).
* **A request overtakes the writeback of its own block** (`caches_writeback`). A fill finds no
  room because the victim has an upgrade under way; the block goes through the
  `tempBlock` and, dirty, into the write buffer (cache_impl.hh:1454), ready only after `hitLatency`.
  The deferred write to the same block is promoted in the same call
  (1427) and is ready at once. `getNextMSHR()` sees no writeback yet, or prefers the miss for its
  older order, and the `ReadExReq` goes first: the memory may answer with the data from
  before the write, and the write is lost. The comment at cache_impl.hh:2082 says that the
  writeback must be performed first.

Two combinations of parameters that no deployed configuration uses are outside
of what the code supports, against its comments:

* Banks per refresh that do not divide the banks. The comment at
  MemoryController.cpp:702 allows "an odd number of banks per refresh"; with three
  banks per refresh of four, the rotation arrives at bank 3, whose group has no
  counter, and `NeedRefresh()` reads past the array. `RefreshVisitsGroups` fails for such a
  choice of the constants.
* `ScheduleScheme 0` with a queue per bank. `GetCommandQueueId()` has no case for it, which the
  comment above it (line 1805) offers; its assertion fails on the first request.

Read in passing, and no disagreement with a comment:

* With several bank groups a rank stays in state REFRESHING when another bank is open
  at the end of a refresh (StandardRank.cpp:885), and is not powered down until it is next idle.
* The limit of targets per MSHR is compared by equality where the processor adds one
  (cache_impl.hh:832); the targets of snoops may carry the number past it.

## 7. Not modelled

* CPUs, Ruby, devices, the simulator core of gem5: masters are what the
  port protocol says of them.
* The replacement policies (`tags/`): the caches are checked with any victim. What they
  compute is not checked. Read, and not modelled: in `BRP` a fill after warm-up may
  be put at the tail of the list while the set has invalid ways, so that a valid block goes before
  them, against the comment in `BRP::invalidate()` (brp.cc:426); the core of an access is
  `(masterId - 7) / 6`, which no array bound checks.
* Caches below caches, the snoop filter (not set by the configurations), atomic and
  functional accesses.
* The event-driven mode, warm-up, checkpoints, and several gem5 memory objects on
  one NVMain: not what the configurations run.
* Timing constraints of the devices; energy, endurance, encoding of data,
  statistics: none is state on which scheduling or the port protocol depends,
  except the timers, which are replaced by choice.
* Write pausing, several subarrays per bank, cached reads: off in the
  configurations.
* `XBarControl`, the DRAM caches and the other controllers: built by no
  configuration of the hybrid memory. `GlobalEventQueue`: the memory objects create one and
  ask it for the next event (nvmain_mem.cc:546), but act on the answer, and step it, only when `m_eventDriven` is set
  (546-586, 915-940), which the configurations leave false; else it is the trace simulator that uses it. `Loop()` without an argument: used by nobody.
