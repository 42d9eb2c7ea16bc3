------------------------------- MODULE Cache -------------------------------
(***************************************************************************)
(* The cache of gem5 (mem/cache/cache_impl.hh, mshr.cc, mshr_queue.cc) as  *)
(* this repository changes it: operators on the state of one top-level     *)
(* cache, one for each handler.  CoherentCaches puts several of them on a  *)
(* crossbar.                                                               *)
(*                                                                         *)
(* The data of a block are a version: the number of writes they contain.   *)
(* A block is a set of the bits BlkValid "V", BlkReadable "R", BlkWritable *)
(* "W" and BlkDirty "D", with its data and its load locks.                 *)
(***************************************************************************)
EXTENDS Integers, SequencesExt

CONSTANTS
  Addrs,            \* addresses of blocks, all of one set of the cache
  Pcm,              \* those below PhysicalMemory::watershed
  Ways,             \* associativity
  MSHRs,            \* parameter mshrs
  TargetsPerMSHR,   \* parameter tgts_per_mshr
  Contexts,         \* thread contexts
  Requests,         \* the context and the bytes of the block an access may have
  NoMSHR, NoWB

ASSUME CacheAssumption ==
  /\ Pcm \subseteq Addrs
  /\ Ways \in Nat \ {0} /\ MSHRs \in Nat \ {0} /\ TargetsPerMSHR \in Nat \ {0}
  /\ NoMSHR \notin Addrs
  /\ IsFiniteSet(Addrs)

ASSUME RequestAssumption ==
  /\ Requests \subseteq [context : Contexts, low : Nat, high : Nat]
  /\ \A req \in Requests : req.low <= req.high

-----------------------------------------------------------------------------
(* The attributes of the commands, from MemCmd::commandInfo[].             *)
CpuCommands == {"ReadReq", "WriteReq", "LoadLockedReq", "StoreCondReq"}
BusCommands == {"ReadReq", "ReadExReq", "UpgradeReq", "SCUpgradeReq", "SCUpgradeFailReq"}

NeedsExclusive(cmd) == cmd \notin {"ReadReq", "LoadLockedReq"}
IsRead(cmd) == cmd \in {"ReadReq", "LoadLockedReq", "ReadExReq", "SCUpgradeFailReq"}
IsInvalidate(cmd) == cmd \in BusCommands \ {"ReadReq"}
IsLLSC(cmd) == cmd \in {"LoadLockedReq", "StoreCondReq", "StoreCondFailReq"}

Response(cmd) ==
  CASE cmd = "ReadReq" -> "ReadResp"
    [] cmd = "ReadExReq" -> "ReadExResp"
    [] cmd \in {"UpgradeReq", "SCUpgradeReq"} -> "UpgradeResp"
    [] cmd = "SCUpgradeFailReq" -> "UpgradeFailResp"

HasData(resp) == resp # "UpgradeResp"

-----------------------------------------------------------------------------
(* Blocks.                                                                 *)
NoBlock == [status |-> {}, data |-> 0, locks |-> {}]

ValidIn(k) == {a \in Addrs : "V" \in k.blk[a].status}

LineKind(a) == IF a \in Pcm THEN "pcm" ELSE "dram"

(* BaseSetAssoc::incSetLine() and decSetLine(): the lines of each memory   *)
(* in the set, which the hybrid replacement policies go by.                *)
IncSetLine(k, a) == [k EXCEPT !.lines[LineKind(a)] = @ + 1]
DecSetLine(k, a) == [k EXCEPT !.lines[LineKind(a)] = @ - 1]

(* tags->invalidate() and blk->invalidate() *)
Invalidate(k, a) == [DecSetLine(k, a) EXCEPT !.blk[a] = NoBlock]

-----------------------------------------------------------------------------
(* Load locks.  lockList is a set: its order and repetitions do not matter.*)
(* The version of a lock is auxiliary: that of the data the load locked    *)
(* saw and, after it, of every write that left the bytes of the lock alone.*)
TrackLoadLocked(b, req) ==
  [b EXCEPT !.locks = @ \cup {[context |-> req.context, low |-> req.low, high |-> req.high,
                               version |-> b.data]}]

MatchesContext(lock, req) ==
  lock.context = req.context /\ req.low >= lock.low /\ req.high <= lock.high

\* Mutant: a store to the last byte of the lock does not count.
OverlappingInside(lock, req) == req.low < lock.high /\ req.high >= lock.low

Overlapping(lock, req) == req.low <= lock.high /\ req.high >= lock.low

Bytes(x) == x.low .. x.high

Spared(lock, req, writes) ==
  IF Bytes(lock) \cap Bytes(req) = {} THEN [lock EXCEPT !.version = @ + writes] ELSE lock

(* A write: checkWrite() fails a store conditional without a lock of its   *)
(* context on its bytes and, like any store, erases the locks it overlaps. *)
(* The block is marked dirty even then.                                    *)
WriteTo(b, cmd, req) ==
  LET success == IsLLSC(cmd) => \E lock \in b.locks : MatchesContext(lock, req)
      writes == IF success THEN 1 ELSE 0
      left == {lock \in b.locks : ~Overlapping(lock, req)}
  IN [status |-> b.status \cup {"D"},
      data   |-> b.data + writes,
      locks  |-> {Spared(lock, req, writes) : lock \in left}]

(* satisfyCpuSideRequest() for the requests of a processor. *)
SatisfyCpuSideRequest(b, cmd, req) ==
  CASE cmd = "ReadReq" -> b
    [] cmd = "LoadLockedReq" -> TrackLoadLocked(b, req)
    [] OTHER -> WriteTo(b, cmd, req)

(* access(): can the block satisfy the request? *)
Hit(k, cmd, a) ==
  (IF NeedsExclusive(cmd) THEN "W" ELSE "R") \in k.blk[a].status

(* A complete miss of a store conditional fails it at once. *)
FailsAtOnce(k, cmd, a) == cmd = "StoreCondReq" /\ a \notin ValidIn(k)

-----------------------------------------------------------------------------
(* Miss status registers.  A target comes from the processor, who is an    *)
(* access, or from a snoop, who is the cache that asks.                    *)
FromCPU(o, cmd, req) == [source |-> "cpu", who |-> o, cmd |-> cmd, req |-> req]
FromSnoop(c, cmd) == [source |-> "snoop", who |-> c, cmd |-> cmd]

ListNeedsExclusive(list) ==
  \E i \in DOMAIN list : list[i].source = "cpu" /\ NeedsExclusive(list[i].cmd)

NewMSHR(o, cmd, req) ==
  [targets |-> <<FromCPU(o, cmd, req)>>, deferred |-> << >>, inService |-> FALSE,
   pendingDirty |-> FALSE, postInvalidate |-> FALSE, postDowngrade |-> FALSE]

Allocated(k) == {a \in Addrs : k.mshr[a] # NoMSHR}
NumTargets(mshr) == Len(mshr.targets) + Len(mshr.deferred)
Buffered(k) == {a \in Addrs : k.wb[a] # NoWB}

(* MSHRQueue::isFull(): the reserve is not counted, and lets snoops and    *)
(* fills allocate past the limit that blocks the processor.                *)
MSHRsFull(k) == Cardinality(Allocated(k)) >= MSHRs
WBFull(k) == Cardinality(Buffered(k)) >= k.writeBuffers

(* What is allocated may be sent after hitLatency.  The queue of what must *)
(* wait yet is in the order of time; the ready lists hold the rest.        *)
Token(kind, a) == <<kind, a>>

Ripen(k) ==
  LET t == Head(k.unripe) IN
  [k EXCEPT !.unripe = Tail(@),
            !.readyMiss = IF t[1] = "miss" THEN Append(@, t[2]) ELSE @,
            !.readyWB = IF t[1] = "wb" THEN Append(@, t[2]) ELSE @]

Unqueue(k, kind, a) ==
  [k EXCEPT !.unripe = RemoveFirst(@, Token(kind, a)),
            !.readyMiss = IF kind = "miss" THEN RemoveFirst(@, a) ELSE @,
            !.readyWB = IF kind = "wb" THEN RemoveFirst(@, a) ELSE @]

(* replaceUpgrade(): the block a store conditional counts on is gone. *)
ReplaceUpgrade(cmd) == IF cmd = "StoreCondReq" THEN "StoreCondFailReq" ELSE cmd
ReplaceUpgrades(list) ==
  [i \in DOMAIN list |-> [list[i] EXCEPT !.cmd = ReplaceUpgrade(@)]]

(* MSHR::allocateTarget(): must the target wait for a request of its own? *)
MustDefer(m, cmd) ==
  /\ m.inService
  /\ \/ m.deferred # << >>
     \/ m.postInvalidate
     \/ NeedsExclusive(cmd) /\ (~m.pendingDirty \/ m.postDowngrade)

AllocateTarget(k, a, o, cmd, req) ==
  LET m == k.mshr[a]
      late == FromCPU(o, IF m.postInvalidate THEN ReplaceUpgrade(cmd) ELSE cmd, req)
  IN IF MustDefer(m, cmd)
     THEN [k EXCEPT !.mshr[a].deferred = Append(@, late),
                    !.unripe = IF m.deferred = << >> THEN Append(@, Token("deferred", a)) ELSE @]
     ELSE [k EXCEPT !.mshr[a].targets = Append(@, FromCPU(o, cmd, req))]

(* The miss path of recvTimingReq() with an MSHR for the block ... *)
MissToMSHR(k, a, o, cmd, req) ==
  LET added == AllocateTarget(k, a, o, cmd, req) IN
  IF NumTargets(added.mshr[a]) = TargetsPerMSHR
  THEN [added EXCEPT !.noTargetMSHR = a, !.blocked = @ \cup {"NoTargets"}]
  ELSE added

(* ... and without one.  A valid block stays, but may not be read. *)
MissAlone(k, a, o, cmd, req) ==
  LET added == [k EXCEPT !.blk[a].status = @ \ {"R"},
                         !.mshr[a] = NewMSHR(o, cmd, req),
                         !.unripe = Append(@, Token("miss", a))]
  IN IF MSHRsFull(added) THEN [added EXCEPT !.blocked = @ \cup {"NoMSHRs"}] ELSE added

Miss(k, a, o, cmd, req) ==
  IF k.mshr[a] # NoMSHR THEN MissToMSHR(k, a, o, cmd, req) ELSE MissAlone(k, a, o, cmd, req)

-----------------------------------------------------------------------------
(* The write buffer.  older keeps the order of the writeback among the     *)
(* accesses to its block: those that came before.                          *)
AllocateWriteBuffer(k, a, data) ==
  LET m == k.mshr[a]
      older == IF m = NoMSHR THEN {} ELSE {t.who : t \in Range(m.targets)}
      added == [k EXCEPT !.wb[a] = [data |-> data, older |-> older],
                         !.unripe = Append(@, Token("wb", a))]
  IN IF WBFull(added) THEN [added EXCEPT !.blocked = @ \cup {"NoWBBuffers"}] ELSE added

\* Mutant: the processor is not told that the write buffer has room.
ReleaseWriteBufferSilent(k, a) == Unqueue([k EXCEPT !.wb[a] = NoWB], "wb", a)

(* markInService() of a writeback, which expects no response. *)
ReleaseWriteBuffer(k, a) ==
  LET released == Unqueue([k EXCEPT !.wb[a] = NoWB], "wb", a) IN
  IF WBFull(k) /\ ~WBFull(released)
  THEN [released EXCEPT !.blocked = @ \ {"NoWBBuffers"}]
  ELSE released

-----------------------------------------------------------------------------
(* What the cache sends next.                                              *)
Pending(k, a) == k.mshr[a] # NoMSHR /\ ~k.mshr[a].inService

(* MSHR::order of a pending request against that of a writeback. *)
OlderThanWB(k, a) == Pending(k, a) /\ Head(k.mshr[a].targets).who \in k.wb[a].older

\* Mutant: a miss does not wait for the writeback of its block.
GetNextMSHRMissFirst(k) ==
  LET miss  == Head(k.readyMiss)
      write == Head(k.readyWB)
  IN CASE k.readyMiss = << >> /\ k.readyWB = << >> -> Token("none", NoMSHR)
       [] k.readyMiss # << >> /\ k.readyWB = << >> -> Token("miss", miss)
       [] k.readyMiss = << >> /\ k.readyWB # << >> -> Token("wb", write)
       [] OTHER ->
            IF WBFull(k)
            THEN Token(IF OlderThanWB(k, write) THEN "miss" ELSE "wb", write)
            ELSE Token("miss", miss)

(* getNextMSHR(): misses first, unless the write buffer is full or holds   *)
(* the same block.  A full write buffer goes first, unless an older miss   *)
(* to the same block waits.                                                *)
GetNextMSHR(k) ==
  LET miss  == Head(k.readyMiss)
      write == Head(k.readyWB)
  IN CASE k.readyMiss = << >> /\ k.readyWB = << >> -> Token("none", NoMSHR)
       [] k.readyMiss # << >> /\ k.readyWB = << >> -> Token("miss", miss)
       [] k.readyMiss = << >> /\ k.readyWB # << >> -> Token("wb", write)
       [] OTHER ->
            IF WBFull(k)
            THEN Token(IF OlderThanWB(k, write) THEN "miss" ELSE "wb", write)
            ELSE Token(IF k.wb[miss] # NoWB THEN "wb" ELSE "miss", miss)

(* getBusPacket(): the command for the first target of an MSHR. *)
GetBusPacket(k, a) ==
  LET cmd == Head(k.mshr[a].targets).cmd IN
  CASE a \in ValidIn(k) -> IF IsLLSC(cmd) THEN "SCUpgradeReq" ELSE "UpgradeReq"
    [] a \notin ValidIn(k) /\ cmd = "StoreCondFailReq" -> "SCUpgradeFailReq"
    [] OTHER -> IF ListNeedsExclusive(k.mshr[a].targets) THEN "ReadExReq" ELSE "ReadReq"

(* The assertions of getBusPacket() and getTimingPacket(). *)
SendAsserts(k, next) ==
  LET a == next[2] IN
  CASE next[1] = "miss" ->
         a \in ValidIn(k) => /\ ListNeedsExclusive(k.mshr[a].targets)
                             /\ "W" \notin k.blk[a].status
    [] next[1] = "wb" -> a \notin ValidIn(k)
    [] OTHER -> TRUE

(* MSHR::markInService(), with what the snoops made of the packet. *)
MarkInService(k, a, shared, inhibit) ==
  LET sent == Unqueue(k, "miss", a) IN
  [sent EXCEPT !.mshr[a].inService = TRUE,
               !.mshr[a].pendingDirty =
                 ListNeedsExclusive(k.mshr[a].targets) \/ (~shared /\ inhibit),
               !.mshr[a].postInvalidate = FALSE,
               !.mshr[a].postDowngrade = FALSE]

-----------------------------------------------------------------------------
(* Snoops.  The result of one: the new state of the cache, whether it      *)
(* asserts the shared line and inhibits the memory, the answers it sends   *)
(* (at most one, assertions permitting).                                   *)
Answer(cmd, data, shared, inhibit) ==
  [cmd |-> cmd, data |-> data, shared |-> shared, inhibit |-> inhibit]

AfterSnoop(b, cmd) ==
  IF IsInvalidate(cmd) THEN NoBlock ELSE [b EXCEPT !.status = @ \ {"W"}]

(* handleSnoop(): a dirty block is supplied, by doTimingSupplyResponse(). *)
Supply(b, cmd) ==
  IF "D" \in b.status THEN {Answer(Response(cmd), b.data, cmd = "ReadReq", TRUE)} ELSE {}

\* Mutant: the snoop does not mark the request that it follows.
MSHRHandleSnoopNoPost(m, c, cmd) ==
  LET saved == m.pendingDirty \/ IsInvalidate(cmd) IN
  IF saved THEN [m EXCEPT !.targets = Append(@, FromSnoop(c, cmd))] ELSE m

(* MSHR::handleSnoop() of a request in service: the snoop comes after it,  *)
(* and is kept for later if it invalidates or wants the data.              *)
MSHRHandleSnoop(m, c, cmd) ==
  LET m1 == IF NeedsExclusive(cmd) THEN [m EXCEPT !.deferred = ReplaceUpgrades(@)] ELSE m
      saved == m.pendingDirty \/ IsInvalidate(cmd)
  IN CASE m.postInvalidate -> m1
       [] ~m.postInvalidate /\ saved ->
            [m1 EXCEPT !.targets = Append(@, FromSnoop(c, cmd)),
                       !.postInvalidate = NeedsExclusive(cmd),
                       !.postDowngrade = @ \/ ~NeedsExclusive(cmd)]
       [] OTHER -> [m1 EXCEPT !.postDowngrade = TRUE]

SnoopMSHR(k, a, c, cmd) ==
  LET m == k.mshr[a] IN
  [k       |-> [k EXCEPT !.mshr[a] = MSHRHandleSnoop(m, c, cmd)],
   shared  |-> ~m.postInvalidate /\ ~NeedsExclusive(cmd),
   inhibit |-> ~m.postInvalidate /\ m.pendingDirty,
   answers |-> {}]

(* Requests that wait to be sent come after the snoop: the block their     *)
(* upgrades count on is lost.                                              *)
SnoopPending(k, a, cmd) ==
  IF k.mshr[a] # NoMSHR /\ NeedsExclusive(cmd)
  THEN [k EXCEPT !.mshr[a].targets = ReplaceUpgrades(@),
                 !.mshr[a].deferred = ReplaceUpgrades(@)]
  ELSE k

\* Mutant: the write buffer is not looked at.
SnoopWriteBufferNot(k, a, cmd) == [k |-> k, answers |-> {}]

(* A writeback that waits supplies its data, and is dropped if the snoop   *)
(* invalidates.                                                            *)
SnoopWriteBuffer(k, a, cmd) ==
  IF k.wb[a] = NoWB
  THEN [k |-> k, answers |-> {}]
  ELSE [k |-> IF IsInvalidate(cmd) THEN ReleaseWriteBuffer(k, a) ELSE k,
        answers |-> {Answer(Response(cmd), k.wb[a].data, cmd = "ReadReq", TRUE)}]

SnoopBlock(k, a, cmd) ==
  CASE a \notin ValidIn(k) -> k
    [] a \in ValidIn(k) /\ IsInvalidate(cmd) -> Invalidate(k, a)
    [] OTHER -> [k EXCEPT !.blk[a] = AfterSnoop(@, cmd)]

SnoopNow(k, a, cmd) ==
  LET written == SnoopWriteBuffer(SnoopPending(k, a, cmd), a, cmd)
      answers == written.answers \cup Supply(k.blk[a], cmd)
  IN [k       |-> SnoopBlock(written.k, a, cmd),
      shared  |-> cmd = "ReadReq" /\ (a \in ValidIn(k) \/ k.wb[a] # NoWB),
      inhibit |-> answers # {},
      answers |-> answers]

(* recvTimingSnoopReq(), a request of cache c. *)
RecvTimingSnoopReq(k, a, c, cmd) ==
  IF k.mshr[a] # NoMSHR /\ k.mshr[a].inService
  THEN SnoopMSHR(k, a, c, cmd)
  ELSE SnoopNow(k, a, cmd)

-----------------------------------------------------------------------------
(* Responses.                                                              *)

(* findVictim(): the tail of the set's list, which is a free way or, in    *)
(* some policies even while ways are free, any block.                      *)
Victims(k, a) ==
  IF a \in ValidIn(k)
  THEN {a}
  ELSE ValidIn(k) \cup (IF Cardinality(ValidIn(k)) < Ways THEN {a} ELSE {})

\* Mutant: a block with an outstanding upgrade is replaced.
NoRoomNever(k, a, victim) == FALSE

(* allocateBlock() gives up if the victim has an outstanding upgrade; the  *)
(* data then go through the tempBlock.                                     *)
NoRoom(k, a, victim) == victim # a /\ k.mshr[victim] # NoMSHR

\* Mutant: the line of the victim is still counted.
AllocateBlockCounts(k, a, victim) ==
  LET gone == [k EXCEPT !.blk[victim] = NoBlock] IN
  IF a \in ValidIn(k) THEN k ELSE IncSetLine(gone, a)

(* allocateBlock() and insertBlock(): the victim leaves, and is written    *)
(* back after the response has been dealt with.                            *)
AllocateBlock(k, a, victim) ==
  LET gone == IF victim = a THEN k ELSE Invalidate(k, victim) IN
  IF a \in ValidIn(k) THEN k ELSE IncSetLine(gone, a)

Evicted(k, a, victim) ==
  IF victim # a /\ ~NoRoom(k, a, victim) /\ "D" \in k.blk[victim].status
  THEN {victim} ELSE {}

(* handleFill(): the block with what the response r brings. *)
Filled(b, r) ==
  [b EXCEPT !.status = @ \cup {"V", "R"} \cup (IF r.shared THEN {} ELSE {"W"})
                         \cup (IF ~r.shared /\ r.inhibit THEN {"D"} ELSE {}),
            !.data = IF HasData(r.cmd) THEN r.data ELSE @]

\* Mutant: the deferred targets are served although a snoop came before them.
MSHRHandleFillAll(m, r) ==
  IF ~r.shared /\ ListNeedsExclusive(m.deferred)
  THEN [m EXCEPT !.targets = @ \o m.deferred, !.deferred = << >>]
  ELSE m

(* MSHR::handleFill(): an exclusive copy serves the deferred targets too. *)
MSHRHandleFill(m, r) ==
  IF ~r.shared /\ ~m.postInvalidate /\ ~m.postDowngrade /\ ListNeedsExclusive(m.deferred)
  THEN [m EXCEPT !.targets = @ \o m.deferred, !.deferred = << >>]
  ELSE m

(* The loop over the targets, with the block b, what has been done for the *)
(* processor (the version each access saw, or wrote) and the answers to    *)
(* deferred snoops.  A snoop that comes before an invalidation takes the   *)
(* data and invalidates its own copy at once.                              *)
ServeTarget(w, t, m) ==
  LET b == IF t.source = "cpu" THEN SatisfyCpuSideRequest(w.blk, t.cmd, t.req)
           ELSE IF "V" \in w.blk.status THEN AfterSnoop(w.blk, t.cmd) ELSE w.blk
      resp(s) == IF m.postInvalidate /\ s.cmd = "ReadResp"
                 THEN [s EXCEPT !.cmd = "ReadRespWithInvalidate"] ELSE s
  IN [blk     |-> b,
      done    |-> IF t.source = "cpu"
                  THEN w.done \cup {[op |-> t.who, version |-> b.data]} ELSE w.done,
      writes  |-> w.writes + (IF t.source = "cpu" THEN b.data - w.blk.data ELSE 0),
      answers |-> IF t.source = "cpu" THEN w.answers
                  ELSE w.answers \cup {[to |-> t.who, answer |-> resp(s)] :
                                         s \in Supply(w.blk, t.cmd)},
      fits    |-> w.fits /\ (t.source = "cpu" => "V" \in w.blk.status)]

ServeTargets(b, m) ==
  LET served[i \in 0 .. Len(m.targets)] ==
        IF i = 0
        THEN [blk |-> b, done |-> {}, writes |-> 0, answers |-> {}, fits |-> TRUE]
        ELSE ServeTarget(served[i - 1], m.targets[i], m)
  IN served[Len(m.targets)]

(* The block when the targets are served: a deferred invalidation or       *)
(* downgrade is applied.                                                   *)
AfterTargets(b, m, r) ==
  CASE "V" \notin b.status -> b
    [] "V" \in b.status /\ (r.cmd = "ReadRespWithInvalidate" \/ m.postInvalidate) -> NoBlock
    [] OTHER -> IF m.postDowngrade THEN [b EXCEPT !.status = @ \ {"W"}] ELSE b

(* promoteDeferredTargets() and markPending(): the deferred targets make a *)
(* new request, which may be sent when its first target may.               *)
PromoteDeferredTargets(k, a) ==
  LET m == k.mshr[a]
      waits == Token("deferred", a) \in Range(k.unripe)
  IN [k EXCEPT !.mshr[a].targets = m.deferred, !.mshr[a].deferred = << >>,
               !.mshr[a].inService = FALSE,
               !.blk[a].status = @ \ {"R"},
               !.unripe = [i \in DOMAIN @ |-> IF @[i] = Token("deferred", a)
                                              THEN Token("miss", a) ELSE @[i]],
               !.readyMiss = IF waits THEN @ ELSE Append(@, a)]

Deallocate(k, a) ==
  LET freed == [k EXCEPT !.mshr[a] = NoMSHR] IN
  IF MSHRsFull(k) /\ ~MSHRsFull(freed)
  THEN [freed EXCEPT !.blocked = @ \ {"NoMSHRs"}]
  ELSE freed

(* The accesses in S are over. *)
Forget(k, S) ==
  [k EXCEPT !.wb = [a \in Addrs |-> IF k.wb[a] = NoWB THEN NoWB
                                    ELSE [k.wb[a] EXCEPT !.older = @ \ S]]]

ClearNoTargets(k, a) ==
  IF k.noTargetMSHR = a
  THEN [k EXCEPT !.noTargetMSHR = NoMSHR, !.blocked = @ \ {"NoTargets"}]
  ELSE k

(* The end of recvTimingResp(): the block is b, or nothing is kept of the  *)
(* tempBlock ...                                                           *)
SettleBlock(k, a, m, b, temp) ==
  [IF b = NoBlock /\ ~temp THEN DecSetLine(k, a) ELSE k
     EXCEPT !.mshr[a] = [m EXCEPT !.targets = << >>],
            !.unripe = IF m.deferred = << >> THEN RemoveFirst(@, Token("deferred", a)) ELSE @,
            !.blk[a] = IF temp THEN NoBlock ELSE b]

(* ... and the MSHR makes a new request or is free. *)
RetireTargets(k, a, m, done) ==
  Forget(IF m.deferred # << >> THEN PromoteDeferredTargets(k, a) ELSE Deallocate(k, a),
         {d.op : d \in done})

(* recvTimingResp() of response r for block a, with the victim findVictim() *)
(* picks: the state of the cache after it, what was done, and whether the  *)
(* assertions on the way hold.                                             *)
RecvTimingResp(k, a, r, victim) ==
  LET k0     == ClearNoTargets(k, a)
      m      == MSHRHandleFill(k0.mshr[a], r)
      temp   == NoRoom(k0, a, victim)
      k1     == IF temp THEN IncSetLine(k0, a) ELSE AllocateBlock(k0, a, victim)
      w      == ServeTargets(Filled(k1.blk[a], r), m)
      b      == AfterTargets(w.blk, m, r)
      k2     == SettleBlock(k1, a, m, b, temp)
      k3     == RetireTargets(k2, a, m, w.done)
      toSave == IF temp /\ "D" \in b.status THEN {a} ELSE Evicted(k0, a, victim)
      saved(x) == AllocateWriteBuffer(k3, x, IF x = a THEN b.data ELSE k0.blk[x].data)
      k4     == IF toSave = {} THEN k3 ELSE saved(CHOOSE x \in toSave : TRUE)
  IN [k       |-> IF temp THEN DecSetLine(k4, a) ELSE k4,
      done    |-> w.done,
      writes  |-> w.writes,
      answers |-> w.answers,
      asserts |-> /\ w.fits
                  /\ HasData(r.cmd) \/ a \in ValidIn(k)
                  /\ m # k0.mshr[a] => ~ListNeedsExclusive(k0.mshr[a].targets)
                  /\ temp => /\ ListNeedsExclusive(k0.mshr[victim].targets)
                             /\ "W" \in k0.blk[victim].status => "D" \in k0.blk[victim].status
                             /\ ~("V" \in w.blk.status /\ b = NoBlock)
                  /\ (\E t \in Range(m.targets) : t.source = "snoop") =>
                       (r.cmd = "ReadRespWithInvalidate" => m.postInvalidate)
                  /\ \A x \in toSave : k3.wb[x] = NoWB]

-----------------------------------------------------------------------------
NewCache(writeBuffers) ==
  [blk |-> [a \in Addrs |-> NoBlock], lines |-> [pcm |-> 0, dram |-> 0],
   mshr |-> [a \in Addrs |-> NoMSHR], wb |-> [a \in Addrs |-> NoWB],
   writeBuffers |-> writeBuffers, unripe |-> << >>, readyMiss |-> << >>,
   readyWB |-> << >>, blocked |-> {}, noTargetMSHR |-> NoMSHR]
=============================================================================
