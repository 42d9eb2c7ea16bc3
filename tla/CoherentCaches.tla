--------------------------- MODULE CoherentCaches ---------------------------
(***************************************************************************)
(* Caches on a coherent crossbar above a memory.  A request goes over the  *)
(* crossbar in one step: every other cache snoops it, then the memory      *)
(* takes it or refuses it (CoherentXBar::recvTimingReq).  Responses of the *)
(* memory and of other caches come later, in any order.                    *)
(*                                                                         *)
(* Each processor has a number of accesses it may have outstanding.  The   *)
(* auxiliary latest counts the writes to each block.                       *)
(***************************************************************************)
EXTENDS Cache

CONSTANTS
  Caches,
  Ops,              \* the accesses that may be outstanding
  CpuOf,            \* the cache (and processor) of each
  Accesses,         \* bound: what each may be, <<access, command, block, request>>
  WriteBuffers,     \* parameter write_buffers of each cache
  MaxWrites,        \* bound: writes to each block
  NoOp, NoAnswer

ASSUME CoherentAssumption ==
  /\ CpuOf \in [Ops -> Caches]
  /\ Accesses \subseteq Ops \X CpuCommands \X Addrs \X Requests
  /\ WriteBuffers \in [Caches -> Nat \ {0}]
  /\ MaxWrites \in [Addrs -> Nat]

VARIABLES
  cache,     \* the state of each cache
  op,        \* the accesses that wait: command, block, latest[] when issued
  answer,    \* what is under way to a cache for a block in service
  mem,       \* the version of each block in memory
  latest     \* auxiliary: the writes done to each block

vars == <<cache, op, answer, mem, latest>>

Responses == {"ReadResp", "ReadRespWithInvalidate", "ReadExResp", "UpgradeResp", "UpgradeFailResp"}

(* The memory has yet to answer command cmd. *)
AtMemory(cmd, shared) == Answer(cmd, 0, shared, FALSE)

(* The types of the state.  The causes and the flags are those of          *)
(* BaseCache and MSHR.                                                     *)
LockType == [context : Contexts, low : Nat, high : Nat, version : Nat]

BlockType ==
  [status : SUBSET {"V", "R", "W", "D"}, data : Nat, locks : SUBSET LockType]

TargetType ==
  [source : {"cpu"}, who : Ops, cmd : CpuCommands \cup {"StoreCondFailReq"}, req : Requests]
    \cup [source : {"snoop"}, who : Caches, cmd : BusCommands]

MSHRType ==
  [targets : Seq(TargetType), deferred : Seq(TargetType), inService : BOOLEAN,
   pendingDirty : BOOLEAN, postInvalidate : BOOLEAN, postDowngrade : BOOLEAN]

WBType == [data : Nat, older : SUBSET (Ops \cup Caches)]

CacheType ==
  [blk : [Addrs -> BlockType], lines : [pcm : Int, dram : Int],
   mshr : [Addrs -> MSHRType \cup {NoMSHR}], wb : [Addrs -> WBType \cup {NoWB}],
   writeBuffers : Nat \ {0}, unripe : Seq({"miss", "wb", "deferred"} \X Addrs),
   readyMiss : Seq(Addrs), readyWB : Seq(Addrs),
   blocked : SUBSET {"NoMSHRs", "NoWBBuffers", "NoTargets"},
   noTargetMSHR : Addrs \cup {NoMSHR}]

AnswerType ==
  [cmd : BusCommands \cup Responses, data : Nat, shared : BOOLEAN, inhibit : BOOLEAN]

OpType == [cmd : CpuCommands, addr : Addrs, floor : Nat]

ASSUME NullAssumption ==
  /\ NoMSHR \notin MSHRType /\ NoWB \notin WBType \cup Nat
  /\ NoAnswer \notin AnswerType /\ NoOp \notin OpType

-----------------------------------------------------------------------------
Writes(cmd) == cmd \in {"WriteReq", "StoreCondReq"}

(* Bound: the version of a block stays at most MaxWrites[a]. *)
MayWrite(a) ==
  latest[a] + Cardinality({o \in Ops : op[o] # NoOp /\ op[o].addr = a /\ Writes(op[o].cmd)})
    < MaxWrites[a]

(* CpuSidePort::recvTimingReq() refuses while the cache is blocked. *)
MayIssue(o, cmd, a) ==
  /\ op[o] = NoOp
  /\ cache[CpuOf[o]].blocked = {}
  /\ Writes(cmd) => MayWrite(a)

(* An access that hits is done at once.  A read that hits changes nothing, *)
(* nor does a store conditional that fails at once.                        *)
AccessHits(o, cmd, a, req) ==
  LET c == CpuOf[o]
      b == SatisfyCpuSideRequest(cache[c].blk[a], cmd, req)
  IN /\ MayIssue(o, cmd, a)
     /\ cmd # "ReadReq"
     /\ Hit(cache[c], cmd, a)
     /\ cache' = [cache EXCEPT ![c].blk[a] = b]
     /\ latest' = [latest EXCEPT ![a] = @ + (b.data - cache[c].blk[a].data)]
     /\ UNCHANGED <<op, answer, mem>>

AccessMisses(o, cmd, a, req) ==
  LET c == CpuOf[o] IN
  /\ MayIssue(o, cmd, a)
  /\ ~Hit(cache[c], cmd, a) /\ ~FailsAtOnce(cache[c], cmd, a)
  /\ cache' = [cache EXCEPT ![c] = Miss(@, a, o, cmd, req)]
  /\ op' = [op EXCEPT ![o] = [cmd |-> cmd, addr |-> a, floor |-> latest[a]]]
  /\ UNCHANGED <<answer, mem, latest>>

(* Time passes: what cache c allocated first may be sent. *)
TimePasses(c) ==
  /\ cache[c].unripe # << >>
  /\ cache' = [cache EXCEPT ![c] = Ripen(@)]
  /\ UNCHANGED <<op, answer, mem, latest>>

-----------------------------------------------------------------------------
(* What the other caches make of request cmd of cache c. *)
Snooped(c, a, cmd) ==
  [d \in Caches \ {c} |-> RecvTimingSnoopReq(cache[d], a, c, cmd)]

Shared(snooped) == \E d \in DOMAIN snooped : snooped[d].shared
Inhibited(snooped) == \E d \in DOMAIN snooped : snooped[d].inhibit
SnoopAnswers(snooped) == UNION {snooped[d].answers : d \in DOMAIN snooped}

(* What is under way to the requester: the answer of a cache; nothing yet  *)
(* if a cache defers it; an upgrade is acknowledged by the memory at once; *)
(* a read takes its time there.                                            *)
FirstAnswer(snooped, cmd) ==
  CASE SnoopAnswers(snooped) # {} -> CHOOSE r \in SnoopAnswers(snooped) : TRUE
    [] SnoopAnswers(snooped) = {} /\ Inhibited(snooped) -> NoAnswer
    [] OTHER -> IF IsRead(cmd) THEN AtMemory(cmd, Shared(snooped))
                ELSE Answer(Response(cmd), 0, Shared(snooped), FALSE)

\* Mutant: the request counts as sent although the memory refused it.
SendRefusedMarks(c) ==
  LET next == GetNextMSHR(cache[c])
      a == next[2]
      cmd == GetBusPacket(cache[c], a)
      snooped == Snooped(c, a, cmd)
  IN /\ next[1] = "miss" /\ IsRead(cmd) /\ ~Inhibited(snooped)
     /\ cache' = [d \in Caches |-> IF d = c THEN MarkInService(cache[c], a, FALSE, FALSE)
                                   ELSE snooped[d].k]
     /\ UNCHANGED <<op, answer, mem, latest>>

(* sendDeferredPacket(): the memory refuses the request, after the others  *)
(* have snooped it.  It is made anew when the memory sends a retry.        *)
SendRefused(c) ==
  LET next == GetNextMSHR(cache[c])
      a == next[2]
      cmd == GetBusPacket(cache[c], a)
      snooped == Snooped(c, a, cmd)
  IN /\ next[1] = "miss" /\ IsRead(cmd) /\ ~Inhibited(snooped)
     /\ cache' = [d \in Caches |-> IF d = c THEN cache[c] ELSE snooped[d].k]
     /\ UNCHANGED <<op, answer, mem, latest>>

SendMiss(c) ==
  LET next == GetNextMSHR(cache[c])
      a == next[2]
      cmd == GetBusPacket(cache[c], a)
      snooped == Snooped(c, a, cmd)
  IN /\ next[1] = "miss"
     /\ cache' = [d \in Caches |->
          IF d = c THEN MarkInService(cache[c], a, Shared(snooped), Inhibited(snooped))
          ELSE snooped[d].k]
     /\ answer' = [answer EXCEPT ![c][a] = FirstAnswer(snooped, cmd)]
     /\ UNCHANGED <<op, mem, latest>>

(* A writeback is snooped by nobody.  The memory performs it when it takes *)
(* it; if it refuses, nothing changes.                                     *)
SendWriteback(c) ==
  LET next == GetNextMSHR(cache[c])
      a == next[2]
  IN /\ next[1] = "wb"
     /\ cache' = [cache EXCEPT ![c] = ReleaseWriteBuffer(@, a)]
     /\ mem' = [mem EXCEPT ![a] = cache[c].wb[a].data]
     /\ UNCHANGED <<op, answer, latest>>

(* A read is done at the memory: it takes the data of that moment. *)
MemoryResponds(c, a) ==
  /\ answer[c][a] # NoAnswer /\ answer[c][a].cmd \in BusCommands
  /\ answer' = [answer EXCEPT ![c][a] =
                  Answer(Response(@.cmd), mem[a], @.shared, FALSE)]
  /\ UNCHANGED <<cache, op, mem, latest>>

Responded(c, a) == answer[c][a] # NoAnswer /\ answer[c][a].cmd \in Responses

RecvResp(c, a, victim) ==
  LET result == RecvTimingResp(cache[c], a, answer[c][a], victim)
      of(d)  == {x.answer : x \in {y \in result.answers : y.to = d}}
      done   == {d.op : d \in result.done}
  IN /\ Responded(c, a)
     /\ cache' = [cache EXCEPT ![c] = result.k]
     /\ op' = [o \in Ops |-> IF o \in done THEN NoOp ELSE op[o]]
     /\ answer' = [d \in Caches |->
          [answer[d] EXCEPT ![a] = CASE d = c -> NoAnswer
                                     [] d # c /\ of(d) # {} -> CHOOSE r \in of(d) : TRUE
                                     [] OTHER -> @]]
     /\ latest' = [latest EXCEPT ![a] = @ + result.writes]
     /\ UNCHANGED mem

-----------------------------------------------------------------------------
Init ==
  /\ cache = [c \in Caches |-> NewCache(WriteBuffers[c])]
  /\ op = [o \in Ops |-> NoOp]
  /\ answer = [c \in Caches |-> [a \in Addrs |-> NoAnswer]]
  /\ mem = [a \in Addrs |-> 0]
  /\ latest = [a \in Addrs |-> 0]

Next ==
  \/ \E x \in Accesses : AccessHits(x[1], x[2], x[3], x[4]) \/ AccessMisses(x[1], x[2], x[3], x[4])
  \/ \E c \in Caches : TimePasses(c) \/ SendMiss(c) \/ SendRefused(c) \/ SendWriteback(c)
  \/ \E c \in Caches, a \in Addrs : MemoryResponds(c, a)
  \/ \E c \in Caches, a \in Addrs : \E victim \in Victims(cache[c], a) : RecvResp(c, a, victim)

Spec == Init /\ [][Next]_vars
-----------------------------------------------------------------------------
TypeOK ==
  /\ cache \in [Caches -> CacheType]
  /\ op \in [Ops -> OpType \cup {NoOp}]
  /\ answer \in [Caches -> [Addrs -> AnswerType \cup {NoAnswer}]]
  /\ mem \in [Addrs -> Nat] /\ latest \in [Addrs -> Nat]

(* The places that hold data newer than the memory's, or may. *)
Owners(a) ==
  {<<c, "block">> : c \in {c \in Caches : "D" \in cache[c].blk[a].status}}
    \cup {<<c, "writeback">> : c \in {c \in Caches : cache[c].wb[a] # NoWB}}
    \cup {<<c, "response">> : c \in {c \in Caches : Responded(c, a)
                                       /\ answer[c][a].inhibit /\ ~answer[c][a].shared}}

(* No two places own a block, however requests, writebacks, deferred       *)
(* snoops and cache-to-cache transfers interleave; without an owner the    *)
(* memory is up to date; and who may write has the only copy.              *)
OneOwner ==
  /\ \A a \in Addrs : /\ Cardinality(Owners(a)) <= 1
                      /\ Owners(a) = {} => mem[a] = latest[a]
  /\ \A c, d \in Caches, a \in Addrs :
       "W" \in cache[c].blk[a].status /\ d # c => "V" \notin cache[d].blk[a].status

(* Every valid copy contains every write that was ever done: a write done  *)
(* to an old copy, or one that is lost on its way to memory, would leave   *)
(* versions behind.                                                        *)
CopiesCurrent ==
  \A c \in Caches : \A a \in ValidIn(cache[c]) : cache[c].blk[a].data = latest[a]

(* What the response on its way will do when it arrives. *)
Outcomes(c, a) ==
  {RecvTimingResp(cache[c], a, answer[c][a], victim) : victim \in Victims(cache[c], a)}

(* An access that waited sees all that was written before it was issued,   *)
(* and a write comes on top of it.                                         *)
NoStaleAccess ==
  \A c \in Caches, a \in Addrs : Responded(c, a) =>
    \A result \in Outcomes(c, a) : \A d \in result.done :
      LET o == op[d.op] IN
      IF o.cmd = "WriteReq" THEN d.version > o.floor ELSE d.version >= o.floor

(* A store conditional that finds a lock (checkWrite()) writes to bytes    *)
(* nobody has written since the load locked: all the writes to the block   *)
(* since then, of whatever processor, have left the bytes of the lock      *)
(* alone.  Locks of other bytes stay, and go with the block.               *)
LocksHold ==
  \A c \in Caches, a \in Addrs : \A lock \in cache[c].blk[a].locks :
    "V" \in cache[c].blk[a].status /\ lock.version = latest[a]

(* Caches that have promised cache c an answer for block a. *)
Promised(c, a) ==
  {d \in Caches \ {c} : /\ cache[d].mshr[a] # NoMSHR
                        /\ cache[d].mshr[a].pendingDirty
                        /\ \E t \in Range(cache[d].mshr[a].targets) :
                             t.source = "snoop" /\ t.who = c}

InService(c, a) == cache[c].mshr[a] # NoMSHR /\ cache[c].mshr[a].inService

(* How often the request for block a stands on the lists of cache c. *)
Queued(c, a) ==
  Cardinality({i \in DOMAIN cache[c].unripe : cache[c].unripe[i] = Token("miss", a)})
    + Cardinality({i \in DOMAIN cache[c].readyMiss : cache[c].readyMiss[i] = a})

(* Whatever waits in an MSHR is on the lists once and will be sent; when   *)
(* it is in service it will be answered, once: by the memory, by a         *)
(* response on its way, or by the one cache that has deferred the snoop.   *)
(* Caches that have promised each other answers do not wait in a circle.   *)
OneAnswer ==
  /\ \A c \in Caches, a \in Addrs :
       /\ Queued(c, a) = IF Pending(cache[c], a) THEN 1 ELSE 0
       /\ (IF answer[c][a] # NoAnswer THEN 1 ELSE 0) + Cardinality(Promised(c, a))
            = IF InService(c, a) THEN 1 ELSE 0
  /\ \A a \in Addrs : \A S \in SUBSET {c \in Caches : InService(c, a)} :
       S # {} => \E c \in S : Promised(c, a) \cap S = {}

(* "We need to make sure to perform the writeback first To preserve the    *)
(* dirty data, then we can issue the write" (getNextMSHR()): no request is *)
(* in service for a block whose writeback still waits.                     *)
WritebackFirst ==
  \A c \in Caches, a \in Addrs : ~(InService(c, a) /\ cache[c].wb[a] # NoWB)

(* The processor is shut out only while there is a reason that will go.    *)
BlockedHasCause ==
  \A c \in Caches :
    LET k == cache[c] IN
    /\ "NoMSHRs" \in k.blocked => MSHRsFull(k)
    /\ "NoWBBuffers" \in k.blocked => WBFull(k)
    /\ "NoTargets" \in k.blocked => k.noTargetMSHR # NoMSHR /\ k.mshr[k.noTargetMSHR] # NoMSHR

(* The counters of lines per memory, kept by this repository's tags        *)
(* through every fill, replacement, invalidation and use of the tempBlock. *)
LinesCounted ==
  \A c \in Caches :
    /\ cache[c].lines.pcm = Cardinality(ValidIn(cache[c]) \cap Pcm)
    /\ cache[c].lines.dram = Cardinality(ValidIn(cache[c]) \ Pcm)

(* The assertions of the cache and the crossbar hold wherever a step could *)
(* be taken now: one cache at most inhibits the memory, an upgrade finds   *)
(* its block, a block that cannot be read has an outstanding write, ...    *)
AssertionsHold ==
  /\ \A c \in Caches :
       LET next == GetNextMSHR(cache[c])
           snooped == Snooped(c, next[2], GetBusPacket(cache[c], next[2]))
       IN /\ SendAsserts(cache[c], next)
          /\ next[1] = "miss" =>
               Cardinality({d \in DOMAIN snooped : snooped[d].inhibit}) <= 1
  /\ \A c \in Caches : \A a \in ValidIn(cache[c]) :
       "R" \notin cache[c].blk[a].status => cache[c].mshr[a] # NoMSHR
  /\ \A c \in Caches, a \in Addrs :
       Responded(c, a) => \A result \in Outcomes(c, a) : result.asserts
=============================================================================
