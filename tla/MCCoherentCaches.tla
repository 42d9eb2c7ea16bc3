-------------------------- MODULE MCCoherentCaches --------------------------
(***************************************************************************)
(* Instances of CoherentCaches.  The blocks p (of the PCM) and q (of the   *)
(* DRAM) fit into a cache together, or replace each other.                 *)
(***************************************************************************)
EXTENDS CoherentCaches

CONSTANTS c1, c2, c3, o1, o2, o3, o4, p, q, t1, t2, t3

(* Three processors.  The first has two accesses outstanding, so that      *)
(* requests gather more than one target, targets are deferred, and a block *)
(* with an outstanding upgrade is asked to make room for the other.        *)
ThreeProcessors == [o \in Ops |-> CASE o \in {o1, o2} -> c1 [] o = o3 -> c2 [] OTHER -> c3]

(* Requests for the first byte of a block, the second or both; the first   *)
(* processor runs two threads.                                             *)
Part(t, low, high) == [context |-> t, low |-> low, high |-> high]
Parts == {Part(t, l, h) : t \in Contexts, l \in 0 .. 1, h \in 0 .. 1} \ {Part(t, 1, 0) : t \in Contexts}

SharedBlocks ==
  ({o1} \X {"LoadLockedReq"} \X {p} \X {Part(t1, 0, 0)})
    \cup ({o1} \X {"StoreCondReq"} \X {p} \X {Part(t1, 0, 0), Part(t1, 0, 1), Part(t2, 0, 0)})
    \cup ({o1} \X {"WriteReq"} \X {p} \X {Part(t1, 1, 1)})
    \cup ({o2} \X {"WriteReq"} \X {p, q} \X {Part(t2, 0, 0)})
    \cup ({o3} \X {"ReadReq"} \X {p, q} \X {Part(t3, 0, 1)})
    \cup ({o3} \X {"WriteReq"} \X {p} \X {Part(t3, 0, 1)})
    \cup ({o4} \X {"WriteReq"} \X {p} \X {Part(t3, 0, 1)})

OneBuffer == [c \in Caches |-> IF c = c1 THEN 1 ELSE 2]
TwoAndOne == [a \in Addrs |-> IF a = p THEN 2 ELSE 1]

(* Two processors, one with three writes outstanding: two of them wait for *)
(* the same block while a third is filled through the tempBlock.           *)
ThreeWrites == [o \in Ops |-> IF o = o4 THEN c2 ELSE c1]

DeferredWrites ==
  ({o1} \X {"WriteReq"} \X {q} \X {Part(t1, 0, 1)})
    \cup ({o2, o3} \X {"WriteReq"} \X {p} \X {Part(t1, 0, 1)})
    \cup ({o4} \X {"ReadReq"} \X {p, q} \X {Part(t2, 0, 1)})

TwoEach == [a \in Addrs |-> 2]
=============================================================================
