----------------------------- MODULE CacheFacts -----------------------------
(***************************************************************************)
(* The parts of the invariant of CoherentCaches, and what the operations   *)
(* of one cache do to its fields and keep of its own part, LocalOK.        *)
(***************************************************************************)
EXTENDS CoherentCaches, ListFacts

Tokens == {"miss", "wb", "deferred"} \X Addrs

(* x is on list s; it is there once at most. *)
On(s, x) == \E i \in 1 .. Len(s) : s[i] = x
Once(s, x) == \A i, j \in 1 .. Len(s) : s[i] = x /\ s[j] = x => i = j

(* A list with an element more at its end. *)
Grown(r, s, l, t) ==
  /\ l = Len(s) /\ Len(r) = l + 1 /\ r[l + 1] = t
  /\ \A i \in 1 .. l : r[i] = s[i]
  /\ \A i : i \in 1 .. l + 1 <=> i \in 1 .. l \/ i = l + 1

LEMMA GrownOn ==
  ASSUME NEW s, NEW r, NEW l, NEW t, Grown(r, s, l, t)
  PROVE  \A x : On(r, x) <=> On(s, x) \/ x = t
<1>1. ASSUME NEW x, On(r, x) PROVE On(s, x) \/ x = t
  BY <1>1, Zenon DEF On, Grown
<1>2. ASSUME NEW x, On(s, x) PROVE On(r, x)
  BY <1>2, Zenon DEF On, Grown
<1>3. On(r, t)
  BY Zenon DEF On, Grown
<1>. QED  BY <1>1, <1>2, <1>3, Zenon

(* erase() of the entry of an element that is there once. *)
LEMMA RemoveFirstFacts ==
  ASSUME NEW S, NEW s \in Seq(S), NEW e
  PROVE  /\ RemoveFirst(s, e) \in Seq(S)
         /\ \A x : Once(s, x) => Once(RemoveFirst(s, e), x)
         /\ \A x : x # e => (On(RemoveFirst(s, e), x) <=> On(s, x))
         /\ Once(s, e) => ~On(RemoveFirst(s, e), e)
<1>1. CASE On(s, e)
  <2>1. PICK n \in 1 .. Len(s) : RemoveFirst(s, e) = RemoveAt(s, n) /\ s[n] = e
    <3>. DEFINE I == {i \in 1 .. Len(s) : s[i] = e}
    <3>1. I \subseteq Nat /\ I # {}
      BY <1>1 DEF On
    <3>2. Min(I) \in I
      BY <3>1, MinFacts
    <3>3. RemoveFirst(s, e) = RemoveAt(s, Min(I))
      BY <1>1, <3>1 DEF RemoveFirst, SelectInSeq, On
    <3>. QED  BY <3>2, <3>3
  <2>2. PICK r : r = RemoveAt(s, n)
    OBVIOUS
  <2>3. /\ r \in Seq(S) /\ Len(r) = Len(s) - 1 /\ Len(s) \in Nat
        /\ \A j \in 1 .. n - 1 : r[j] = s[j]
        /\ \A j \in n .. Len(s) - 1 : r[j] = s[j + 1]
    <3>1. /\ RemoveAt(s, n) \in Seq(S) /\ Len(RemoveAt(s, n)) = Len(s) - 1
          /\ \A j \in 1 .. n - 1 : RemoveAt(s, n)[j] = s[j]
          /\ \A j \in n .. Len(s) - 1 : RemoveAt(s, n)[j] = s[j + 1]
      BY RemoveAtFacts, Zenon
    <3>2. Len(s) \in Nat
      OBVIOUS
    <3>. QED  BY <2>2, <3>1, <3>2, Zenon
  <2>4. \A j \in 1 .. Len(r) : r[j] = IF j < n THEN s[j] ELSE s[j + 1]
    BY <2>1, <2>3
  <2>5. \A j \in 1 .. Len(s) : j # n => s[j] = IF j < n THEN r[j] ELSE r[j - 1]
    BY <2>1, <2>3
  <2>6. \A x : Once(s, x) => Once(r, x)
    <3>. SUFFICES ASSUME NEW x, Once(s, x), NEW i \in 1 .. Len(r), NEW j \in 1 .. Len(r),
                         r[i] = x, r[j] = x
                  PROVE  i = j
      BY DEF Once
    <3>1. PICK u \in 1 .. Len(s) : s[u] = x /\ u = IF i < n THEN i ELSE i + 1
      BY <2>3, <2>4
    <3>2. PICK v \in 1 .. Len(s) : s[v] = x /\ v = IF j < n THEN j ELSE j + 1
      BY <2>3, <2>4
    <3>3. u = v
      BY <3>1, <3>2 DEF Once
    <3>. QED  BY <2>3, <3>1, <3>2, <3>3
  <2>7. ASSUME NEW x, x # e
        PROVE  On(r, x) <=> On(s, x)
    <3>1. ASSUME On(r, x)
          PROVE  On(s, x)
      <4>1. PICK i \in 1 .. Len(r) : r[i] = x
        BY <3>1 DEF On
      <4>2. (IF i < n THEN i ELSE i + 1) \in 1 .. Len(s)
        BY <2>3
      <4>. QED  BY <2>4, <4>1, <4>2 DEF On
    <3>2. ASSUME On(s, x)
          PROVE  On(r, x)
      <4>1. PICK i \in 1 .. Len(s) : s[i] = x
        BY <3>2 DEF On
      <4>2. i # n /\ (IF i < n THEN i ELSE i - 1) \in 1 .. Len(r)
        BY <2>1, <2>3, <2>7, <4>1
      <4>. QED  BY <2>5, <4>1, <4>2 DEF On
    <3>. QED  BY <3>1, <3>2
  <2>8. ASSUME Once(s, e)
        PROVE  ~On(r, e)
    <3>. SUFFICES ASSUME NEW i \in 1 .. Len(r), r[i] = e PROVE FALSE
      BY DEF On
    <3>1. PICK u \in 1 .. Len(s) : s[u] = e /\ u = IF i < n THEN i ELSE i + 1
      BY <2>3, <2>4
    <3>2. u = n
      BY <2>1, <2>8, <3>1 DEF Once
    <3>. QED  BY <2>3, <3>1, <3>2
  <2>. QED  BY <2>1, <2>2, <2>3, <2>6, <2>7, <2>8
<1>2. CASE ~On(s, e)
  BY <1>2 DEF RemoveFirst, On
<1>. QED  BY <1>1, <1>2

(* push_back() of an entry. *)
LEMMA AppendOn ==
  ASSUME NEW S, NEW s \in Seq(S), NEW e \in S
  PROVE  /\ Append(s, e) \in Seq(S)
         /\ \A x : x # e => (On(Append(s, e), x) <=> On(s, x)) /\ (Once(Append(s, e), x) <=> Once(s, x))
         /\ On(Append(s, e), e)
         /\ ~On(s, e) => Once(Append(s, e), e)
<1>1. PICK t : t = Append(s, e)
  OBVIOUS
<1>2. /\ t \in Seq(S) /\ Len(s) \in Nat /\ Len(t) = Len(s) + 1 /\ t[Len(s) + 1] = e
      /\ \A i \in 1 .. Len(s) : t[i] = s[i]
  BY <1>1, AppendFacts
<1>. HIDE <1>1
<1>3. \A i \in 1 .. Len(t) : i \in 1 .. Len(s) \/ i = Len(s) + 1
  BY <1>2
<1>4. On(t, e) /\ (~On(s, e) => Once(t, e))
  BY <1>2, <1>3 DEF On, Once
<1>5. ASSUME NEW x, x # e
      PROVE  (On(t, x) <=> On(s, x)) /\ (Once(t, x) <=> Once(s, x))
  <2>1. \A i \in 1 .. Len(t) : t[i] = x => i \in 1 .. Len(s) /\ s[i] = x
    BY <1>2, <1>3, <1>5
  <2>2. \A i \in 1 .. Len(s) : i \in 1 .. Len(t) /\ t[i] = s[i]
    BY <1>2
  <2>. QED  BY <2>1, <2>2 DEF On, Once
<1>. QED  BY <1>1, <1>2, <1>4, <1>5

(* pop_front(). *)
LEMMA TailOn ==
  ASSUME NEW S, NEW s \in Seq(S), s # << >>
  PROVE  /\ Tail(s) \in Seq(S) /\ Head(s) \in S
         /\ \A x : x # Head(s) => (On(Tail(s), x) <=> On(s, x))
         /\ \A x : Once(s, x) => Once(Tail(s), x)
         /\ Once(s, Head(s)) => ~On(Tail(s), Head(s))
         /\ On(s, Head(s))
<1>1. PICK t : t = Tail(s)
  OBVIOUS
<1>2. PICK h : h = Head(s)
  OBVIOUS
<1>3. /\ t \in Seq(S) /\ Len(s) \in Nat /\ Len(s) > 0 /\ Len(t) = Len(s) - 1
      /\ h = s[1] /\ h \in S
      /\ \A i \in 1 .. Len(t) : t[i] = s[i + 1]
  BY <1>1, <1>2
<1>. HIDE <1>1, <1>2
<1>4. \A i \in 1 .. Len(t) : i + 1 \in 1 .. Len(s) /\ t[i] = s[i + 1]
  BY <1>3
<1>5. \A i \in 1 .. Len(s) : i = 1 \/ (i - 1 \in 1 .. Len(t) /\ t[i - 1] = s[i])
  BY <1>3
<1>6. \A x : x # h => (On(t, x) <=> On(s, x))
  <2>1. ASSUME NEW x, On(t, x) PROVE On(s, x)
    BY <1>4, <2>1, Zenon DEF On
  <2>2. ASSUME NEW x, x # h, On(s, x) PROVE On(t, x)
    <3>1. PICK i \in 1 .. Len(s) : s[i] = x
      BY <2>2, Zenon DEF On
    <3>2. i # 1
      BY <1>3, <2>2, <3>1, Zenon
    <3>. QED  BY <1>5, <3>1, <3>2, Zenon DEF On
  <2>. QED  BY <2>1, <2>2, Zenon
<1>7. \A x : Once(s, x) => Once(t, x)
  <2>. SUFFICES ASSUME NEW x, Once(s, x), NEW i \in 1 .. Len(t), NEW j \in 1 .. Len(t),
                       t[i] = x, t[j] = x
                PROVE  i = j
    BY DEF Once
  <2>1. i + 1 = j + 1
    BY <1>4 DEF Once
  <2>. QED  BY <1>3, <2>1
<1>8. ASSUME Once(s, h)
      PROVE  ~On(t, h)
  <2>. SUFFICES ASSUME NEW i \in 1 .. Len(t), t[i] = h PROVE FALSE
    BY DEF On
  <2>1. i + 1 = 1
    BY <1>3, <1>4, <1>8 DEF Once
  <2>. QED  BY <1>3, <2>1
<1>9. On(s, h)
  BY <1>3 DEF On
<1>. QED  BY <1>1, <1>2, <1>3, <1>6, <1>7, <1>8, <1>9

-----------------------------------------------------------------------------
(* Why the processor is shut out.                                          *)
CauseOK(k) ==
  /\ "NoMSHRs" \in k.blocked => MSHRsFull(k)
  /\ "NoWBBuffers" \in k.blocked => WBFull(k)
  /\ "NoTargets" \in k.blocked => k.noTargetMSHR # NoMSHR /\ k.mshr[k.noTargetMSHR] # NoMSHR

(* Registers and buffers are counted by their numbers. *)
LEMMA FullFacts ==
  ASSUME NEW k \in CacheType
  PROVE  /\ IsFiniteSet(Allocated(k)) /\ IsFiniteSet(Buffered(k))
         /\ Cardinality(Allocated(k)) \in Nat /\ Cardinality(Buffered(k)) \in Nat
         /\ k.writeBuffers \in Nat
<1>1. IsFiniteSet(Addrs)
  BY CacheAssumption
<1>2. Allocated(k) \subseteq Addrs /\ Buffered(k) \subseteq Addrs
  BY DEF Allocated, Buffered
<1>3. IsFiniteSet(Allocated(k)) /\ IsFiniteSet(Buffered(k))
  BY <1>1, <1>2, FS_Subset
<1>. QED  BY <1>3, FS_CardinalityType DEF CacheType

(* What is full stays full when more is allocated. *)
LEMMA FullGrows ==
  ASSUME NEW k \in CacheType, NEW kk \in CacheType, kk.writeBuffers = k.writeBuffers
  PROVE  /\ Allocated(k) \subseteq Allocated(kk) /\ MSHRsFull(k) => MSHRsFull(kk)
         /\ Buffered(k) \subseteq Buffered(kk) /\ WBFull(k) => WBFull(kk)
<1>1. MSHRs \in Nat
  BY CacheAssumption
<1>2. ASSUME Allocated(k) \subseteq Allocated(kk) PROVE MSHRsFull(k) => MSHRsFull(kk)
  <2>1. Cardinality(Allocated(k)) <= Cardinality(Allocated(kk))
    BY <1>2, FullFacts, FS_Subset
  <2>. QED  BY <1>1, <2>1, FullFacts DEF MSHRsFull
<1>3. ASSUME Buffered(k) \subseteq Buffered(kk) PROVE WBFull(k) => WBFull(kk)
  <2>1. Cardinality(Buffered(k)) <= Cardinality(Buffered(kk))
    BY <1>3, FullFacts, FS_Subset
  <2>. QED  BY <2>1, FullFacts DEF WBFull
<1>. QED  BY <1>2, <1>3

(* A cache that holds what it held, and blocks for no other cause. *)
LEMMA CauseKept ==
  ASSUME NEW k \in CacheType, NEW kk \in CacheType, CauseOK(k),
         kk.writeBuffers = k.writeBuffers, kk.blocked = k.blocked,
         kk.noTargetMSHR = k.noTargetMSHR,
         \A a \in Addrs : k.mshr[a] # NoMSHR => kk.mshr[a] # NoMSHR,
         \A a \in Addrs : k.wb[a] # NoWB => kk.wb[a] # NoWB
  PROVE  CauseOK(kk)
<1>1. Allocated(k) \subseteq Allocated(kk) /\ Buffered(k) \subseteq Buffered(kk)
  BY DEF Allocated, Buffered
<1>2. (MSHRsFull(k) => MSHRsFull(kk)) /\ (WBFull(k) => WBFull(kk))
  BY <1>1, FullGrows
<1>3. k.noTargetMSHR \in Addrs \cup {NoMSHR}
  BY DEF CacheType
<1>. QED  BY <1>2, <1>3 DEF CauseOK

-----------------------------------------------------------------------------
(* The inductive invariant.                                                *)
(*                                                                         *)
(* What an MSHR stands for.  A request in service owns the block to come   *)
(* if it asked for an exclusive copy, and is the newest owner until        *)
(* another cache asks for one.  One that only reads keeps its copy unless  *)
(* an invalidation has been seen meanwhile.                                *)
Sent(m) == m # NoMSHR /\ m.inService
Owning(m) == Sent(m) /\ m.pendingDirty
Newest(m) == Owning(m) /\ ~m.postInvalidate
Reading(m) == Sent(m) /\ ~m.pendingDirty
Keeping(m) == Reading(m) /\ ~m.postInvalidate

(* The owner with MSHR m has deferred the snoop of request cmd of cache c, *)
(* and has so promised it an answer.                                       *)
Asks(m, c, cmd) == Owning(m) /\ On(m.targets, FromSnoop(c, cmd))

Promises(m, c) == \E cmd \in BusCommands : Asks(m, c, cmd)

Valid(b) == "V" \in b.status
Dirty(b) == "D" \in b.status
Writable(b) == "W" \in b.status

AtMem(r) == r # NoAnswer /\ r.cmd \in BusCommands
OnWay(r) == r # NoAnswer /\ r.cmd \in Responses
Brings(r) == OnWay(r) /\ r.inhibit /\ ~r.shared

(* A read whose answer makes its copy the only one. *)
MayWriteSoon(m, r) == Keeping(m) /\ ~m.postDowngrade /\ r # NoAnswer /\ ~r.shared

(* What a cache makes sure of for one block, whatever the others do.       *)
Cpu(t) == t.source = "cpu"
Exclusive(t) == Cpu(t) /\ NeedsExclusive(t.cmd)

BlockOK(b) ==
  /\ "W" \in b.status => "R" \in b.status
  /\ "R" \in b.status \/ "D" \in b.status => "V" \in b.status
  /\ "V" \notin b.status => b = NoBlock
  /\ \A lock \in b.locks : lock.version = b.data

(* Writes come before all snoops, an invalidation is the last target.      *)
TargetOK(m, i) ==
  LET t == m.targets[i] IN
  /\ ~Cpu(t) /\ t.cmd # "ReadReq" => i = Len(m.targets) /\ m.postInvalidate
  /\ ~Cpu(t) /\ t.cmd = "ReadReq" => m.postDowngrade /\ m.pendingDirty
  /\ Exclusive(t) => m.pendingDirty /\ \A j \in 1 .. i - 1 : Cpu(m.targets[j])

SentOK(m) ==
  /\ \A i \in 1 .. Len(m.targets) : TargetOK(m, i)
  /\ m.pendingDirty => ListNeedsExclusive(m.targets)
  /\ m.postInvalidate =>
       LET t == m.targets[Len(m.targets)] IN ~Cpu(t) /\ t.cmd # "ReadReq"
  /\ m.deferred # << >> =>
       /\ m.pendingDirty => m.postInvalidate \/ m.postDowngrade
       /\ m.postInvalidate \/ ListNeedsExclusive(m.deferred)

MSHROK(m) ==
  /\ m.targets # << >> /\ Cpu(m.targets[1])
  /\ \A i \in 1 .. Len(m.deferred) : Cpu(m.deferred[i])
  /\ ~m.inService =>
       m.deferred = << >> /\ \A i \in 1 .. Len(m.targets) : Cpu(m.targets[i])
  /\ m.inService => SentOK(m)

LineOK(b, m) ==
  /\ BlockOK(b)
  /\ m = NoMSHR /\ "V" \in b.status => "R" \in b.status
  /\ m # NoMSHR =>
       /\ MSHROK(m)
       /\ "R" \notin b.status
       /\ ~m.inService /\ "V" \in b.status => ListNeedsExclusive(m.targets)

(* The lists of what is to be sent agree with the MSHRs and the buffers.   *)
ListOK(unripe, ready, kind, a, waits) ==
  /\ Once(unripe, Token(kind, a)) /\ Once(ready, a)
  /\ ~(On(unripe, Token(kind, a)) /\ On(ready, a))
  /\ waits <=> On(unripe, Token(kind, a)) \/ On(ready, a)

QueueOK(k, a) ==
  /\ ListOK(k.unripe, k.readyMiss, "miss", a, Pending(k, a))
  /\ ListOK(k.unripe, k.readyWB, "wb", a, k.wb[a] # NoWB)
  /\ Once(k.unripe, Token("deferred", a))
  /\ On(k.unripe, Token("deferred", a)) => k.mshr[a] # NoMSHR /\ k.mshr[a].deferred # << >>

(* The counters of lines. *)
LinesOK(k) ==
  /\ k.lines.pcm = Cardinality(ValidIn(k) \cap Pcm)
  /\ k.lines.dram = Cardinality(ValidIn(k) \ Pcm)

LocalOK(k) ==
  /\ \A a \in Addrs : LineOK(k.blk[a], k.mshr[a]) /\ QueueOK(k, a)
  /\ CauseOK(k) /\ LinesOK(k)

(* One block in all the caches: the copies B, the MSHRs M, the data X that *)
(* wait in write buffers, the answers A.                                   *)

(* Requests for the block are answered one after the other.  Of the owners *)
(* to come one at most has its answer, one is the newest, and nobody waits *)
(* in a circle.                                                            *)
ChainInv(M, A) ==
  /\ \A c, d \in Caches : Owning(M[c]) /\ Owning(M[d]) /\ c # d =>
       /\ A[c] = NoAnswer \/ A[d] = NoAnswer
       /\ ~Newest(M[c]) \/ ~Newest(M[d])
  /\ \A c \in Caches : Owning(M[c]) => \E d \in Caches : Newest(M[d])
  /\ \A c \in Caches : A[c] # NoAnswer => Sent(M[c]) /\ \A d \in Caches : ~Promises(M[d], c)
  /\ \A c \in Caches : Sent(M[c]) /\ A[c] = NoAnswer => \E d \in Caches : Promises(M[d], c)
  /\ \A c, d, e \in Caches : Promises(M[d], c) /\ Promises(M[e], c) => d = e
  /\ \A c, d \in Caches : Promises(M[d], c) => Sent(M[c]) /\ c # d
  /\ \A S \in SUBSET Caches :
       S # {} /\ (\A c \in S : Sent(M[c])) => \E c \in S : \A d \in S : ~Promises(M[d], c)

(* What is promised is what was asked for.  A reader who comes before an   *)
(* invalidation has seen it too.                                           *)
TargetInv(M) ==
  \A c, d \in Caches, cmd \in BusCommands : Asks(M[d], c, cmd) =>
    /\ cmd \in {"ReadReq", "ReadExReq", "SCUpgradeFailReq"}
    /\ cmd = "ReadReq" <=> Reading(M[c])
    /\ cmd = "ReadReq" /\ M[d].postInvalidate => M[c].postInvalidate

(* An answer fits the request. *)
AnswerInv(B, M, A) ==
  \A c \in Caches : A[c] # NoAnswer =>
    /\ Owning(M[c]) => /\ A[c].cmd \in {"ReadExReq", "SCUpgradeFailReq", "ReadExResp",
                                       "UpgradeResp", "UpgradeFailResp"}
                       /\ ~A[c].shared
    /\ Reading(M[c]) => /\ A[c].cmd \in {"ReadReq", "ReadResp", "ReadRespWithInvalidate"}
                        /\ A[c].inhibit => A[c].shared
    /\ A[c].cmd = "ReadRespWithInvalidate" => M[c].postInvalidate
    /\ A[c].cmd = "UpgradeResp" <=> Valid(B[c])

(* Who has a copy, and who may have one when the answer comes. *)
CopyInv(B, M, X, A) ==
  /\ \A c \in Caches : Sent(M[c]) /\ Valid(B[c]) => Owning(M[c]) /\ A[c] # NoAnswer
  /\ \A c, d \in Caches : c # d =>
       /\ Owning(M[d]) /\ Valid(B[c]) => Owning(M[c])
       /\ Owning(M[d]) /\ Keeping(M[c]) => A[c] = NoAnswer
       /\ Writable(B[c]) \/ MayWriteSoon(M[c], A[c]) =>
            ~Valid(B[d]) /\ ~Owning(M[d]) /\ ~Keeping(M[d]) /\ X[d] = NoWB

(* There is one owner. *)
OwnerInv(B, M, X, A) ==
  /\ \A c, d \in Caches : X[c] # NoWB =>
       ~Valid(B[c]) /\ ~Owning(M[d]) /\ ~Dirty(B[d]) /\ (X[d] # NoWB => c = d)
  /\ \A c, d \in Caches : Dirty(B[c]) /\ Dirty(B[d]) => c = d
  /\ \A c \in Caches : Brings(A[c]) => ~Dirty(B[c])
  /\ \A c, d \in Caches : AtMem(A[c]) /\ Keeping(M[c]) => ~Dirty(B[d]) /\ X[d] = NoWB

(* Where the last version (ll) is; the memory has version mm. *)
DataInv(B, M, X, A, mm, ll) ==
  /\ \A c \in Caches : Valid(B[c]) => B[c].data = ll
  /\ \A c \in Caches : X[c] # NoWB => X[c] = ll
  /\ \A c \in Caches : OnWay(A[c]) /\ A[c].cmd # "UpgradeResp" /\ (Owning(M[c]) \/ Keeping(M[c]))
       => A[c].data = ll
  /\ (\A c \in Caches : ~Dirty(B[c]) /\ X[c] = NoWB /\ ~Brings(A[c])) => mm = ll
  /\ mm <= ll

Coh(B, M, X, A, mm, ll) ==
  /\ ChainInv(M, A) /\ TargetInv(M) /\ AnswerInv(B, M, A) /\ CopyInv(B, M, X, A)
  /\ OwnerInv(B, M, X, A) /\ DataInv(B, M, X, A, mm, ll)

Blks(a) == [c \in Caches |-> cache[c].blk[a]]
Msrs(a) == [c \in Caches |-> cache[c].mshr[a]]
Wbs(a) == [c \in Caches |-> IF cache[c].wb[a] = NoWB THEN NoWB ELSE cache[c].wb[a].data]
Answers(a) == [c \in Caches |-> answer[c][a]]

CohInv == \A a \in Addrs : Coh(Blks(a), Msrs(a), Wbs(a), Answers(a), mem[a], latest[a])

(* A target of a processor is an access that waits, in one list.  The      *)
(* accesses are P, the last version is ll.                                 *)
Stands(t, o) == t.cmd = o.cmd \/ (t.cmd = "StoreCondFailReq" /\ o.cmd = "StoreCondReq")

OpAt(c, a, t, P, ll) ==
  Cpu(t) => /\ CpuOf[t.who] = c /\ P[t.who] # NoOp /\ P[t.who].addr = a
            /\ Stands(t, P[t.who]) /\ P[t.who].floor <= ll

CpuOn(s, o) == \E i \in 1 .. Len(s) : Cpu(s[i]) /\ s[i].who = o

OpsOK(c, a, m, P, ll) ==
  /\ \A i \in 1 .. Len(m.targets) : OpAt(c, a, m.targets[i], P, ll)
  /\ \A i \in 1 .. Len(m.deferred) : OpAt(c, a, m.deferred[i], P, ll)
  /\ \A o : ~(CpuOn(m.targets, o) /\ CpuOn(m.deferred, o))

OpInv ==
  \A c \in Caches, a \in Addrs :
    cache[c].mshr[a] # NoMSHR => OpsOK(c, a, cache[c].mshr[a], op, latest[a])

(* What is on its way to an access is not older than the access. *)
FloorOK(floor, r, mm) ==
  /\ AtMem(r) => floor <= mm
  /\ OnWay(r) /\ r.cmd # "UpgradeResp" => floor <= r.data

FloorInv ==
  \A c \in Caches, a \in Addrs : answer[c][a] # NoAnswer =>
    \A o \in Ops : CpuOn(cache[c].mshr[a].targets, o) =>
      FloorOK(op[o].floor, answer[c][a], mem[a])

IInv ==
  /\ TypeOK /\ \A c \in Caches : LocalOK(cache[c])
  /\ CohInv /\ OpInv /\ FloorInv

-----------------------------------------------------------------------------
(* What the handlers do to the fields of a cache.                          *)

(* The entries of the lists are tokens. *)
LEMMA UnqueueFacts ==
  ASSUME NEW k \in CacheType, NEW kind, NEW a
  PROVE  /\ Unqueue(k, kind, a) \in CacheType
         /\ Unqueue(k, kind, a).blk = k.blk
         /\ Unqueue(k, kind, a).mshr = k.mshr
         /\ Unqueue(k, kind, a).wb = k.wb
         /\ Unqueue(k, kind, a).lines = k.lines
         /\ Unqueue(k, kind, a).blocked = k.blocked
         /\ Unqueue(k, kind, a).noTargetMSHR = k.noTargetMSHR
         /\ Unqueue(k, kind, a).writeBuffers = k.writeBuffers
         /\ Unqueue(k, kind, a).unripe = RemoveFirst(k.unripe, Token(kind, a))
         /\ Unqueue(k, kind, a).readyMiss =
              IF kind = "miss" THEN RemoveFirst(k.readyMiss, a) ELSE k.readyMiss
         /\ Unqueue(k, kind, a).readyWB =
              IF kind = "wb" THEN RemoveFirst(k.readyWB, a) ELSE k.readyWB
<1>1. /\ k.unripe \in Seq(Tokens) /\ k.readyMiss \in Seq(Addrs) /\ k.readyWB \in Seq(Addrs)
  BY DEF CacheType, Tokens
<1>2. /\ RemoveFirst(k.unripe, Token(kind, a)) \in Seq(Tokens)
      /\ RemoveFirst(k.readyMiss, a) \in Seq(Addrs)
      /\ RemoveFirst(k.readyWB, a) \in Seq(Addrs)
  BY <1>1, RemoveFirstFacts
<1>. QED  BY <1>2 DEF Unqueue, CacheType, Tokens

(* TimePasses: an entry of the list in the order of time moves on. *)
LEMMA RipenFacts ==
  ASSUME NEW k \in CacheType, k.unripe # << >>,
         NEW kind \in {"miss", "wb", "deferred"}, NEW a \in Addrs,
         Head(k.unripe) = Token(kind, a)
  PROVE  /\ Ripen(k) \in CacheType
         /\ Ripen(k).blk = k.blk /\ Ripen(k).mshr = k.mshr /\ Ripen(k).wb = k.wb
         /\ Ripen(k).lines = k.lines /\ Ripen(k).blocked = k.blocked
         /\ Ripen(k).noTargetMSHR = k.noTargetMSHR
         /\ Ripen(k).writeBuffers = k.writeBuffers
         /\ Ripen(k).unripe = Tail(k.unripe)
         /\ Ripen(k).readyMiss = IF kind = "miss" THEN Append(k.readyMiss, a) ELSE k.readyMiss
         /\ Ripen(k).readyWB = IF kind = "wb" THEN Append(k.readyWB, a) ELSE k.readyWB
<1>1. /\ k.unripe \in Seq(Tokens) /\ k.readyMiss \in Seq(Addrs) /\ k.readyWB \in Seq(Addrs)
  BY DEF CacheType, Tokens
<1>2. /\ Tail(k.unripe) \in Seq(Tokens)
      /\ Append(k.readyMiss, a) \in Seq(Addrs) /\ Append(k.readyWB, a) \in Seq(Addrs)
  BY <1>1
<1>3. Head(k.unripe)[1] = kind /\ Head(k.unripe)[2] = a
  BY DEF Token
<1>. QED  BY <1>2, <1>3, ZenonT(60) DEF Ripen, CacheType, Tokens

(* markInService() of a writeback. *)
LEMMA ReleaseFacts ==
  ASSUME NEW k \in CacheType, NEW a \in Addrs
  PROVE  LET kk == ReleaseWriteBuffer(k, a) IN
         /\ kk \in CacheType
         /\ kk.blk = k.blk /\ kk.mshr = k.mshr /\ kk.wb = [k.wb EXCEPT ![a] = NoWB]
         /\ kk.lines = k.lines /\ kk.noTargetMSHR = k.noTargetMSHR
         /\ kk.unripe = RemoveFirst(k.unripe, Token("wb", a))
         /\ kk.readyMiss = k.readyMiss
         /\ kk.readyWB = RemoveFirst(k.readyWB, a)
         /\ CauseOK(k) => CauseOK(kk)
<1>1. PICK k1 : k1 = [k EXCEPT !.wb[a] = NoWB]
  OBVIOUS
<1>2. /\ k1 \in CacheType /\ k1.wb = [k.wb EXCEPT ![a] = NoWB]
      /\ k1.blk = k.blk /\ k1.mshr = k.mshr /\ k1.lines = k.lines
      /\ k1.noTargetMSHR = k.noTargetMSHR /\ k1.writeBuffers = k.writeBuffers
      /\ k1.blocked = k.blocked
      /\ k1.unripe = k.unripe /\ k1.readyMiss = k.readyMiss /\ k1.readyWB = k.readyWB
  BY <1>1 DEF CacheType
<1>3. PICK r : r = Unqueue(k1, "wb", a)
  OBVIOUS
<1>4. /\ r \in CacheType /\ r.wb = [k.wb EXCEPT ![a] = NoWB]
      /\ r.blk = k.blk /\ r.mshr = k.mshr /\ r.lines = k.lines
      /\ r.noTargetMSHR = k.noTargetMSHR /\ r.writeBuffers = k.writeBuffers
      /\ r.blocked = k.blocked
      /\ r.unripe = RemoveFirst(k.unripe, Token("wb", a)) /\ r.readyMiss = k.readyMiss
      /\ r.readyWB = RemoveFirst(k.readyWB, a)
  BY <1>2, <1>3, UnqueueFacts
<1>5. PICK kk : kk = ReleaseWriteBuffer(k, a)
  OBVIOUS
<1>6. kk = IF WBFull(k) /\ ~WBFull(r) THEN [r EXCEPT !.blocked = @ \ {"NoWBBuffers"}] ELSE r
  BY <1>1, <1>3, <1>5 DEF ReleaseWriteBuffer
<1>7. /\ kk \in CacheType /\ kk.wb = r.wb
      /\ kk.blk = k.blk /\ kk.mshr = k.mshr /\ kk.lines = k.lines
      /\ kk.noTargetMSHR = k.noTargetMSHR /\ kk.writeBuffers = k.writeBuffers
      /\ kk.unripe = r.unripe /\ kk.readyMiss = k.readyMiss /\ kk.readyWB = r.readyWB
      /\ kk.blocked = IF WBFull(k) /\ ~WBFull(r) THEN k.blocked \ {"NoWBBuffers"} ELSE k.blocked
  BY <1>4, <1>6 DEF CacheType
<1>8. ASSUME CauseOK(k) PROVE CauseOK(kk)
  <2>1. Allocated(kk) = Allocated(k) /\ Buffered(kk) = Buffered(r)
    BY <1>7 DEF Allocated, Buffered
  <2>2. (MSHRsFull(kk) <=> MSHRsFull(k)) /\ (WBFull(kk) <=> WBFull(r))
    BY <1>4, <1>7, <2>1 DEF MSHRsFull, WBFull
  <2>. QED  BY <1>7, <1>8, <2>2 DEF CauseOK
<1>. QED  BY <1>4, <1>5, <1>7, <1>8

(* The fields of MSHRs and targets. *)
LEMMA TargetFacts ==
  /\ \A o \in Ops, cmd \in CpuCommands \cup {"StoreCondFailReq"}, req \in Requests :
       /\ FromCPU(o, cmd, req) \in TargetType /\ FromCPU(o, cmd, req).source = "cpu"
       /\ FromCPU(o, cmd, req).who = o /\ FromCPU(o, cmd, req).cmd = cmd
  /\ \A c \in Caches, cmd \in BusCommands :
       /\ FromSnoop(c, cmd) \in TargetType /\ FromSnoop(c, cmd).source = "snoop"
       /\ FromSnoop(c, cmd).who = c /\ FromSnoop(c, cmd).cmd = cmd
  /\ \A t \in TargetType :
       /\ t.source \in {"cpu", "snoop"}
       /\ t.source = "cpu" => /\ t.who \in Ops /\ t.req \in Requests
                              /\ t.cmd \in CpuCommands \cup {"StoreCondFailReq"}
       /\ t.source = "snoop" => t.who \in Caches /\ t.cmd \in BusCommands
  BY DEF FromCPU, FromSnoop, TargetType

(* replaceUpgrade() of a list: only store conditionals change, and they    *)
(* still need an exclusive copy.                                           *)
LEMMA ReplaceFacts ==
  ASSUME NEW s \in Seq(TargetType), \A i \in 1 .. Len(s) : s[i].source = "cpu"
  PROVE  /\ ReplaceUpgrades(s) \in Seq(TargetType)
         /\ Len(ReplaceUpgrades(s)) = Len(s)
         /\ \A i \in 1 .. Len(s) :
              /\ ReplaceUpgrades(s)[i].source = "cpu"
              /\ ReplaceUpgrades(s)[i].who = s[i].who
              /\ ReplaceUpgrades(s)[i].cmd = ReplaceUpgrade(s[i].cmd)
              /\ NeedsExclusive(ReplaceUpgrades(s)[i].cmd) <=> NeedsExclusive(s[i].cmd)
         /\ ListNeedsExclusive(ReplaceUpgrades(s)) <=> ListNeedsExclusive(s)
<1>1. PICK r : r = ReplaceUpgrades(s)
  OBVIOUS
<1>2. DOMAIN s = 1 .. Len(s) /\ Len(s) \in Nat
  OBVIOUS
<1>3. r = [i \in 1 .. Len(s) |-> [s[i] EXCEPT !.cmd = ReplaceUpgrade(s[i].cmd)]]
  BY <1>1, <1>2 DEF ReplaceUpgrades
<1>4. ASSUME NEW i \in 1 .. Len(s)
      PROVE  /\ r[i] \in TargetType /\ r[i].source = "cpu" /\ r[i].who = s[i].who
             /\ r[i].cmd = ReplaceUpgrade(s[i].cmd)
             /\ NeedsExclusive(r[i].cmd) <=> NeedsExclusive(s[i].cmd)
  <2>1. s[i] \in [source : {"cpu"}, who : Ops, cmd : CpuCommands \cup {"StoreCondFailReq"},
                  req : Requests]
    BY DEF TargetType
  <2>2. r[i] = [s[i] EXCEPT !.cmd = ReplaceUpgrade(s[i].cmd)]
    BY <1>3
  <2>3. ReplaceUpgrade(s[i].cmd) \in CpuCommands \cup {"StoreCondFailReq"}
    BY <2>1 DEF ReplaceUpgrade
  <2>4. NeedsExclusive(ReplaceUpgrade(s[i].cmd)) <=> NeedsExclusive(s[i].cmd)
    BY DEF ReplaceUpgrade, NeedsExclusive
  <2>. QED  BY <2>1, <2>2, <2>3, <2>4 DEF TargetType
<1>5. r \in Seq(TargetType) /\ Len(r) = Len(s)
  <2>1. r \in [1 .. Len(s) -> TargetType]
    BY <1>3, <1>4
  <2>. QED  BY <1>2, <2>1
<1>6. ListNeedsExclusive(r) <=> ListNeedsExclusive(s)
  <2>1. DOMAIN r = 1 .. Len(s)
    BY <1>3
  <2>. QED  BY <1>2, <1>4, <2>1 DEF ListNeedsExclusive
<1>. QED  BY <1>1, <1>4, <1>5, <1>6

-----------------------------------------------------------------------------
(* What the handlers do to one block and its MSHR.                         *)

(* The commands on the bus. *)
LEMMA BusFacts ==
  \A cmd \in BusCommands :
    /\ NeedsExclusive(cmd) <=> cmd # "ReadReq"
    /\ IsInvalidate(cmd) <=> cmd # "ReadReq"
    /\ Response(cmd) \in Responses /\ Response(cmd) # "ReadRespWithInvalidate"
    /\ Response(cmd) = "ReadResp" <=> cmd = "ReadReq"
    /\ Response(cmd) = "UpgradeResp" <=> cmd \in {"UpgradeReq", "SCUpgradeReq"}
    /\ IsRead(cmd) <=> cmd \notin {"UpgradeReq", "SCUpgradeReq"}
<1>1. "ReadReq" # "ReadExReq" /\ "ReadReq" # "UpgradeReq"
  OBVIOUS
<1>. QED  BY <1>1 DEF BusCommands, NeedsExclusive, IsInvalidate, Response, Responses, IsRead

(* An entry at the end of a list of targets. *)
LEMMA AppendTarget ==
  ASSUME NEW s \in Seq(TargetType), NEW t \in TargetType
  PROVE  /\ Append(s, t) \in Seq(TargetType) /\ Append(s, t) # << >>
         /\ Len(s) \in Nat /\ Len(Append(s, t)) = Len(s) + 1
         /\ Append(s, t)[Len(s) + 1] = t
         /\ \A i \in 1 .. Len(s) : Append(s, t)[i] = s[i]
         /\ ListNeedsExclusive(Append(s, t)) <=> ListNeedsExclusive(s) \/ Exclusive(t)
<1>1. PICK r : r = Append(s, t)
  OBVIOUS
<1>2. /\ r \in Seq(TargetType) /\ Len(s) \in Nat /\ Len(r) = Len(s) + 1 /\ r[Len(s) + 1] = t
      /\ \A i \in 1 .. Len(s) : r[i] = s[i]
      /\ DOMAIN s = 1 .. Len(s) /\ DOMAIN r = 1 .. Len(s) + 1
  BY <1>1, AppendFacts
<1>3. r # << >>
  BY <1>2
<1>. HIDE <1>1
<1>4. \A i : i \in 1 .. Len(s) + 1 <=> i \in 1 .. Len(s) \/ i = Len(s) + 1
  BY <1>2
<1>5. ListNeedsExclusive(r) <=> ListNeedsExclusive(s) \/ Exclusive(t)
  BY <1>2, <1>4 DEF ListNeedsExclusive, Exclusive, Cpu
<1>. QED  BY <1>1, <1>2, <1>3, <1>5

(* MSHR::handleSnoop() of a request in service. *)
LEMMA HandleSnoopFacts ==
  ASSUME NEW m \in MSHRType, m.inService, MSHROK(m), NEW c \in Caches, NEW cmd \in BusCommands
  PROVE  LET n == MSHRHandleSnoop(m, c, cmd) IN
         /\ n \in MSHRType /\ n.inService /\ n.pendingDirty = m.pendingDirty
         /\ n.postInvalidate = (m.postInvalidate \/ cmd # "ReadReq")
         /\ n.postDowngrade = (m.postDowngrade \/ (cmd = "ReadReq" /\ ~m.postInvalidate))
         /\ n.deferred = IF cmd # "ReadReq" THEN ReplaceUpgrades(m.deferred) ELSE m.deferred
         /\ n.targets = IF ~m.postInvalidate /\ (m.pendingDirty \/ cmd # "ReadReq")
                        THEN Append(m.targets, FromSnoop(c, cmd)) ELSE m.targets
<1>1. (NeedsExclusive(cmd) <=> cmd # "ReadReq") /\ (IsInvalidate(cmd) <=> cmd # "ReadReq")
  BY BusFacts
<1>2. PICK m1 : m1 = IF cmd # "ReadReq" THEN [m EXCEPT !.deferred = ReplaceUpgrades(@)] ELSE m
  OBVIOUS
<1>3. /\ m.deferred \in Seq(TargetType) /\ \A i \in 1 .. Len(m.deferred) : m.deferred[i].source = "cpu"
      /\ m.targets \in Seq(TargetType)
  BY DEF MSHRType, MSHROK, Cpu
<1>4. ReplaceUpgrades(m.deferred) \in Seq(TargetType)
  BY <1>3, ReplaceFacts
<1>5. /\ m1 \in MSHRType /\ m1.inService /\ m1.pendingDirty = m.pendingDirty
      /\ m1.postInvalidate = m.postInvalidate /\ m1.postDowngrade = m.postDowngrade
      /\ m1.targets = m.targets
      /\ m1.deferred = IF cmd # "ReadReq" THEN ReplaceUpgrades(m.deferred) ELSE m.deferred
  BY <1>2, <1>4 DEF MSHRType
<1>6. FromSnoop(c, cmd) \in TargetType
  BY TargetFacts
<1>7. Append(m.targets, FromSnoop(c, cmd)) \in Seq(TargetType)
  BY <1>3, <1>6, AppendTarget
<1>8. PICK n : n = MSHRHandleSnoop(m, c, cmd)
  OBVIOUS
<1>9. /\ m.postInvalidate \in BOOLEAN /\ m.pendingDirty \in BOOLEAN /\ m.postDowngrade \in BOOLEAN
  BY DEF MSHRType
<1>10. CASE m.postInvalidate
  <2>1. n = m1
    BY <1>1, <1>2, <1>8, <1>10 DEF MSHRHandleSnoop
  <2>. QED  BY <1>5, <1>8, <1>9, <1>10, <2>1
<1>11. CASE ~m.postInvalidate /\ (m.pendingDirty \/ cmd # "ReadReq")
  <2>1. n = [m1 EXCEPT !.targets = Append(@, FromSnoop(c, cmd)),
                       !.postInvalidate = NeedsExclusive(cmd),
                       !.postDowngrade = @ \/ ~NeedsExclusive(cmd)]
    BY <1>1, <1>2, <1>8, <1>11 DEF MSHRHandleSnoop
  <2>2. /\ n.postInvalidate = (cmd # "ReadReq")
        /\ n.postDowngrade = (m.postDowngrade \/ cmd = "ReadReq")
        /\ n \in MSHRType /\ n.inService /\ n.pendingDirty = m.pendingDirty
        /\ n.deferred = m1.deferred /\ n.targets = Append(m.targets, FromSnoop(c, cmd))
    BY <1>1, <1>5, <1>7, <1>9, <2>1 DEF MSHRType, NeedsExclusive, BusCommands
  <2>. QED  BY <1>5, <1>8, <1>9, <1>11, <2>2
<1>12. CASE ~m.postInvalidate /\ ~m.pendingDirty /\ cmd = "ReadReq"
  <2>1. n = [m1 EXCEPT !.postDowngrade = TRUE]
    BY <1>1, <1>2, <1>8, <1>12 DEF MSHRHandleSnoop
  <2>. QED  BY <1>5, <1>8, <1>9, <1>12, <2>1 DEF MSHRType
<1>. QED  BY <1>9, <1>10, <1>11, <1>12

SnoopedMSHR(m, c, cmd) ==
  CASE m = NoMSHR -> m
    [] m # NoMSHR /\ m.inService -> MSHRHandleSnoop(m, c, cmd)
    [] OTHER -> IF cmd = "ReadReq" THEN m
                ELSE [m EXCEPT !.targets = ReplaceUpgrades(@), !.deferred = ReplaceUpgrades(@)]

SnoopedBlk(b, m, cmd) ==
  IF Sent(m) THEN b
  ELSE IF cmd = "ReadReq" THEN [b EXCEPT !.status = @ \ {"W"}] ELSE NoBlock

(* A request in service sees the snoop of request cmd of cache c. *)
LEMMA SnoopSent ==
  ASSUME NEW m \in MSHRType, m.inService, MSHROK(m), NEW c \in Caches, NEW cmd \in BusCommands,
         NEW n, n = MSHRHandleSnoop(m, c, cmd)
  PROVE  /\ n \in MSHRType /\ n.inService /\ n.pendingDirty = m.pendingDirty /\ MSHROK(n)
         /\ n.postInvalidate = (m.postInvalidate \/ cmd # "ReadReq")
         /\ ~n.postInvalidate => n.postDowngrade
         /\ \A x \in Caches, q \in BusCommands :
              On(n.targets, FromSnoop(x, q)) <=>
                \/ On(m.targets, FromSnoop(x, q))
                \/ /\ ~m.postInvalidate /\ (m.pendingDirty \/ cmd # "ReadReq")
                   /\ x = c /\ q = cmd
<1>. DEFINE f == FromSnoop(c, cmd)
            saved == ~m.postInvalidate /\ (m.pendingDirty \/ cmd # "ReadReq")
<1>1. /\ n \in MSHRType /\ n.inService /\ n.pendingDirty = m.pendingDirty
      /\ n.postInvalidate = (m.postInvalidate \/ cmd # "ReadReq")
      /\ n.postDowngrade = (m.postDowngrade \/ (cmd = "ReadReq" /\ ~m.postInvalidate))
      /\ n.deferred = IF cmd # "ReadReq" THEN ReplaceUpgrades(m.deferred) ELSE m.deferred
      /\ n.targets = IF saved THEN Append(m.targets, f) ELSE m.targets
  BY HandleSnoopFacts
<1>2. /\ f \in TargetType /\ ~Cpu(f) /\ f.cmd = cmd /\ ~Exclusive(f)
      /\ \A x \in Caches, q \in BusCommands : FromSnoop(x, q) = f <=> x = c /\ q = cmd
  BY TargetFacts DEF Cpu, Exclusive
<1>. HIDE DEF f
<1>3. /\ m.targets \in Seq(TargetType) /\ m.deferred \in Seq(TargetType)
      /\ m.postInvalidate \in BOOLEAN /\ m.pendingDirty \in BOOLEAN /\ m.postDowngrade \in BOOLEAN
  BY DEF MSHRType
<1>4. /\ m.targets # << >> /\ Cpu(m.targets[1]) /\ SentOK(m)
      /\ \A i \in 1 .. Len(m.deferred) : Cpu(m.deferred[i])
  BY DEF MSHROK
<1>5. PICK l : l = Len(m.targets)
  OBVIOUS
<1>6. l \in Nat /\ l > 0
  BY <1>3, <1>4, <1>5
<1>7. /\ saved => /\ Len(n.targets) = l + 1 /\ n.targets[l + 1] = f
                  /\ \A i \in 1 .. l : n.targets[i] = m.targets[i]
                  /\ n.targets # << >>
                  /\ ListNeedsExclusive(n.targets) <=> ListNeedsExclusive(m.targets)
      /\ ~saved => n.targets = m.targets
  BY <1>1, <1>2, <1>3, <1>5, AppendTarget
<1>8. /\ n.deferred = << >> <=> m.deferred = << >>
      /\ \A i \in 1 .. Len(n.deferred) : Cpu(n.deferred[i])
      /\ ListNeedsExclusive(n.deferred) <=> ListNeedsExclusive(m.deferred)
  <2>1. CASE cmd = "ReadReq"
    BY <1>1, <1>4, <2>1
  <2>2. CASE cmd # "ReadReq"
    <3>1. \A i \in 1 .. Len(m.deferred) : m.deferred[i].source = "cpu"
      BY <1>4 DEF Cpu
    <3>2. PICK e : e = ReplaceUpgrades(m.deferred)
      OBVIOUS
    <3>3. /\ e \in Seq(TargetType) /\ Len(e) = Len(m.deferred)
          /\ \A i \in 1 .. Len(m.deferred) : e[i].source = "cpu"
          /\ ListNeedsExclusive(e) <=> ListNeedsExclusive(m.deferred)
      BY <1>3, <3>1, <3>2, ReplaceFacts
    <3>4. e = << >> <=> m.deferred = << >>
      BY <1>3, <3>3
    <3>. QED  BY <1>1, <2>2, <3>2, <3>3, <3>4 DEF Cpu
  <2>. QED  BY <2>1, <2>2
<1>9. ASSUME NEW x \in Caches, NEW q \in BusCommands
      PROVE  On(n.targets, FromSnoop(x, q)) <=>
               \/ On(m.targets, FromSnoop(x, q))
               \/ saved /\ x = c /\ q = cmd
  <2>1. CASE ~saved
    BY <1>7, <2>1
  <2>2. CASE saved
    <3>1. \A i : i \in 1 .. l + 1 <=> i \in 1 .. l \/ i = l + 1
      BY <1>6
    <3>2. Grown(n.targets, m.targets, l, f)
      BY <1>5, <1>7, <2>2, <3>1, Zenon DEF Grown
    <3>3. On(n.targets, FromSnoop(x, q)) <=> On(m.targets, FromSnoop(x, q)) \/ FromSnoop(x, q) = f
      BY <3>2, GrownOn, Zenon
    <3>. QED  BY <1>2, <2>2, <3>3, Zenon
  <2>. QED  BY <2>1, <2>2
<1>10. ASSUME NEW i \in 1 .. Len(n.targets) PROVE TargetOK(n, i)
  <2>1. CASE ~saved
    <3>1. TargetOK(m, i) /\ n.targets = m.targets
      BY <1>4, <1>7, <2>1 DEF SentOK
    <3>2. (m.postInvalidate => n.postInvalidate) /\ (m.postDowngrade => n.postDowngrade)
      BY <1>1
    <3>. QED  BY <1>1, <3>1, <3>2 DEF TargetOK
  <2>2. CASE saved /\ i \in 1 .. l
    <3>1. TargetOK(m, i) /\ n.targets[i] = m.targets[i] /\ \A j \in 1 .. i - 1 : n.targets[j] = m.targets[j]
      BY <1>4, <1>5, <1>6, <1>7, <2>2 DEF SentOK
    <3>2. m.postDowngrade => n.postDowngrade
      BY <1>1
    <3>. QED  BY <1>1, <2>2, <3>1, <3>2 DEF TargetOK
  <2>3. CASE saved /\ i = l + 1
    <3>1. n.targets[i] = f /\ i = Len(n.targets)
      BY <1>7, <2>3
    <3>. QED  BY <1>1, <1>2, <1>3, <2>3, <3>1 DEF TargetOK
  <2>. QED  BY <1>6, <1>7, <2>1, <2>2, <2>3
<1>11. n.postInvalidate => ~Cpu(n.targets[Len(n.targets)]) /\ n.targets[Len(n.targets)].cmd # "ReadReq"
  <2>1. CASE ~saved
    <3>1. n.postInvalidate => m.postInvalidate
      BY <1>1, <1>3, <2>1
    <3>. QED  BY <1>4, <1>7, <2>1, <3>1 DEF SentOK
  <2>2. CASE saved
    BY <1>1, <1>2, <1>7, <2>2, ZenonT(60)
  <2>. QED  BY <2>1, <2>2
<1>12. n.targets # << >> /\ Cpu(n.targets[1])
  BY <1>4, <1>6, <1>7
<1>13. SentOK(n)
  <2>1. n.pendingDirty => ListNeedsExclusive(n.targets)
    BY <1>1, <1>4, <1>7 DEF SentOK
  <2>2. n.deferred # << >> => /\ n.pendingDirty => n.postInvalidate \/ n.postDowngrade
                              /\ n.postInvalidate \/ ListNeedsExclusive(n.deferred)
    BY <1>1, <1>3, <1>4, <1>8 DEF SentOK
  <2>. QED  BY <1>10, <1>11, <2>1, <2>2 DEF SentOK
<1>14. MSHROK(n)
  BY <1>1, <1>8, <1>12, <1>13 DEF MSHROK
<1>. QED  BY <1>1, <1>9, <1>14

(* One block of a cache sees the snoop of request cmd of cache c. *)
LEMMA SnoopLine ==
  ASSUME NEW b \in BlockType, NEW m \in MSHRType \cup {NoMSHR}, LineOK(b, m),
         NEW c \in Caches, NEW cmd \in BusCommands,
         NEW n, n = SnoopedMSHR(m, c, cmd), NEW e, e = SnoopedBlk(b, m, cmd)
  PROVE  /\ n \in MSHRType \cup {NoMSHR} /\ e \in BlockType /\ LineOK(e, n)
         /\ n = NoMSHR <=> m = NoMSHR
         /\ Sent(n) <=> Sent(m)
         /\ Owning(n) <=> Owning(m)
         /\ Newest(n) <=> Newest(m) /\ cmd = "ReadReq"
         /\ Reading(n) <=> Reading(m)
         /\ Keeping(n) <=> Keeping(m) /\ cmd = "ReadReq"
         /\ Keeping(n) => n.postDowngrade
         /\ Sent(n) => (n.postInvalidate <=> m.postInvalidate \/ cmd # "ReadReq")
         /\ \A x \in Caches, q \in BusCommands :
              Asks(n, x, q) <=> Asks(m, x, q) \/ (Newest(m) /\ x = c /\ q = cmd)
         /\ Sent(m) => e = b
         /\ ~Sent(m) /\ cmd # "ReadReq" => e = NoBlock
         /\ ~Writable(e)
         /\ cmd = "ReadReq" => /\ Valid(e) <=> Valid(b)
                               /\ Dirty(e) <=> Dirty(b)
                               /\ e.data = b.data
<1>1. NoBlock \in BlockType /\ BlockOK(NoBlock) /\ ~Writable(NoBlock) /\ ~Valid(NoBlock)
  BY DEF NoBlock, BlockType, BlockOK, Writable, Valid
<1>2. CASE Sent(m)
  <2>1. m \in MSHRType /\ m.inService /\ MSHROK(m) /\ n = MSHRHandleSnoop(m, c, cmd) /\ e = b
    BY <1>2 DEF Sent, LineOK, SnoopedMSHR, SnoopedBlk
  <2>2. /\ n \in MSHRType /\ n.inService /\ n.pendingDirty = m.pendingDirty /\ MSHROK(n)
        /\ n.postInvalidate = (m.postInvalidate \/ cmd # "ReadReq")
        /\ ~n.postInvalidate => n.postDowngrade
        /\ \A x \in Caches, q \in BusCommands :
              On(n.targets, FromSnoop(x, q)) <=>
                \/ On(m.targets, FromSnoop(x, q))
                \/ /\ ~m.postInvalidate /\ (m.pendingDirty \/ cmd # "ReadReq")
                   /\ x = c /\ q = cmd
    BY <2>1, SnoopSent
  <2>4. n # NoMSHR /\ Sent(n)
    BY <2>2, NullAssumption DEF Sent
  <2>5. m.postInvalidate \in BOOLEAN /\ m.pendingDirty \in BOOLEAN
    BY <2>1 DEF MSHRType
  <2>6. /\ Owning(n) <=> Owning(m)
        /\ Newest(n) <=> Newest(m) /\ cmd = "ReadReq"
        /\ Reading(n) <=> Reading(m)
        /\ Keeping(n) <=> Keeping(m) /\ cmd = "ReadReq"
        /\ Keeping(n) => n.postDowngrade
        /\ n.postInvalidate <=> m.postInvalidate \/ cmd # "ReadReq"
    BY <1>2, <2>2, <2>4, <2>5 DEF Owning, Newest, Reading, Keeping
  <2>7. \A x \in Caches, q \in BusCommands :
              Asks(n, x, q) <=> Asks(m, x, q) \/ (Newest(m) /\ x = c /\ q = cmd)
    <3>1. (Owning(m) <=> m.pendingDirty) /\ (Newest(m) <=> m.pendingDirty /\ ~m.postInvalidate)
      BY <1>2 DEF Owning, Newest
    <3>2. Owning(n) <=> Owning(m)
      BY <2>6
    <3>. QED  BY <2>2, <3>1, <3>2 DEF Asks
  <2>8. LineOK(e, n) /\ ~Writable(e)
    <3>1. "R" \notin b.status /\ "W" \notin b.status /\ BlockOK(b)
      BY <1>2 DEF LineOK, BlockOK, Sent
    <3>. QED  BY <2>1, <2>2, <2>4, <3>1 DEF LineOK, Writable
  <2>9. m # NoMSHR /\ n \in MSHRType \cup {NoMSHR} /\ e \in BlockType
    BY <1>2, <2>1, <2>2 DEF Sent
  <2>. QED  BY <1>2, <2>1, <2>4, <2>6, <2>7, <2>8, <2>9
<1>3. CASE ~Sent(m)
  <2>1. /\ n \in MSHRType \cup {NoMSHR} /\ (n = NoMSHR <=> m = NoMSHR)
        /\ n # NoMSHR => ~n.inService /\ MSHROK(n)
                         /\ (ListNeedsExclusive(n.targets) <=> ListNeedsExclusive(m.targets))
    <3>1. CASE m = NoMSHR
      BY <3>1 DEF SnoopedMSHR
    <3>2. CASE m # NoMSHR /\ cmd = "ReadReq"
      BY <1>3, <3>2 DEF SnoopedMSHR, Sent, LineOK
    <3>3. CASE m # NoMSHR /\ cmd # "ReadReq"
      <4>1. /\ m \in MSHRType /\ ~m.inService /\ MSHROK(m)
            /\ n = [m EXCEPT !.targets = ReplaceUpgrades(m.targets), !.deferred = ReplaceUpgrades(m.deferred)]
        BY <1>3, <3>3 DEF SnoopedMSHR, Sent, LineOK
      <4>2. /\ m.targets \in Seq(TargetType) /\ m.deferred \in Seq(TargetType) /\ m.deferred = << >>
            /\ \A i \in 1 .. Len(m.targets) : m.targets[i].source = "cpu"
            /\ \A i \in 1 .. Len(m.deferred) : m.deferred[i].source = "cpu"
            /\ m.targets # << >>
        BY <4>1 DEF MSHROK, MSHRType, Cpu
      <4>3. PICK s : s = ReplaceUpgrades(m.targets)
        OBVIOUS
      <4>4. PICK t : t = ReplaceUpgrades(m.deferred)
        OBVIOUS
      <4>5. /\ s \in Seq(TargetType) /\ Len(s) = Len(m.targets)
            /\ \A i \in 1 .. Len(m.targets) : s[i].source = "cpu"
            /\ ListNeedsExclusive(s) <=> ListNeedsExclusive(m.targets)
        BY <4>2, <4>3, ReplaceFacts
      <4>6. t \in Seq(TargetType) /\ Len(t) = Len(m.deferred)
        BY <4>2, <4>4, ReplaceFacts
      <4>7. /\ n \in MSHRType /\ n.targets = s /\ n.deferred = t /\ ~n.inService
        BY <4>1, <4>3, <4>4, <4>5, <4>6 DEF MSHRType
      <4>8. t = << >> /\ s # << >> /\ Len(s) \in Nat /\ Len(s) > 0
        BY <4>2, <4>5, <4>6
      <4>9. MSHROK(n)
        BY <4>5, <4>7, <4>8 DEF MSHROK, Cpu
      <4>. QED  BY <3>3, <4>5, <4>7, <4>9, NullAssumption
    <3>. QED  BY <3>1, <3>2, <3>3
  <2>2. ~Sent(n)
    BY <2>1 DEF Sent
  <2>3. /\ ~Owning(n) /\ ~Owning(m) /\ ~Newest(n) /\ ~Newest(m) /\ ~Reading(n) /\ ~Reading(m)
        /\ ~Keeping(n) /\ ~Keeping(m) /\ (\A x, q : ~Asks(n, x, q) /\ ~Asks(m, x, q))
    BY <1>3, <2>2 DEF Owning, Newest, Reading, Keeping, Asks
  <2>4. CASE cmd # "ReadReq"
    <3>1. e = NoBlock
      BY <1>3, <2>4 DEF SnoopedBlk
    <3>2. LineOK(e, n)
      BY <1>1, <2>1, <3>1 DEF LineOK, NoBlock
    <3>. QED  BY <1>1, <1>3, <2>1, <2>2, <2>3, <2>4, <3>1, <3>2
  <2>5. CASE cmd = "ReadReq"
    <3>1. e = [b EXCEPT !.status = @ \ {"W"}]
      BY <1>3, <2>5 DEF SnoopedBlk
    <3>2. /\ e \in BlockType /\ e.status = b.status \ {"W"} /\ e.data = b.data /\ e.locks = b.locks
      BY <3>1 DEF BlockType
    <3>3. BlockOK(b)
      BY DEF LineOK
    <3>4. "V" \notin e.status => e = NoBlock
      <4>1. SUFFICES ASSUME "V" \notin b.status PROVE [b EXCEPT !.status = @ \ {"W"}] = b
        BY <3>1, <3>2, <3>3 DEF BlockOK
      <4>. QED  BY <3>3, <4>1 DEF BlockOK, NoBlock
    <3>5. BlockOK(e)
      BY <3>2, <3>3, <3>4 DEF BlockOK
    <3>6. LineOK(e, n)
      BY <1>3, <2>1, <3>2, <3>5 DEF LineOK, Sent
    <3>7. /\ Valid(e) <=> Valid(b)
          /\ Dirty(e) <=> Dirty(b)
          /\ ~Writable(e)
      BY <3>2 DEF Valid, Dirty, Writable
    <3>. QED  BY <1>3, <2>1, <2>2, <2>3, <2>5, <3>2, <3>6, <3>7
  <2>. QED  BY <2>4, <2>5
<1>. QED  BY <1>2, <1>3


LEMMA BlockFacts ==
  ~Valid(NoBlock) /\ ~Dirty(NoBlock) /\ ~Writable(NoBlock)
  BY DEF Valid, Dirty, Writable, NoBlock

-----------------------------------------------------------------------------
(* What the handlers do to the lists of a cache.                           *)

(* An entry is a token with its kind and its address. *)
LEMMA TokenFacts ==
  /\ \A j, k, a, x : Token(j, a) = Token(k, x) <=> j = k /\ a = x
  /\ \A a \in Addrs : /\ Token("miss", a) \in Tokens /\ Token("wb", a) \in Tokens
                      /\ Token("deferred", a) \in Tokens
  /\ \A t \in Tokens : \E k \in {"miss", "wb", "deferred"}, a \in Addrs : t = Token(k, a)
  BY DEF Token, Tokens

(* The lists of a cache are lists of tokens and of addresses. *)
LEMMA ListTypes ==
  ASSUME NEW k \in CacheType
  PROVE  k.unripe \in Seq(Tokens) /\ k.readyMiss \in Seq(Addrs) /\ k.readyWB \in Seq(Addrs)
  BY DEF CacheType, Tokens

-----------------------------------------------------------------------------
(* The order in which a cache sends the writeback of a block and a request *)
(* for it.                                                                 *)

(* u stands before v on list s. *)
Before(s, u, v) == \A i, j \in 1 .. Len(s) : s[i] = u /\ s[j] = v => i < j

(* What the writeback of block x waits for: no access is older, no request *)
(* for the block is in service, and one that waits is behind it.           *)
OrderAt(k, x) ==
  k.wb[x] # NoWB =>
    /\ k.wb[x].older = {} /\ ~Sent(k.mshr[x])
    /\ On(k.unripe, Token("wb", x)) => ~On(k.readyMiss, x)
    /\ Before(k.unripe, Token("wb", x), Token("miss", x))

(* The writeback of block x stands where it stood. *)
OrderKept(kk, k, x) ==
  kk.wb[x] # NoWB =>
    /\ k.wb[x] # NoWB /\ kk.wb[x].older \subseteq k.wb[x].older
    /\ On(kk.unripe, Token("wb", x)) => On(k.unripe, Token("wb", x))
    /\ On(kk.readyMiss, x) => On(k.readyMiss, x)
    /\ Before(k.unripe, Token("wb", x), Token("miss", x)) =>
         Before(kk.unripe, Token("wb", x), Token("miss", x))

(* The writebacks of the blocks other than a stand where they stood. *)
OthersKept(kk, k, a) == \A x \in Addrs : x # a => OrderKept(kk, k, x)

(* A writeback that stands where it stood, of a block no request for which *)
(* has been sent, is still in order.                                       *)
LEMMA KeptOrder ==
  ASSUME NEW k, NEW kk, NEW x, OrderAt(k, x), OrderKept(kk, k, x),
         Sent(kk.mshr[x]) => Sent(k.mshr[x])
  PROVE  OrderAt(kk, x)
BY Zenon DEF OrderAt, OrderKept

(* Two steps make one. *)
LEMMA KeptThrough ==
  ASSUME NEW k, NEW kk, NEW j, NEW x, OrderKept(kk, k, x), OrderKept(k, j, x)
  PROVE  OrderKept(kk, j, x)
BY Zenon DEF OrderKept

(* The lists and the writeback are as they were. *)
LEMMA KeptSame ==
  ASSUME NEW k, NEW kk, NEW x, kk.wb[x] = k.wb[x], kk.unripe = k.unripe, kk.readyMiss = k.readyMiss
  PROVE  OrderKept(kk, k, x)
BY Zenon DEF OrderKept

(* push_back(), pop_front(), erase() and a change of name keep the order. *)
LEMMA BeforeAppend ==
  ASSUME NEW S, NEW s \in Seq(S), NEW e \in S, NEW u, NEW v, Before(s, u, v), e # u
  PROVE  Before(Append(s, e), u, v)
<1>1. PICK t : t = Append(s, e)
  OBVIOUS
<1>2. /\ t \in Seq(S) /\ Len(s) \in Nat /\ Len(t) = Len(s) + 1 /\ t[Len(s) + 1] = e
      /\ \A i \in 1 .. Len(s) : t[i] = s[i]
  BY <1>1, AppendFacts
<1>. SUFFICES ASSUME NEW i \in 1 .. Len(t), NEW j \in 1 .. Len(t), t[i] = u, t[j] = v
              PROVE  i < j
  BY <1>1 DEF Before
<1>3. i \in 1 .. Len(s) /\ s[i] = u
  BY <1>2
<1>4. CASE j \in 1 .. Len(s)
  BY <1>2, <1>3, <1>4 DEF Before
<1>5. CASE j = Len(s) + 1
  BY <1>2, <1>3, <1>5
<1>. QED  BY <1>2, <1>4, <1>5

LEMMA BeforeTail ==
  ASSUME NEW S, NEW s \in Seq(S), s # << >>, NEW u, NEW v, Before(s, u, v)
  PROVE  /\ Before(Tail(s), u, v)
         /\ Head(s) = v => ~On(Tail(s), u)
<1>1. PICK t : t = Tail(s)
  OBVIOUS
<1>2. /\ Len(s) \in Nat /\ Len(t) = Len(s) - 1 /\ s[1] = Head(s) /\ 1 \in 1 .. Len(s)
      /\ \A i \in 1 .. Len(t) : i + 1 \in 1 .. Len(s) /\ t[i] = s[i + 1]
  BY <1>1
<1>3. Before(t, u, v)
  <2>. SUFFICES ASSUME NEW i \in 1 .. Len(t), NEW j \in 1 .. Len(t), t[i] = u, t[j] = v
                PROVE  i < j
    BY DEF Before
  <2>1. i + 1 < j + 1
    BY <1>2 DEF Before
  <2>. QED  BY <1>2, <2>1
<1>4. ASSUME Head(s) = v, NEW i \in 1 .. Len(t), t[i] = u
      PROVE  FALSE
  <2>1. i + 1 < 1
    BY <1>2, <1>4 DEF Before
  <2>. QED  BY <1>2, <2>1
<1>. QED  BY <1>1, <1>3, <1>4 DEF On

LEMMA BeforeRemove ==
  ASSUME NEW S, NEW s \in Seq(S), NEW e, NEW u, NEW v, Before(s, u, v)
  PROVE  Before(RemoveFirst(s, e), u, v)
<1>1. CASE On(s, e)
  <2>1. PICK n \in 1 .. Len(s) : RemoveFirst(s, e) = RemoveAt(s, n) /\ s[n] = e
    <3>. DEFINE I == {i \in 1 .. Len(s) : s[i] = e}
    <3>1. I \subseteq Nat /\ I # {}
      BY <1>1 DEF On
    <3>2. Min(I) \in I
      BY <3>1, MinFacts
    <3>3. RemoveFirst(s, e) = RemoveAt(s, Min(I))
      BY <1>1, <3>1 DEF RemoveFirst, SelectInSeq, On
    <3>. QED  BY <3>2, <3>3
  <2>2. PICK r : r = RemoveAt(s, n)
    OBVIOUS
  <2>3. /\ Len(r) = Len(s) - 1 /\ Len(s) \in Nat
        /\ \A j \in 1 .. n - 1 : r[j] = s[j]
        /\ \A j \in n .. Len(s) - 1 : r[j] = s[j + 1]
    <3>1. /\ RemoveAt(s, n) \in Seq(S) /\ Len(RemoveAt(s, n)) = Len(s) - 1
          /\ \A j \in 1 .. n - 1 : RemoveAt(s, n)[j] = s[j]
          /\ \A j \in n .. Len(s) - 1 : RemoveAt(s, n)[j] = s[j + 1]
      BY RemoveAtFacts, Zenon
    <3>2. Len(s) \in Nat
      OBVIOUS
    <3>. QED  BY <2>2, <3>1, <3>2, Zenon
  <2>4. \A j \in 1 .. Len(r) : r[j] = IF j < n THEN s[j] ELSE s[j + 1]
    BY <2>1, <2>3
  <2>5. ASSUME NEW i \in 1 .. Len(r), NEW j \in 1 .. Len(r), r[i] = u, r[j] = v
        PROVE  i < j
    <3>1. PICK p \in 1 .. Len(s) : s[p] = u /\ p = IF i < n THEN i ELSE i + 1
      BY <2>3, <2>4, <2>5
    <3>2. PICK q \in 1 .. Len(s) : s[q] = v /\ q = IF j < n THEN j ELSE j + 1
      BY <2>3, <2>4, <2>5
    <3>3. p < q
      BY <3>1, <3>2 DEF Before
    <3>. QED  BY <2>3, <3>1, <3>2, <3>3
  <2>. QED  BY <2>1, <2>2, <2>5 DEF Before
<1>2. CASE ~On(s, e)
  BY <1>2 DEF RemoveFirst, On
<1>. QED  BY <1>1, <1>2

LEMMA BeforeRename ==
  ASSUME NEW S, NEW s \in Seq(S), NEW r \in Seq(S), NEW p, NEW q, Len(r) = Len(s),
         \A i \in 1 .. Len(s) : r[i] = IF s[i] = p THEN q ELSE s[i],
         NEW u, NEW v, u # q, v # q, Before(s, u, v)
  PROVE  Before(r, u, v)
BY DEF Before

(* An entry that is not the writeback's comes at the end. *)
LEMMA KeptAppend ==
  ASSUME NEW k \in CacheType, NEW kk, NEW kind \in {"miss", "wb", "deferred"}, NEW a \in Addrs, NEW x,
         kk.unripe = Append(k.unripe, Token(kind, a)), Token(kind, a) # Token("wb", x),
         kk.wb[x] = k.wb[x], kk.readyMiss = k.readyMiss
  PROVE  OrderKept(kk, k, x)
<1>1. PICK u \in Seq(Tokens) : u = k.unripe
  BY ListTypes
<1>2. PICK t \in Tokens : t = Token(kind, a)
  BY TokenFacts
<1>3. PICK p : p = Token("wb", x)
  OBVIOUS
<1>4. t # p
  BY <1>2, <1>3
<1>5. On(Append(u, t), p) => On(u, p)
  BY <1>4, AppendOn
<1>6. \A q : Before(u, p, q) => Before(Append(u, t), p, q)
  BY <1>4, BeforeAppend
<1>. QED  BY <1>1, <1>2, <1>3, <1>5, <1>6, Zenon DEF OrderKept

(* An entry of another block, or another kind, leaves the lists. *)
LEMMA KeptRemove ==
  ASSUME NEW k \in CacheType, NEW kk, NEW e, NEW x,
         kk.unripe = RemoveFirst(k.unripe, e), e # Token("wb", x),
         kk.wb[x] = k.wb[x], On(kk.readyMiss, x) => On(k.readyMiss, x)
  PROVE  OrderKept(kk, k, x)
<1>1. PICK u \in Seq(Tokens) : u = k.unripe
  BY ListTypes
<1>2. PICK p : p = Token("wb", x)
  OBVIOUS
<1>3. e # p
  BY <1>2
<1>4. On(RemoveFirst(u, e), p) => On(u, p)
  BY <1>3, RemoveFirstFacts
<1>5. \A q : Before(u, p, q) => Before(RemoveFirst(u, e), p, q)
  BY BeforeRemove
<1>. QED  BY <1>1, <1>2, <1>4, <1>5, Zenon DEF OrderKept

-----------------------------------------------------------------------------
(* The lists and what waits on them.                                       *)

(* A request or a writeback is allocated. *)
LEMMA ListAllocate ==
  ASSUME NEW u \in Seq(Tokens), NEW s \in Seq(Addrs), NEW kind \in {"miss", "wb", "deferred"},
         NEW a \in Addrs, NEW j \in {"miss", "wb"}, NEW x \in Addrs, NEW waits, NEW now,
         ListOK(u, s, j, x, waits), Token(j, x) = Token(kind, a) => ~waits /\ now,
         Token(j, x) # Token(kind, a) => (now <=> waits)
  PROVE  ListOK(Append(u, Token(kind, a)), s, j, x, now)
<1>1. Token(kind, a) \in Tokens
  BY TokenFacts
<1>2. PICK v : v = Append(u, Token(kind, a))
  OBVIOUS
<1>3. PICK t : t = Token(kind, a)
  OBVIOUS
<1>4. /\ \A y : y # t => (On(v, y) <=> On(u, y)) /\ (Once(v, y) <=> Once(u, y))
      /\ On(v, t) /\ (~On(u, t) => Once(v, t))
  <2>1. t \in Tokens /\ v = Append(u, t)
    BY <1>1, <1>2, <1>3
  <2>2. /\ \A y : y # t => (On(Append(u, t), y) <=> On(u, y)) /\ (Once(Append(u, t), y) <=> Once(u, y))
        /\ On(Append(u, t), t) /\ (~On(u, t) => Once(Append(u, t), t))
    BY <2>1, AppendOn, Zenon
  <2>. QED  BY <2>1, <2>2, Zenon
<1>. HIDE <1>2
<1>5. CASE Token(j, x) = t
  BY <1>2, <1>3, <1>4, <1>5 DEF ListOK
<1>6. CASE Token(j, x) # t
  BY <1>2, <1>3, <1>4, <1>6 DEF ListOK
<1>. QED  BY <1>5, <1>6

(* A request or a writeback is sent, or dropped. *)
LEMMA ListRelease ==
  ASSUME NEW u \in Seq(Tokens), NEW s \in Seq(Addrs), NEW kind \in {"miss", "wb", "deferred"},
         NEW a \in Addrs, NEW j \in {"miss", "wb"}, NEW x \in Addrs, NEW waits, NEW now,
         ListOK(u, s, j, x, waits), Token(j, x) = Token(kind, a) => ~now,
         Token(j, x) # Token(kind, a) => (now <=> waits)
  PROVE  ListOK(RemoveFirst(u, Token(kind, a)), IF j = kind THEN RemoveFirst(s, a) ELSE s, j, x, now)
<1>1. PICK v : v = RemoveFirst(u, Token(kind, a))
  OBVIOUS
<1>2. PICK r : r = IF j = kind THEN RemoveFirst(s, a) ELSE s
  OBVIOUS
<1>3. PICK t : t = Token(kind, a)
  OBVIOUS
<1>4. /\ \A y : Once(u, y) => Once(v, y)
      /\ \A y : y # t => (On(v, y) <=> On(u, y))
      /\ Once(u, t) => ~On(v, t)
  BY <1>1, <1>3, RemoveFirstFacts
<1>5. /\ \A y : Once(s, y) => Once(r, y)
      /\ \A y : y # a \/ j # kind => (On(r, y) <=> On(s, y))
      /\ Once(s, a) /\ j = kind => ~On(r, a)
  BY <1>2, RemoveFirstFacts
<1>. HIDE <1>1, <1>2
<1>6. CASE Token(j, x) = t
  <2>1. j = kind /\ x = a
    BY <1>3, <1>6, TokenFacts
  <2>. QED  BY <1>1, <1>2, <1>3, <1>4, <1>5, <1>6, <2>1 DEF ListOK
<1>7. CASE Token(j, x) # t
  <2>1. x # a \/ j # kind
    BY <1>3, <1>7
  <2>. QED  BY <1>1, <1>2, <1>3, <1>4, <1>5, <1>7, <2>1 DEF ListOK
<1>. QED  BY <1>6, <1>7

(* The first of the entries that must wait may be sent. *)
LEMMA ListRipen ==
  ASSUME NEW u \in Seq(Tokens), u # << >>, NEW s \in Seq(Addrs),
         NEW kind \in {"miss", "wb", "deferred"}, NEW a \in Addrs, Head(u) = Token(kind, a),
         NEW j \in {"miss", "wb"}, NEW x \in Addrs, NEW waits, ListOK(u, s, j, x, waits)
  PROVE  ListOK(Tail(u), IF j = kind THEN Append(s, a) ELSE s, j, x, waits)
<1>1. PICK v : v = Tail(u)
  OBVIOUS
<1>2. PICK r : r = IF j = kind THEN Append(s, a) ELSE s
  OBVIOUS
<1>3. PICK t : t = Token(kind, a)
  OBVIOUS
<1>4. /\ \A y : Once(u, y) => Once(v, y)
      /\ \A y : y # t => (On(v, y) <=> On(u, y))
      /\ Once(u, t) => ~On(v, t)
      /\ On(u, t)
  BY <1>1, <1>3, TailOn
<1>5. /\ \A y : y # a \/ j # kind => (On(r, y) <=> On(s, y)) /\ (Once(r, y) <=> Once(s, y))
      /\ j = kind => On(r, a) /\ (~On(s, a) => Once(r, a))
  <2>1. /\ \A y : y # a => (On(Append(s, a), y) <=> On(s, y)) /\ (Once(Append(s, a), y) <=> Once(s, y))
        /\ On(Append(s, a), a) /\ (~On(s, a) => Once(Append(s, a), a))
    BY AppendOn, Zenon
  <2>2. CASE j = kind
    <3>1. r = Append(s, a)
      BY <1>2, <2>2
    <3>. QED  BY <2>1, <2>2, <3>1, Zenon
  <2>3. CASE j # kind
    BY <1>2, <2>3
  <2>. QED  BY <2>2, <2>3
<1>. HIDE <1>1, <1>2
<1>6. CASE Token(j, x) = t
  <2>1. j = kind /\ x = a
    BY <1>3, <1>6, TokenFacts
  <2>. QED  BY <1>1, <1>2, <1>3, <1>4, <1>5, <1>6, <2>1 DEF ListOK
<1>7. CASE Token(j, x) # t
  <2>1. x # a \/ j # kind
    BY <1>3, <1>7
  <2>. QED  BY <1>1, <1>2, <1>3, <1>4, <1>5, <1>7, <2>1 DEF ListOK
<1>. QED  BY <1>6, <1>7

(* TimePasses. *)
LEMMA RipenLocal ==
  ASSUME NEW k \in CacheType, k.unripe # << >>, LocalOK(k)
  PROVE  /\ Ripen(k) \in CacheType /\ LocalOK(Ripen(k))
         /\ Ripen(k).blk = k.blk /\ Ripen(k).mshr = k.mshr /\ Ripen(k).wb = k.wb
<1>1. Head(k.unripe) \in Tokens
  BY ListTypes
<1>2. PICK kind \in {"miss", "wb", "deferred"}, a \in Addrs : Head(k.unripe) = Token(kind, a)
  BY <1>1, TokenFacts
<1>3. PICK kk : kk = Ripen(k)
  OBVIOUS
<1>4. /\ kk \in CacheType
      /\ kk.blk = k.blk /\ kk.mshr = k.mshr /\ kk.wb = k.wb
      /\ kk.lines = k.lines /\ kk.blocked = k.blocked
      /\ kk.noTargetMSHR = k.noTargetMSHR
      /\ kk.writeBuffers = k.writeBuffers
      /\ kk.unripe = Tail(k.unripe)
      /\ kk.readyMiss = IF kind = "miss" THEN Append(k.readyMiss, a) ELSE k.readyMiss
      /\ kk.readyWB = IF kind = "wb" THEN Append(k.readyWB, a) ELSE k.readyWB
  BY <1>2, <1>3, RipenFacts
<1>5. CauseOK(kk)
  BY <1>4, CauseKept DEF LocalOK
<1>6. ValidIn(kk) = ValidIn(k)
  BY <1>4 DEF ValidIn
<1>7. LinesOK(kk)
  BY <1>4, <1>6 DEF LinesOK, LocalOK
<1>8. ASSUME NEW x \in Addrs PROVE QueueOK(kk, x)
  <2>1. QueueOK(k, x)
    BY DEF LocalOK
  <2>2. Pending(kk, x) <=> Pending(k, x)
    BY <1>4 DEF Pending
  <2>3. ListOK(kk.unripe, kk.readyMiss, "miss", x, Pending(k, x))
    BY <1>2, <1>4, <2>1, ListTypes, ListRipen DEF QueueOK
  <2>4. ListOK(kk.unripe, kk.readyWB, "wb", x, k.wb[x] # NoWB)
    BY <1>2, <1>4, <2>1, ListTypes, ListRipen DEF QueueOK
  <2>5. /\ Once(kk.unripe, Token("deferred", x))
        /\ On(kk.unripe, Token("deferred", x)) => On(k.unripe, Token("deferred", x))
    BY <1>4, <2>1, ListTypes, TailOn DEF QueueOK
  <2>. QED  BY <1>4, <2>1, <2>2, <2>3, <2>4, <2>5 DEF QueueOK, ListOK
<1>. QED  BY <1>3, <1>4, <1>5, <1>7, <1>8 DEF LocalOK

(* A cache with other lists, where no writeback and no count changes.      *)
LEMMA LocalKept ==
  ASSUME NEW k \in CacheType, NEW kk \in CacheType, LocalOK(k),
         kk.writeBuffers = k.writeBuffers, kk.blocked = k.blocked, kk.lines = k.lines,
         kk.noTargetMSHR = k.noTargetMSHR,
         \A x \in Addrs : /\ k.mshr[x] # NoMSHR => kk.mshr[x] # NoMSHR
                          /\ k.wb[x] # NoWB => kk.wb[x] # NoWB
                          /\ Valid(kk.blk[x]) <=> Valid(k.blk[x])
  PROVE  CauseOK(kk) /\ LinesOK(kk)
<1>1. CauseOK(kk)
  BY CauseKept DEF LocalOK
<1>2. ValidIn(kk) = ValidIn(k)
  BY DEF ValidIn, Valid
<1>. QED  BY <1>1, <1>2 DEF LinesOK, LocalOK

(* MSHR::markInService(). *)
LEMMA MarkLocal ==
  ASSUME NEW k \in CacheType, LocalOK(k), NEW a \in Addrs, Pending(k, a),
         NEW shared \in BOOLEAN, NEW inhibit \in BOOLEAN,
         ~shared /\ inhibit => ListNeedsExclusive(k.mshr[a].targets)
  PROVE  LET kk == MarkInService(k, a, shared, inhibit) IN
         /\ kk \in CacheType /\ LocalOK(kk)
         /\ kk.blk = k.blk /\ kk.wb = k.wb
         /\ \A x \in Addrs : x # a => kk.mshr[x] = k.mshr[x]
         /\ kk.mshr[a].targets = k.mshr[a].targets /\ kk.mshr[a].deferred = k.mshr[a].deferred
         /\ Sent(kk.mshr[a]) /\ ~kk.mshr[a].postInvalidate
         /\ Owning(kk.mshr[a]) <=> ListNeedsExclusive(k.mshr[a].targets)
         /\ \A x, q : ~Asks(kk.mshr[a], x, q)
<1>1. PICK m : m = k.mshr[a]
  OBVIOUS
<1>2. /\ m \in MSHRType /\ m # NoMSHR /\ ~m.inService /\ MSHROK(m) /\ LineOK(k.blk[a], m)
      /\ "R" \notin k.blk[a].status
  BY <1>1 DEF Pending, CacheType, LocalOK, LineOK
<1>3. PICK p : p = (ListNeedsExclusive(m.targets) \/ (~shared /\ inhibit))
  OBVIOUS
<1>4. p \in BOOLEAN /\ (p <=> ListNeedsExclusive(m.targets))
  BY <1>1, <1>3
<1>5. PICK n : n = [m EXCEPT !.inService = TRUE, !.pendingDirty = p,
                             !.postInvalidate = FALSE, !.postDowngrade = FALSE]
  OBVIOUS
<1>6. /\ n \in MSHRType /\ n.inService /\ n.pendingDirty = p /\ ~n.postInvalidate
      /\ n.targets = m.targets /\ n.deferred = m.deferred
  BY <1>2, <1>4, <1>5 DEF MSHRType
<1>7. PICK s : s = Unqueue(k, "miss", a)
  OBVIOUS
<1>8. /\ s \in CacheType
      /\ s.blk = k.blk /\ s.mshr = k.mshr /\ s.wb = k.wb /\ s.lines = k.lines
      /\ s.blocked = k.blocked /\ s.noTargetMSHR = k.noTargetMSHR
      /\ s.writeBuffers = k.writeBuffers
      /\ s.unripe = RemoveFirst(k.unripe, Token("miss", a))
      /\ s.readyMiss = RemoveFirst(k.readyMiss, a)
      /\ s.readyWB = k.readyWB
  BY <1>7, UnqueueFacts
<1>9. PICK kk : kk = [s EXCEPT !.mshr[a] = n]
  OBVIOUS
<1>10. kk = MarkInService(k, a, shared, inhibit)
  <2>1. s.mshr[a] = m
    BY <1>1, <1>8
  <2>2. [s EXCEPT !.mshr[a].inService = TRUE,
               !.mshr[a].pendingDirty = p,
               !.mshr[a].postInvalidate = FALSE,
               !.mshr[a].postDowngrade = FALSE] = [s EXCEPT !.mshr[a] = n]
    <3>1. PICK yes, no : yes = TRUE /\ no = FALSE
      OBVIOUS
    <3>2. n = [m EXCEPT !.inService = yes, !.pendingDirty = p,
                        !.postInvalidate = no, !.postDowngrade = no]
      BY <1>5, <3>1
    <3>3. s.mshr \in [Addrs -> MSHRType \cup {NoMSHR}]
      BY <1>8 DEF CacheType
    <3>4. [s.mshr EXCEPT ![a].inService = yes, ![a].pendingDirty = p,
                         ![a].postInvalidate = no, ![a].postDowngrade = no]
            = [s.mshr EXCEPT ![a] = n]
      BY <2>1, <3>2, <3>3
    <3>5. [s EXCEPT !.mshr[a].inService = yes, !.mshr[a].pendingDirty = p,
                    !.mshr[a].postInvalidate = no, !.mshr[a].postDowngrade = no]
            = [s EXCEPT !.mshr = [s.mshr EXCEPT ![a].inService = yes, ![a].pendingDirty = p,
                                                ![a].postInvalidate = no, ![a].postDowngrade = no]]
      BY <1>8 DEF CacheType
    <3>6. [s EXCEPT !.mshr[a] = n] = [s EXCEPT !.mshr = [s.mshr EXCEPT ![a] = n]]
      BY <1>8 DEF CacheType
    <3>. QED  BY <3>1, <3>4, <3>5, <3>6
  <2>. QED  BY <1>1, <1>3, <1>7, <1>9, <2>2 DEF MarkInService
<1>11. /\ kk \in CacheType
       /\ kk.blk = k.blk /\ kk.mshr = [k.mshr EXCEPT ![a] = n] /\ kk.wb = k.wb
       /\ kk.lines = k.lines /\ kk.blocked = k.blocked /\ kk.noTargetMSHR = k.noTargetMSHR
       /\ kk.writeBuffers = k.writeBuffers
       /\ kk.unripe = s.unripe /\ kk.readyMiss = s.readyMiss /\ kk.readyWB = s.readyWB
  BY <1>6, <1>8, <1>9 DEF CacheType
<1>12. kk.mshr[a] = n /\ \A x \in Addrs : x # a => kk.mshr[x] = k.mshr[x]
  BY <1>11 DEF CacheType
<1>13. n # NoMSHR /\ Sent(n) /\ (Owning(n) <=> p)
  BY <1>6, NullAssumption DEF Sent, Owning
<1>14. m.targets \in Seq(TargetType) /\ m.deferred = << >> /\ \A i \in 1 .. Len(m.targets) : Cpu(m.targets[i])
  BY <1>2 DEF MSHROK, MSHRType
<1>15. MSHROK(n)
  <2>1. \A i \in 1 .. Len(m.targets) : Exclusive(m.targets[i]) => p
    BY <1>4, <1>14 DEF ListNeedsExclusive, Exclusive, Cpu
  <2>2. \A i \in 1 .. Len(n.targets) : TargetOK(n, i)
    BY <1>6, <1>14, <2>1 DEF TargetOK
  <2>3. SentOK(n)
    BY <1>4, <1>6, <1>14, <2>2 DEF SentOK
  <2>. QED  BY <1>2, <1>6, <1>14, <2>3 DEF MSHROK
<1>16. LineOK(kk.blk[a], n)
  BY <1>2, <1>6, <1>11, <1>13, <1>15 DEF LineOK
<1>17. \A x, q : ~Asks(n, x, q)
  <2>1. \A x, q : FromSnoop(x, q).source = "snoop"
    BY DEF FromSnoop
  <2>. QED  BY <1>6, <1>14, <2>1 DEF Asks, On, Cpu
<1>18. CauseOK(kk) /\ LinesOK(kk)
  BY <1>11, <1>12, <1>13, LocalKept
<1>19. ASSUME NEW x \in Addrs PROVE LineOK(kk.blk[x], kk.mshr[x]) /\ QueueOK(kk, x)
  <2>1. QueueOK(k, x) /\ LineOK(k.blk[x], k.mshr[x])
    BY DEF LocalOK
  <2>2. Token("miss", x) = Token("miss", a) <=> x = a
    BY TokenFacts
  <2>3. (x = a => ~Pending(kk, x)) /\ (x # a => (Pending(kk, x) <=> Pending(k, x)))
    BY <1>6, <1>12 DEF Pending
  <2>4. ListOK(kk.unripe, kk.readyMiss, "miss", x, Pending(kk, x))
    BY <1>8, <1>11, <2>1, <2>2, <2>3, ListTypes, ListRelease DEF QueueOK
  <2>5. ListOK(kk.unripe, kk.readyWB, "wb", x, k.wb[x] # NoWB)
    <3>1. Token("wb", x) # Token("miss", a)
      BY TokenFacts
    <3>. QED  BY <1>8, <1>11, <2>1, <3>1, ListTypes, ListRelease DEF QueueOK
  <2>6. /\ Once(kk.unripe, Token("deferred", x))
        /\ On(kk.unripe, Token("deferred", x)) <=> On(k.unripe, Token("deferred", x))
    <3>1. Token("deferred", x) # Token("miss", a)
      BY TokenFacts
    <3>. QED  BY <1>8, <1>11, <2>1, <3>1, ListTypes, RemoveFirstFacts DEF QueueOK
  <2>7. k.mshr[x] # NoMSHR => kk.mshr[x] # NoMSHR /\ kk.mshr[x].deferred = k.mshr[x].deferred
    BY <1>1, <1>6, <1>12, <1>13
  <2>8. QueueOK(kk, x)
    BY <1>11, <2>1, <2>4, <2>5, <2>6, <2>7 DEF QueueOK
  <2>. QED  BY <1>11, <1>12, <1>16, <2>1, <2>8
<1>20. LocalOK(kk)
  BY <1>18, <1>19 DEF LocalOK
<1>. QED  BY <1>1, <1>4, <1>6, <1>10, <1>11, <1>12, <1>13, <1>17, <1>20

(* markInService() of a writeback, or one that a snoop drops. *)
LEMMA ReleaseLocal ==
  ASSUME NEW k \in CacheType, LocalOK(k), NEW a \in Addrs
  PROVE  LET kk == ReleaseWriteBuffer(k, a) IN
         /\ kk \in CacheType /\ LocalOK(kk)
         /\ kk.blk = k.blk /\ kk.mshr = k.mshr /\ kk.wb = [k.wb EXCEPT ![a] = NoWB]
         /\ kk.lines = k.lines
<1>1. PICK kk : kk = ReleaseWriteBuffer(k, a)
  OBVIOUS
<1>2. /\ kk \in CacheType
      /\ kk.blk = k.blk /\ kk.mshr = k.mshr /\ kk.wb = [k.wb EXCEPT ![a] = NoWB]
      /\ kk.lines = k.lines /\ kk.noTargetMSHR = k.noTargetMSHR
      /\ kk.unripe = RemoveFirst(k.unripe, Token("wb", a))
      /\ kk.readyMiss = k.readyMiss
      /\ kk.readyWB = RemoveFirst(k.readyWB, a)
      /\ CauseOK(kk)
  BY <1>1, ReleaseFacts DEF LocalOK
<1>3. ValidIn(kk) = ValidIn(k)
  BY <1>2 DEF ValidIn
<1>4. LinesOK(kk)
  BY <1>2, <1>3 DEF LinesOK, LocalOK
<1>5. ASSUME NEW x \in Addrs PROVE LineOK(kk.blk[x], kk.mshr[x]) /\ QueueOK(kk, x)
  <2>1. QueueOK(k, x) /\ LineOK(k.blk[x], k.mshr[x])
    BY DEF LocalOK
  <2>2. Token("wb", x) = Token("wb", a) <=> x = a
    BY TokenFacts
  <2>3. Pending(kk, x) <=> Pending(k, x)
    BY <1>2 DEF Pending
  <2>4. (x = a => kk.wb[x] = NoWB) /\ (x # a => kk.wb[x] = k.wb[x])
    BY <1>2 DEF CacheType
  <2>5. ListOK(kk.unripe, kk.readyMiss, "miss", x, Pending(kk, x))
    <3>1. Token("miss", x) # Token("wb", a)
      BY TokenFacts
    <3>. QED  BY <1>2, <2>1, <2>3, <3>1, ListTypes, ListRelease DEF QueueOK
  <2>6. ListOK(kk.unripe, kk.readyWB, "wb", x, kk.wb[x] # NoWB)
    <3>1. PICK waits : waits = (k.wb[x] # NoWB)
      OBVIOUS
    <3>2. PICK now : now = (kk.wb[x] # NoWB)
      OBVIOUS
    <3>3. ListOK(k.unripe, k.readyWB, "wb", x, waits)
      BY <2>1, <3>1 DEF QueueOK
    <3>4. /\ Token("wb", x) = Token("wb", a) => ~now
          /\ Token("wb", x) # Token("wb", a) => (now <=> waits)
      BY <2>2, <2>4, <3>1, <3>2
    <3>5. ListOK(RemoveFirst(k.unripe, Token("wb", a)), RemoveFirst(k.readyWB, a), "wb", x, now)
      BY <3>3, <3>4, ListTypes, ListRelease
    <3>. QED  BY <1>2, <3>2, <3>5
  <2>7. /\ Once(kk.unripe, Token("deferred", x))
        /\ On(kk.unripe, Token("deferred", x)) <=> On(k.unripe, Token("deferred", x))
    <3>1. Token("deferred", x) # Token("wb", a)
      BY TokenFacts
    <3>. QED  BY <1>2, <2>1, <3>1, ListTypes, RemoveFirstFacts DEF QueueOK
  <2>8. QueueOK(kk, x)
    BY <1>2, <2>1, <2>5, <2>6, <2>7 DEF QueueOK
  <2>. QED  BY <1>2, <2>1, <2>8
<1>6. LocalOK(kk)
  BY <1>2, <1>4, <1>5 DEF LocalOK
<1>. QED  BY <1>1, <1>2, <1>6

(* MSHR::allocateTarget(), the target itself. *)
LateCmd(m, cmd) == IF m.postInvalidate THEN ReplaceUpgrade(cmd) ELSE cmd

AddTarget(m, o, cmd, req) ==
  IF MustDefer(m, cmd)
  THEN [m EXCEPT !.deferred = Append(@, FromCPU(o, LateCmd(m, cmd), req))]
  ELSE [m EXCEPT !.targets = Append(@, FromCPU(o, cmd, req))]

(* A further target of an MSHR.  A write joins a request in service only   *)
(* before any snoop.                                                       *)
LEMMA AddTargetLine ==
  ASSUME NEW b \in BlockType, NEW m \in MSHRType, LineOK(b, m), NEW o \in Ops,
         NEW cmd \in CpuCommands, NEW req \in Requests, NEW n, n = AddTarget(m, o, cmd, req)
  PROVE  /\ n \in MSHRType /\ LineOK(b, n)
         /\ n.inService = m.inService /\ n.pendingDirty = m.pendingDirty
         /\ n.postInvalidate = m.postInvalidate /\ n.postDowngrade = m.postDowngrade
         /\ \A x \in Caches, q \in BusCommands :
              On(n.targets, FromSnoop(x, q)) <=> On(m.targets, FromSnoop(x, q))
         /\ IF MustDefer(m, cmd)
            THEN /\ n.targets = m.targets
                 /\ n.deferred = Append(m.deferred, FromCPU(o, LateCmd(m, cmd), req))
            ELSE /\ n.targets = Append(m.targets, FromCPU(o, cmd, req))
                 /\ n.deferred = m.deferred
<1>1. /\ m.targets \in Seq(TargetType) /\ m.deferred \in Seq(TargetType)
      /\ m.inService \in BOOLEAN /\ m.postInvalidate \in BOOLEAN /\ m.pendingDirty \in BOOLEAN
      /\ m.postDowngrade \in BOOLEAN /\ m # NoMSHR
  BY NullAssumption DEF MSHRType
<1>2. /\ MSHROK(m) /\ BlockOK(b) /\ "R" \notin b.status
      /\ ~m.inService /\ "V" \in b.status => ListNeedsExclusive(m.targets)
  BY <1>1 DEF LineOK
<1>3. CASE MustDefer(m, cmd)
  <2>1. PICK t : t = FromCPU(o, LateCmd(m, cmd), req)
    OBVIOUS
  <2>2. LateCmd(m, cmd) \in CpuCommands \cup {"StoreCondFailReq"} /\ (NeedsExclusive(LateCmd(m, cmd)) <=> NeedsExclusive(cmd))
    BY DEF LateCmd, ReplaceUpgrade, NeedsExclusive
  <2>3. t \in TargetType /\ Cpu(t) /\ (Exclusive(t) <=> NeedsExclusive(cmd))
    BY <2>1, <2>2, TargetFacts DEF Cpu, Exclusive
  <2>4. n = [m EXCEPT !.deferred = Append(@, t)]
    BY <1>3, <2>1 DEF AddTarget
  <2>5. PICK s : s = Append(m.deferred, t)
    OBVIOUS
  <2>6. /\ s \in Seq(TargetType) /\ s # << >> /\ Len(s) = Len(m.deferred) + 1 /\ Len(m.deferred) \in Nat
        /\ s[Len(m.deferred) + 1] = t /\ \A i \in 1 .. Len(m.deferred) : s[i] = m.deferred[i]
        /\ ListNeedsExclusive(s) <=> ListNeedsExclusive(m.deferred) \/ Exclusive(t)
    BY <1>1, <2>3, <2>5, AppendTarget
  <2>7. /\ n \in MSHRType /\ n.targets = m.targets /\ n.deferred = s
        /\ n.inService = m.inService /\ n.pendingDirty = m.pendingDirty
        /\ n.postInvalidate = m.postInvalidate /\ n.postDowngrade = m.postDowngrade
    BY <2>4, <2>5, <2>6 DEF MSHRType
  <2>8. m.inService /\ SentOK(m) /\ m.targets # << >> /\ Cpu(m.targets[1])
        /\ \A i \in 1 .. Len(m.deferred) : Cpu(m.deferred[i])
    BY <1>2, <1>3 DEF MSHROK, MustDefer
  <2>9. \A i \in 1 .. Len(s) : Cpu(s[i])
    <3>1. \A i \in 1 .. Len(s) : i \in 1 .. Len(m.deferred) \/ i = Len(m.deferred) + 1
      BY <2>6
    <3>. QED  BY <2>3, <2>6, <2>8, <3>1
  <2>10. \A i \in 1 .. Len(n.targets) : TargetOK(n, i)
    BY <2>7, <2>8 DEF SentOK, TargetOK
  <2>11. /\ n.pendingDirty => n.postInvalidate \/ n.postDowngrade
         /\ n.postInvalidate \/ ListNeedsExclusive(n.deferred)
    BY <1>3, <2>3, <2>6, <2>7, <2>8 DEF MustDefer, SentOK
  <2>12. SentOK(n)
    BY <2>7, <2>8, <2>10, <2>11 DEF SentOK
  <2>13. MSHROK(n)
    BY <2>7, <2>8, <2>9, <2>12 DEF MSHROK
  <2>14. LineOK(b, n)
    BY <1>2, <2>7, <2>8, <2>13, NullAssumption DEF LineOK
  <2>. QED  BY <1>3, <2>1, <2>5, <2>7, <2>14
<1>4. CASE ~MustDefer(m, cmd)
  <2>1. PICK t : t = FromCPU(o, cmd, req)
    OBVIOUS
  <2>2. /\ t \in TargetType /\ Cpu(t) /\ (Exclusive(t) <=> NeedsExclusive(cmd))
        /\ \A x \in Caches, q \in BusCommands : FromSnoop(x, q) # t
    BY <2>1, TargetFacts DEF Cpu, Exclusive
  <2>3. n = [m EXCEPT !.targets = Append(@, t)]
    BY <1>4, <2>1 DEF AddTarget
  <2>4. PICK s : s = Append(m.targets, t)
    OBVIOUS
  <2>5. PICK l : l = Len(m.targets)
    OBVIOUS
  <2>6. /\ s \in Seq(TargetType) /\ s # << >> /\ Len(s) = l + 1 /\ l \in Nat
        /\ s[l + 1] = t /\ \A i \in 1 .. l : s[i] = m.targets[i]
        /\ ListNeedsExclusive(s) <=> ListNeedsExclusive(m.targets) \/ Exclusive(t)
    BY <1>1, <2>2, <2>4, <2>5, AppendTarget
  <2>7. /\ n \in MSHRType /\ n.targets = s /\ n.deferred = m.deferred
        /\ n.inService = m.inService /\ n.pendingDirty = m.pendingDirty
        /\ n.postInvalidate = m.postInvalidate /\ n.postDowngrade = m.postDowngrade
    BY <2>3, <2>4, <2>6 DEF MSHRType
  <2>8. m.targets # << >> /\ Cpu(m.targets[1]) /\ \A i \in 1 .. Len(m.deferred) : Cpu(m.deferred[i])
    BY <1>2 DEF MSHROK
  <2>9. l > 0 /\ \A i \in 1 .. l + 1 : i \in 1 .. l \/ i = l + 1
    BY <1>1, <2>5, <2>6, <2>8
  <2>10. s # << >> /\ Cpu(s[1])
    BY <2>6, <2>8, <2>9
  <2>11. ASSUME ~m.inService PROVE LineOK(b, n)
    <3>1. \A i \in 1 .. l + 1 : Cpu(s[i])
      BY <1>2, <2>2, <2>5, <2>6, <2>9, <2>11 DEF MSHROK
    <3>2. MSHROK(n)
      BY <1>2, <2>6, <2>7, <2>10, <2>11, <3>1 DEF MSHROK
    <3>. QED  BY <1>2, <2>6, <2>7, <2>11, <3>2, NullAssumption DEF LineOK
  <2>12. ASSUME m.inService PROVE LineOK(b, n)
    <3>1. /\ SentOK(m) /\ m.deferred = << >> /\ ~m.postInvalidate
          /\ NeedsExclusive(cmd) => m.pendingDirty /\ ~m.postDowngrade
      BY <1>2, <1>4, <2>12 DEF MustDefer, MSHROK
    <3>2. ASSUME NEW i \in 1 .. l PROVE TargetOK(n, i)
      <4>0. \A j \in 1 .. i - 1 : j \in 1 .. l
        BY <2>6
      <4>1. TargetOK(m, i) /\ n.targets[i] = m.targets[i] /\ \A j \in 1 .. i - 1 : n.targets[j] = m.targets[j]
        BY <2>5, <2>6, <2>7, <3>1, <4>0, Zenon DEF SentOK
      <4>. QED  BY <2>7, <3>1, <4>1 DEF TargetOK
    <3>3. TargetOK(n, l + 1)
      <4>1. n.targets[l + 1] = t
        BY <2>6, <2>7
      <4>2. NeedsExclusive(cmd) => \A j \in 1 .. l : Cpu(n.targets[j])
        BY <2>7, <3>1, <3>2 DEF TargetOK
      <4>3. 1 .. (l + 1) - 1 = 1 .. l
        BY <2>6
      <4>. QED  BY <2>2, <2>7, <3>1, <4>1, <4>2, <4>3 DEF TargetOK
    <3>4. \A i \in 1 .. Len(n.targets) : TargetOK(n, i)
      BY <2>6, <2>7, <2>9, <3>2, <3>3
    <3>5. SentOK(n)
      BY <2>6, <2>7, <3>1, <3>4 DEF SentOK
    <3>6. MSHROK(n)
      BY <2>7, <2>8, <2>10, <2>12, <3>5 DEF MSHROK
    <3>. QED  BY <1>2, <2>7, <2>12, <3>6, NullAssumption DEF LineOK
  <2>13. \A x \in Caches, q \in BusCommands :
              On(n.targets, FromSnoop(x, q)) <=> On(m.targets, FromSnoop(x, q))
    <3>1. \A i : i \in 1 .. l + 1 <=> i \in 1 .. l \/ i = l + 1
      BY <2>6
    <3>2. Grown(n.targets, m.targets, l, t)
      BY <2>5, <2>6, <2>7, <3>1, Zenon DEF Grown
    <3>3. \A y : On(n.targets, y) <=> On(m.targets, y) \/ y = t
      BY <3>2, GrownOn, Zenon
    <3>. QED  BY <2>2, <3>3, Zenon
  <2>. QED  BY <1>4, <2>1, <2>4, <2>7, <2>11, <2>12, <2>13, <1>1
<1>. QED  BY <1>3, <1>4

(* The lists stay. *)
LEMMA QueueSame ==
  ASSUME NEW k \in CacheType, NEW kk \in CacheType, NEW x \in Addrs, QueueOK(k, x),
         kk.unripe = k.unripe, kk.readyMiss = k.readyMiss, kk.readyWB = k.readyWB,
         Pending(kk, x) <=> Pending(k, x),
         kk.wb[x] # NoWB <=> k.wb[x] # NoWB,
         k.mshr[x] # NoMSHR /\ k.mshr[x].deferred # << >> =>
           kk.mshr[x] # NoMSHR /\ kk.mshr[x].deferred # << >>
  PROVE  QueueOK(kk, x)
BY DEF QueueOK, ListOK

(* An entry is added at the end of the list in the order of time. *)
LEMMA QueueAdd ==
  ASSUME NEW k \in CacheType, NEW kk \in CacheType, NEW x \in Addrs, QueueOK(k, x),
         NEW kind \in {"miss", "wb", "deferred"}, NEW a \in Addrs,
         kk.unripe = Append(k.unripe, Token(kind, a)),
         kk.readyMiss = k.readyMiss, kk.readyWB = k.readyWB,
         kind = "miss" /\ x = a => ~Pending(k, x) /\ Pending(kk, x),
         ~(kind = "miss" /\ x = a) => (Pending(kk, x) <=> Pending(k, x)),
         kind = "wb" /\ x = a => k.wb[x] = NoWB /\ kk.wb[x] # NoWB,
         ~(kind = "wb" /\ x = a) => (kk.wb[x] # NoWB <=> k.wb[x] # NoWB),
         kind = "deferred" /\ x = a => /\ ~On(k.unripe, Token("deferred", x))
                                       /\ kk.mshr[x] # NoMSHR /\ kk.mshr[x].deferred # << >>,
         k.mshr[x] # NoMSHR /\ k.mshr[x].deferred # << >> =>
           kk.mshr[x] # NoMSHR /\ kk.mshr[x].deferred # << >>
  PROVE  QueueOK(kk, x)
<1>1. /\ Token("miss", x) = Token(kind, a) <=> kind = "miss" /\ x = a
      /\ Token("wb", x) = Token(kind, a) <=> kind = "wb" /\ x = a
      /\ Token("deferred", x) = Token(kind, a) <=> kind = "deferred" /\ x = a
  BY TokenFacts
<1>2. PICK p : p = Pending(k, x)
  OBVIOUS
<1>3. PICK pp : pp = Pending(kk, x)
  OBVIOUS
<1>4. PICK w : w = (k.wb[x] # NoWB)
  OBVIOUS
<1>5. PICK ww : ww = (kk.wb[x] # NoWB)
  OBVIOUS
<1>6. /\ ListOK(k.unripe, k.readyMiss, "miss", x, p)
      /\ ListOK(k.unripe, k.readyWB, "wb", x, w)
      /\ Once(k.unripe, Token("deferred", x))
      /\ On(k.unripe, Token("deferred", x)) => k.mshr[x] # NoMSHR /\ k.mshr[x].deferred # << >>
  BY <1>2, <1>4 DEF QueueOK
<1>7. ListOK(kk.unripe, kk.readyMiss, "miss", x, pp)
  <2>1. /\ Token("miss", x) = Token(kind, a) => ~p /\ pp
        /\ Token("miss", x) # Token(kind, a) => (pp <=> p)
    BY <1>1, <1>2, <1>3
  <2>. QED  BY <1>6, <2>1, ListTypes, ListAllocate
<1>8. ListOK(kk.unripe, kk.readyWB, "wb", x, ww)
  <2>1. /\ Token("wb", x) = Token(kind, a) => ~w /\ ww
        /\ Token("wb", x) # Token(kind, a) => (ww <=> w)
    BY <1>1, <1>4, <1>5
  <2>. QED  BY <1>6, <2>1, ListTypes, ListAllocate
<1>9. /\ Once(kk.unripe, Token("deferred", x))
      /\ On(kk.unripe, Token("deferred", x)) => kk.mshr[x] # NoMSHR /\ kk.mshr[x].deferred # << >>
  <2>1. PICK u : u = k.unripe
    OBVIOUS
  <2>2. PICK t \in Tokens : t = Token(kind, a)
    BY TokenFacts
  <2>3. u \in Seq(Tokens) /\ kk.unripe = Append(u, t)
    BY <2>1, <2>2, ListTypes
  <2>4. /\ \A y : y # t => (On(Append(u, t), y) <=> On(u, y)) /\ (Once(Append(u, t), y) <=> Once(u, y))
        /\ On(Append(u, t), t)
        /\ ~On(u, t) => Once(Append(u, t), t)
    BY <2>3, AppendOn
  <2>. QED  BY <1>1, <1>6, <2>1, <2>2, <2>3, <2>4, Zenon
<1>. QED  BY <1>3, <1>5, <1>7, <1>8, <1>9 DEF QueueOK

(* The processor is shut out for one more cause. *)
LEMMA CauseAdded ==
  ASSUME NEW k \in CacheType, NEW kk \in CacheType, CauseOK(k), NEW cause,
         kk.writeBuffers = k.writeBuffers, kk.blocked = k.blocked \cup {cause},
         kk.mshr = k.mshr, kk.wb = k.wb,
         kk.noTargetMSHR # k.noTargetMSHR => cause = "NoTargets",
         cause = "NoMSHRs" => MSHRsFull(k),
         cause = "NoWBBuffers" => WBFull(k),
         cause = "NoTargets" => kk.noTargetMSHR # NoMSHR /\ k.mshr[kk.noTargetMSHR] # NoMSHR
  PROVE  CauseOK(kk)
<1>1. (MSHRsFull(kk) <=> MSHRsFull(k)) /\ (WBFull(kk) <=> WBFull(k))
  BY DEF MSHRsFull, WBFull, Allocated, Buffered
<1>. QED  BY <1>1 DEF CauseOK

(* A miss without an MSHR for the block. *)
LEMMA MissAloneLocal ==
  ASSUME NEW k \in CacheType, LocalOK(k), NEW a \in Addrs, NEW o \in Ops,
         NEW cmd \in CpuCommands, NEW req \in Requests, ~Hit(k, cmd, a), k.mshr[a] = NoMSHR
  PROVE  LET kk == MissAlone(k, a, o, cmd, req) IN
         /\ kk \in CacheType /\ LocalOK(kk)
         /\ kk.wb = k.wb
         /\ kk.mshr = [k.mshr EXCEPT ![a] = NewMSHR(o, cmd, req)]
         /\ kk.blk = [k.blk EXCEPT ![a].status = @ \ {"R"}]
<1>1. PICK b : b = k.blk[a]
  OBVIOUS
<1>2. b \in BlockType /\ LineOK(b, NoMSHR) /\ BlockOK(b)
  BY <1>1 DEF LocalOK, LineOK, CacheType
<1>3. PICK e : e = [b EXCEPT !.status = @ \ {"R"}]
  OBVIOUS
<1>4. /\ e \in BlockType /\ e.status = b.status \ {"R"} /\ e.data = b.data /\ e.locks = b.locks
      /\ "R" \notin e.status /\ (Valid(e) <=> Valid(b))
  BY <1>2, <1>3 DEF BlockType, Valid
<1>5. "W" \notin b.status /\ ("V" \in b.status => NeedsExclusive(cmd))
  BY <1>1, <1>2 DEF LineOK, BlockOK, Hit
<1>6. BlockOK(e)
  <2>1. "V" \notin b.status => e = b
    BY <1>2, <1>3 DEF BlockOK, BlockType, NoBlock
  <2>. QED  BY <1>2, <1>4, <1>5, <2>1 DEF BlockOK, Valid
<1>7. PICK m : m = NewMSHR(o, cmd, req)
  OBVIOUS
<1>8. PICK t : t = FromCPU(o, cmd, req)
  OBVIOUS
<1>9. t \in TargetType /\ t.source = "cpu" /\ t.cmd = cmd
  BY <1>8, TargetFacts
<1>10. /\ m \in MSHRType /\ m.targets = <<t>> /\ m.deferred = << >> /\ ~m.inService
  BY <1>7, <1>8, <1>9 DEF NewMSHR, MSHRType
<1>11. m # NoMSHR
  BY <1>10, NullAssumption
<1>12. /\ m.targets # << >> /\ m.targets[1] = t /\ Len(m.targets) = 1
       /\ \A i \in 1 .. Len(m.targets) : Cpu(m.targets[i])
       /\ NeedsExclusive(cmd) => ListNeedsExclusive(m.targets)
  BY <1>9, <1>10 DEF Cpu, ListNeedsExclusive
<1>13. MSHROK(m)
  BY <1>10, <1>12 DEF MSHROK, Cpu
<1>14. LineOK(e, m)
  BY <1>4, <1>5, <1>6, <1>11, <1>12, <1>13 DEF LineOK
<1>15. PICK n : n = [k EXCEPT !.blk[a] = e, !.mshr[a] = m, !.unripe = Append(@, Token("miss", a))]
  OBVIOUS
<1>16. n = [k EXCEPT !.blk[a].status = @ \ {"R"}, !.mshr[a] = NewMSHR(o, cmd, req),
                     !.unripe = Append(@, Token("miss", a))]
  BY <1>1, <1>3, <1>7, <1>15 DEF CacheType
<1>17. Append(k.unripe, Token("miss", a)) \in Seq(Tokens)
  BY TokenFacts, ListTypes, AppendOn
<1>18. /\ n \in CacheType
       /\ n.blk = [k.blk EXCEPT ![a] = e] /\ n.mshr = [k.mshr EXCEPT ![a] = m] /\ n.wb = k.wb
       /\ n.lines = k.lines /\ n.blocked = k.blocked /\ n.noTargetMSHR = k.noTargetMSHR
       /\ n.writeBuffers = k.writeBuffers
       /\ n.unripe = Append(k.unripe, Token("miss", a))
       /\ n.readyMiss = k.readyMiss /\ n.readyWB = k.readyWB
  BY <1>4, <1>10, <1>15, <1>17 DEF CacheType, Tokens
<1>19. /\ n.blk[a] = e /\ n.mshr[a] = m
       /\ \A x \in Addrs : x # a => n.blk[x] = k.blk[x] /\ n.mshr[x] = k.mshr[x]
  BY <1>18 DEF CacheType
<1>20. CauseOK(n) /\ LinesOK(n)
  BY <1>1, <1>4, <1>11, <1>18, <1>19, LocalKept, ZenonT(60)
<1>21. ASSUME NEW x \in Addrs PROVE LineOK(n.blk[x], n.mshr[x]) /\ QueueOK(n, x)
  <2>1. QueueOK(k, x) /\ LineOK(k.blk[x], k.mshr[x])
    BY DEF LocalOK
  <2>2. (x = a => ~Pending(k, x) /\ Pending(n, x)) /\ (x # a => (Pending(n, x) <=> Pending(k, x)))
    BY <1>10, <1>11, <1>19 DEF Pending
  <2>3. QueueOK(n, x)
    <3>1. PICK kind \in {"miss", "wb", "deferred"} : kind = "miss"
      OBVIOUS
    <3>2. n.unripe = Append(k.unripe, Token(kind, a))
      BY <1>18, <3>1
    <3>3. /\ kind = "miss" /\ x = a => ~Pending(k, x) /\ Pending(n, x)
          /\ ~(kind = "miss" /\ x = a) => (Pending(n, x) <=> Pending(k, x))
          /\ ~(kind = "wb" /\ x = a) /\ ~(kind = "deferred" /\ x = a)
      BY <2>2, <3>1
    <3>4. k.mshr[x] # NoMSHR => n.mshr[x] = k.mshr[x]
      BY <1>19
    <3>5. /\ kind = "wb" /\ x = a => k.wb[x] = NoWB /\ n.wb[x] # NoWB
          /\ ~(kind = "wb" /\ x = a) => (n.wb[x] # NoWB <=> k.wb[x] # NoWB)
          /\ kind = "deferred" /\ x = a => /\ ~On(k.unripe, Token("deferred", x))
                                           /\ n.mshr[x] # NoMSHR /\ n.mshr[x].deferred # << >>
          /\ k.mshr[x] # NoMSHR /\ k.mshr[x].deferred # << >> =>
               n.mshr[x] # NoMSHR /\ n.mshr[x].deferred # << >>
          /\ n.readyMiss = k.readyMiss /\ n.readyWB = k.readyWB
          /\ n \in CacheType
      BY <1>18, <3>3, <3>4
    <3>. QED  BY <2>1, <3>2, <3>3, <3>5, QueueAdd, ZenonT(60)
  <2>. QED  BY <1>14, <1>19, <2>1, <2>3
<1>22. PICK kk : kk = MissAlone(k, a, o, cmd, req)
  OBVIOUS
<1>23. kk = IF MSHRsFull(n) THEN [n EXCEPT !.blocked = @ \cup {"NoMSHRs"}] ELSE n
  BY <1>16, <1>22 DEF MissAlone
<1>24. /\ kk \in CacheType /\ kk.blk = n.blk /\ kk.mshr = n.mshr /\ kk.wb = n.wb
       /\ kk.lines = n.lines /\ kk.noTargetMSHR = n.noTargetMSHR
       /\ kk.writeBuffers = n.writeBuffers /\ kk.unripe = n.unripe
       /\ kk.readyMiss = n.readyMiss /\ kk.readyWB = n.readyWB
       /\ IF MSHRsFull(n) THEN kk.blocked = n.blocked \cup {"NoMSHRs"} ELSE kk = n
  BY <1>18, <1>23 DEF CacheType
<1>25. CauseOK(kk)
  <2>1. CASE MSHRsFull(n)
    <3>1. PICK cause : cause = "NoMSHRs"
      OBVIOUS
    <3>2. /\ kk.blocked = n.blocked \cup {cause}
          /\ cause # "NoWBBuffers" /\ cause # "NoTargets"
      BY <1>24, <2>1, <3>1
    <3>. QED  BY <1>18, <1>20, <1>24, <2>1, <3>2, CauseAdded
  <2>. QED  BY <1>20, <1>24, <2>1
<1>26. LinesOK(kk)
  BY <1>20, <1>24 DEF LinesOK, ValidIn
<1>27. ASSUME NEW x \in Addrs PROVE LineOK(kk.blk[x], kk.mshr[x]) /\ QueueOK(kk, x)
  BY <1>21, <1>24 DEF QueueOK, Pending
<1>28. LocalOK(kk)
  BY <1>25, <1>26, <1>27 DEF LocalOK
<1>29. n.blk = [k.blk EXCEPT ![a].status = @ \ {"R"}]
  BY <1>1, <1>3, <1>18 DEF CacheType
<1>. QED  BY <1>7, <1>18, <1>22, <1>24, <1>28, <1>29

(* A miss with one. *)
LEMMA MissToMSHRLocal ==
  ASSUME NEW k \in CacheType, LocalOK(k), NEW a \in Addrs, NEW o \in Ops,
         NEW cmd \in CpuCommands, NEW req \in Requests, k.mshr[a] # NoMSHR
  PROVE  LET kk == MissToMSHR(k, a, o, cmd, req) IN
         /\ kk \in CacheType /\ LocalOK(kk)
         /\ kk.wb = k.wb /\ kk.blk = k.blk
         /\ kk.mshr = [k.mshr EXCEPT ![a] = AddTarget(k.mshr[a], o, cmd, req)]
<1>1. PICK b : b = k.blk[a]
  OBVIOUS
<1>2. PICK m : m = k.mshr[a]
  OBVIOUS
<1>3. b \in BlockType /\ m \in MSHRType /\ LineOK(b, m) /\ m # NoMSHR
  BY <1>1, <1>2 DEF LocalOK, CacheType
<1>4. PICK t : t = FromCPU(o, LateCmd(m, cmd), req)
  OBVIOUS
<1>5. PICK p : p = AddTarget(m, o, cmd, req)
  OBVIOUS
<1>6. /\ p \in MSHRType /\ LineOK(b, p) /\ p.inService = m.inService
      /\ IF MustDefer(m, cmd)
         THEN /\ p.targets = m.targets
              /\ p.deferred = Append(m.deferred, t)
         ELSE /\ p.targets = Append(m.targets, FromCPU(o, cmd, req))
              /\ p.deferred = m.deferred
  BY <1>3, <1>4, <1>5, AddTargetLine
<1>7. p # NoMSHR
  BY <1>6, NullAssumption
<1>8. LateCmd(m, cmd) \in CpuCommands \cup {"StoreCondFailReq"}
  BY DEF LateCmd, ReplaceUpgrade
<1>9. t \in TargetType
  BY <1>4, <1>8, TargetFacts
<1>10. m.deferred \in Seq(TargetType)
  BY <1>3 DEF MSHRType
<1>11. m.deferred # << >> => p.deferred # << >>
  BY <1>6, <1>9, <1>10, AppendTarget
<1>12. PICK more : more = (MustDefer(m, cmd) /\ m.deferred = << >>)
  OBVIOUS
<1>13. PICK n : n = [k EXCEPT !.mshr[a] = p,
                              !.unripe = IF more THEN Append(@, Token("deferred", a)) ELSE @]
  OBVIOUS
<1>14. n = AllocateTarget(k, a, o, cmd, req)
  <2>1. CASE MustDefer(m, cmd)
    <3>1. p = [m EXCEPT !.deferred = Append(@, t)]
      BY <1>4, <1>5, <2>1 DEF AddTarget
    <3>2. AllocateTarget(k, a, o, cmd, req) =
            [k EXCEPT !.mshr[a].deferred = Append(@, t),
                      !.unripe = IF m.deferred = << >> THEN Append(@, Token("deferred", a)) ELSE @]
      BY <1>2, <1>4, <2>1 DEF AllocateTarget, LateCmd
    <3>3. [k EXCEPT !.mshr[a].deferred = Append(@, t),
                    !.unripe = IF m.deferred = << >> THEN Append(@, Token("deferred", a)) ELSE @]
            = [k EXCEPT !.mshr[a] = p,
                        !.unripe = IF m.deferred = << >> THEN Append(@, Token("deferred", a)) ELSE @]
      BY <1>2, <3>1 DEF CacheType
    <3>. QED  BY <1>12, <1>13, <2>1, <3>2, <3>3
  <2>2. CASE ~MustDefer(m, cmd)
    <3>1. p = [m EXCEPT !.targets = Append(@, FromCPU(o, cmd, req))]
      BY <1>5, <2>2 DEF AddTarget
    <3>2. AllocateTarget(k, a, o, cmd, req) = [k EXCEPT !.mshr[a].targets = Append(@, FromCPU(o, cmd, req))]
      BY <1>2, <2>2 DEF AllocateTarget
    <3>3. [k EXCEPT !.mshr[a].targets = Append(@, FromCPU(o, cmd, req))] = [k EXCEPT !.mshr[a] = p]
      BY <1>2, <3>1 DEF CacheType
    <3>4. n = [k EXCEPT !.mshr[a] = p]
      BY <1>12, <1>13, <2>2 DEF CacheType
    <3>. QED  BY <3>2, <3>3, <3>4
  <2>. QED  BY <2>1, <2>2
<1>15. Append(k.unripe, Token("deferred", a)) \in Seq(Tokens) /\ k.unripe \in Seq(Tokens)
  BY TokenFacts, ListTypes, AppendOn
<1>16. /\ n \in CacheType
       /\ n.blk = k.blk /\ n.mshr = [k.mshr EXCEPT ![a] = p] /\ n.wb = k.wb
       /\ n.lines = k.lines /\ n.blocked = k.blocked /\ n.noTargetMSHR = k.noTargetMSHR
       /\ n.writeBuffers = k.writeBuffers
       /\ n.unripe = IF more THEN Append(k.unripe, Token("deferred", a)) ELSE k.unripe
       /\ n.readyMiss = k.readyMiss /\ n.readyWB = k.readyWB
  BY <1>6, <1>13, <1>15 DEF CacheType, Tokens
<1>17. n.mshr[a] = p /\ \A x \in Addrs : x # a => n.mshr[x] = k.mshr[x]
  BY <1>16 DEF CacheType
<1>18. CauseOK(n) /\ LinesOK(n)
  BY <1>7, <1>16, <1>17, LocalKept
<1>19. ASSUME NEW x \in Addrs PROVE LineOK(n.blk[x], n.mshr[x]) /\ QueueOK(n, x)
  <2>1. QueueOK(k, x) /\ LineOK(k.blk[x], k.mshr[x])
    BY DEF LocalOK
  <2>2. Pending(n, x) <=> Pending(k, x)
    BY <1>2, <1>3, <1>6, <1>7, <1>17 DEF Pending
  <2>3. k.mshr[x] # NoMSHR /\ k.mshr[x].deferred # << >> =>
          n.mshr[x] # NoMSHR /\ n.mshr[x].deferred # << >>
    BY <1>2, <1>7, <1>11, <1>17
  <2>4. CASE more
    <3>1. p.deferred # << >>
      <4>1. MustDefer(m, cmd)
        BY <1>12, <2>4
      <4>. QED  BY <1>6, <1>9, <1>10, <4>1, AppendTarget
    <3>2. x = a => /\ ~On(k.unripe, Token("deferred", x))
                   /\ n.mshr[x] # NoMSHR /\ n.mshr[x].deferred # << >>
      BY <1>2, <1>7, <1>12, <1>17, <2>1, <2>4, <3>1 DEF QueueOK
    <3>3. n.unripe = Append(k.unripe, Token("deferred", a))
      BY <1>16, <2>4
    <3>4. QueueOK(n, x)
      <4>1. PICK kind \in {"miss", "wb", "deferred"} : kind = "deferred"
        OBVIOUS
      <4>2. n.unripe = Append(k.unripe, Token(kind, a))
        BY <3>3, <4>1
      <4>3. ~(kind = "miss" /\ x = a) /\ ~(kind = "wb" /\ x = a)
        BY <4>1
      <4>4. /\ kind = "miss" /\ x = a => ~Pending(k, x) /\ Pending(n, x)
            /\ kind = "wb" /\ x = a => k.wb[x] = NoWB /\ n.wb[x] # NoWB
            /\ ~(kind = "wb" /\ x = a) => (n.wb[x] # NoWB <=> k.wb[x] # NoWB)
            /\ kind = "deferred" /\ x = a => /\ ~On(k.unripe, Token("deferred", x))
                                             /\ n.mshr[x] # NoMSHR /\ n.mshr[x].deferred # << >>
            /\ n.readyMiss = k.readyMiss /\ n.readyWB = k.readyWB
            /\ n \in CacheType
        BY <1>16, <3>2, <4>3
      <4>. QED  BY <2>1, <2>2, <2>3, <4>2, <4>4, QueueAdd, ZenonT(60)
    <3>. QED  BY <1>1, <1>2, <1>6, <1>16, <1>17, <2>1, <3>4
  <2>5. CASE ~more
    <3>1. QueueOK(n, x)
      BY <1>16, <2>1, <2>2, <2>3, <2>5, QueueSame
    <3>. QED  BY <1>1, <1>2, <1>6, <1>16, <1>17, <2>1, <3>1
  <2>. QED  BY <2>4, <2>5
<1>20. PICK full : full = (NumTargets(n.mshr[a]) = TargetsPerMSHR)
  OBVIOUS
<1>21. PICK kk : kk = MissToMSHR(k, a, o, cmd, req)
  OBVIOUS
<1>22. kk = IF full THEN [n EXCEPT !.noTargetMSHR = a, !.blocked = @ \cup {"NoTargets"}] ELSE n
  BY <1>14, <1>20, <1>21 DEF MissToMSHR
<1>23. /\ kk \in CacheType /\ kk.blk = n.blk /\ kk.mshr = n.mshr /\ kk.wb = n.wb
       /\ kk.lines = n.lines
       /\ kk.writeBuffers = n.writeBuffers /\ kk.unripe = n.unripe
       /\ kk.readyMiss = n.readyMiss /\ kk.readyWB = n.readyWB
       /\ IF full THEN kk.noTargetMSHR = a /\ kk.blocked = n.blocked \cup {"NoTargets"} ELSE kk = n
  BY <1>16, <1>22 DEF CacheType
<1>24. CauseOK(kk)
  <2>1. a # NoMSHR
    BY CacheAssumption
  <2>2. CASE full
    <3>1. PICK cause : cause = "NoTargets"
      OBVIOUS
    <3>2. /\ kk.blocked = n.blocked \cup {cause} /\ kk.noTargetMSHR = a
          /\ cause # "NoMSHRs" /\ cause # "NoWBBuffers" /\ cause = "NoTargets"
      BY <1>23, <2>2, <3>1
    <3>. QED  BY <1>7, <1>16, <1>17, <1>18, <1>23, <2>1, <3>2, CauseAdded
  <2>. QED  BY <1>18, <1>23, <2>2
<1>25. LinesOK(kk)
  BY <1>18, <1>23 DEF LinesOK, ValidIn
<1>26. ASSUME NEW x \in Addrs PROVE LineOK(kk.blk[x], kk.mshr[x]) /\ QueueOK(kk, x)
  BY <1>19, <1>23 DEF QueueOK, Pending
<1>27. LocalOK(kk)
  BY <1>24, <1>25, <1>26 DEF LocalOK
<1>. QED  BY <1>2, <1>5, <1>16, <1>21, <1>23, <1>27

-----------------------------------------------------------------------------
(* The counters of lines.                                                  *)

(* incSetLine() and decSetLine(). *)
LEMMA SetLineFacts ==
  ASSUME NEW k \in CacheType, NEW a \in Addrs, NEW kk, NEW n \in Int,
         \/ kk = IncSetLine(k, a) /\ n = 1
         \/ kk = DecSetLine(k, a) /\ n = -1
  PROVE  /\ kk \in CacheType
         /\ kk.lines.pcm = k.lines.pcm + (IF a \in Pcm THEN n ELSE 0)
         /\ kk.lines.dram = k.lines.dram + (IF a \in Pcm THEN 0 ELSE n)
         /\ kk.blk = k.blk /\ kk.mshr = k.mshr /\ kk.wb = k.wb
         /\ kk.blocked = k.blocked /\ kk.noTargetMSHR = k.noTargetMSHR
         /\ kk.writeBuffers = k.writeBuffers /\ kk.unripe = k.unripe
         /\ kk.readyMiss = k.readyMiss /\ kk.readyWB = k.readyWB
<1>1. kk = [k EXCEPT !.lines[LineKind(a)] = @ + n]
  <2>1. k.lines[LineKind(a)] \in Int
    BY DEF CacheType, LineKind
  <2>. QED  BY <2>1 DEF IncSetLine, DecSetLine
<1>2. PICK u : u = [k.lines EXCEPT ![LineKind(a)] = @ + n]
  OBVIOUS
<1>3. /\ u \in [pcm : Int, dram : Int]
      /\ u.pcm = k.lines.pcm + (IF a \in Pcm THEN n ELSE 0)
      /\ u.dram = k.lines.dram + (IF a \in Pcm THEN 0 ELSE n)
  <2>1. k.lines \in [pcm : Int, dram : Int]
    BY DEF CacheType
  <2>. QED  BY <1>2, <2>1 DEF LineKind
<1>4. kk = [k EXCEPT !.lines = u]
  BY <1>1, <1>2 DEF CacheType
<1>. QED  BY <1>3, <1>4 DEF CacheType

(* A line comes or goes. *)
LEMMA LinesChange ==
  ASSUME NEW k \in CacheType, NEW kk \in CacheType, LinesOK(k), NEW a \in Addrs,
         NEW n \in {1, -1}, Valid(kk.blk[a]) <=> n = 1, Valid(k.blk[a]) <=> n = -1,
         \A x \in Addrs : x # a => (Valid(kk.blk[x]) <=> Valid(k.blk[x])),
         kk.lines.pcm = k.lines.pcm + (IF a \in Pcm THEN n ELSE 0),
         kk.lines.dram = k.lines.dram + (IF a \in Pcm THEN 0 ELSE n)
  PROVE  LinesOK(kk)
<1>1. ASSUME NEW S, NEW T, IsFiniteSet(S), a \notin S, T = S \cup {a}
      PROVE  Cardinality(T) = Cardinality(S) + 1 /\ Cardinality(S) \in Nat
  BY <1>1, FS_AddElement, FS_CardinalityType
<1>2. /\ IsFiniteSet(ValidIn(k) \cap Pcm) /\ IsFiniteSet(ValidIn(k) \ Pcm)
      /\ IsFiniteSet(ValidIn(kk) \cap Pcm) /\ IsFiniteSet(ValidIn(kk) \ Pcm)
  <2>1. IsFiniteSet(Addrs)
    BY CacheAssumption
  <2>2. ValidIn(k) \subseteq Addrs /\ ValidIn(kk) \subseteq Addrs
    BY DEF ValidIn
  <2>3. /\ ValidIn(k) \cap Pcm \subseteq Addrs /\ ValidIn(k) \ Pcm \subseteq Addrs
        /\ ValidIn(kk) \cap Pcm \subseteq Addrs /\ ValidIn(kk) \ Pcm \subseteq Addrs
    BY <2>2
  <2>. QED  BY <2>1, <2>3, FS_Subset
<1>5. k.lines.pcm \in Int /\ k.lines.dram \in Int
  BY DEF CacheType
<1>3. CASE n = 1
  <2>1. a \notin ValidIn(k) /\ ValidIn(kk) = ValidIn(k) \cup {a}
    BY <1>3 DEF ValidIn, Valid
  <2>2. CASE a \in Pcm
    <3>1. /\ ValidIn(kk) \cap Pcm = (ValidIn(k) \cap Pcm) \cup {a}
          /\ ValidIn(kk) \ Pcm = ValidIn(k) \ Pcm /\ a \notin ValidIn(k) \cap Pcm
      BY <2>1, <2>2
    <3>2. Cardinality(ValidIn(kk) \cap Pcm) = Cardinality(ValidIn(k) \cap Pcm) + 1
      BY <1>1, <1>2, <3>1
    <3>3. kk.lines.pcm = k.lines.pcm + 1 /\ kk.lines.dram = k.lines.dram
      BY <1>3, <1>5, <2>2
    <3>4. Cardinality(ValidIn(kk) \ Pcm) = Cardinality(ValidIn(k) \ Pcm)
      BY <3>1
    <3>. QED  BY <3>2, <3>3, <3>4 DEF LinesOK
  <2>3. CASE a \notin Pcm
    <3>1. /\ ValidIn(kk) \ Pcm = (ValidIn(k) \ Pcm) \cup {a}
          /\ ValidIn(kk) \cap Pcm = ValidIn(k) \cap Pcm /\ a \notin ValidIn(k) \ Pcm
      BY <2>1, <2>3
    <3>2. Cardinality(ValidIn(kk) \ Pcm) = Cardinality(ValidIn(k) \ Pcm) + 1
      BY <1>1, <1>2, <3>1
    <3>3. kk.lines.dram = k.lines.dram + 1 /\ kk.lines.pcm = k.lines.pcm
      BY <1>3, <1>5, <2>3
    <3>4. Cardinality(ValidIn(kk) \cap Pcm) = Cardinality(ValidIn(k) \cap Pcm)
      BY <3>1
    <3>. QED  BY <3>2, <3>3, <3>4 DEF LinesOK
  <2>. QED  BY <2>2, <2>3
<1>4. CASE n = -1
  <2>1. a \notin ValidIn(kk) /\ ValidIn(k) = ValidIn(kk) \cup {a}
    BY <1>4 DEF ValidIn, Valid
  <2>2. CASE a \in Pcm
    <3>1. /\ ValidIn(k) \cap Pcm = (ValidIn(kk) \cap Pcm) \cup {a}
          /\ ValidIn(kk) \ Pcm = ValidIn(k) \ Pcm /\ a \notin ValidIn(kk) \cap Pcm
      BY <2>1, <2>2
    <3>2. /\ Cardinality(ValidIn(k) \cap Pcm) = Cardinality(ValidIn(kk) \cap Pcm) + 1
          /\ Cardinality(ValidIn(kk) \cap Pcm) \in Nat
      BY <1>1, <1>2, <3>1
    <3>3. kk.lines.pcm = k.lines.pcm - 1 /\ kk.lines.dram = k.lines.dram
      BY <1>4, <1>5, <2>2
    <3>4. Cardinality(ValidIn(kk) \ Pcm) = Cardinality(ValidIn(k) \ Pcm)
      BY <3>1
    <3>. QED  BY <3>2, <3>3, <3>4 DEF LinesOK
  <2>3. CASE a \notin Pcm
    <3>1. /\ ValidIn(k) \ Pcm = (ValidIn(kk) \ Pcm) \cup {a}
          /\ ValidIn(kk) \cap Pcm = ValidIn(k) \cap Pcm /\ a \notin ValidIn(kk) \ Pcm
      BY <2>1, <2>3
    <3>2. /\ Cardinality(ValidIn(k) \ Pcm) = Cardinality(ValidIn(kk) \ Pcm) + 1
          /\ Cardinality(ValidIn(kk) \ Pcm) \in Nat
      BY <1>1, <1>2, <3>1
    <3>3. kk.lines.dram = k.lines.dram - 1 /\ kk.lines.pcm = k.lines.pcm
      BY <1>4, <1>5, <2>3
    <3>4. Cardinality(ValidIn(kk) \cap Pcm) = Cardinality(ValidIn(k) \cap Pcm)
      BY <3>1
    <3>. QED  BY <3>2, <3>3, <3>4 DEF LinesOK
  <2>. QED  BY <2>2, <2>3
<1>. QED  BY <1>3, <1>4

(* No line comes or goes. *)
LEMMA LinesSame ==
  ASSUME NEW k \in CacheType, NEW kk \in CacheType, LinesOK(k), kk.lines = k.lines,
         \A x \in Addrs : Valid(kk.blk[x]) <=> Valid(k.blk[x])
  PROVE  LinesOK(kk)
<1>1. ValidIn(kk) = ValidIn(k)
  BY DEF ValidIn, Valid
<1>. QED  BY <1>1 DEF LinesOK

-----------------------------------------------------------------------------
(* Snoops.                                                                 *)

(* Only one block, or only one MSHR, changes. *)
LEMMA SetBlkFacts ==
  ASSUME NEW k \in CacheType, NEW a \in Addrs, NEW e \in BlockType
  PROVE  LET kk == [k EXCEPT !.blk[a] = e] IN
         /\ kk \in CacheType /\ kk.blk = [k.blk EXCEPT ![a] = e]
         /\ kk.mshr = k.mshr /\ kk.wb = k.wb /\ kk.lines = k.lines
         /\ kk.blocked = k.blocked /\ kk.noTargetMSHR = k.noTargetMSHR
         /\ kk.writeBuffers = k.writeBuffers /\ kk.unripe = k.unripe
         /\ kk.readyMiss = k.readyMiss /\ kk.readyWB = k.readyWB
BY DEF CacheType

LEMMA SetMSHRFacts ==
  ASSUME NEW k \in CacheType, NEW a \in Addrs, NEW e \in MSHRType \cup {NoMSHR}
  PROVE  LET kk == [k EXCEPT !.mshr[a] = e] IN
         /\ kk \in CacheType /\ kk.mshr = [k.mshr EXCEPT ![a] = e]
         /\ kk.blk = k.blk /\ kk.wb = k.wb /\ kk.lines = k.lines
         /\ kk.blocked = k.blocked /\ kk.noTargetMSHR = k.noTargetMSHR
         /\ kk.writeBuffers = k.writeBuffers /\ kk.unripe = k.unripe
         /\ kk.readyMiss = k.readyMiss /\ kk.readyWB = k.readyWB
BY DEF CacheType

(* tags->invalidate() of a valid block, with or without an MSHR that can   *)
(* do without it.                                                          *)
LEMMA InvalidateFacts ==
  ASSUME NEW k \in CacheType, NEW a \in Addrs, NEW kk, kk = Invalidate(k, a)
  PROVE  /\ kk \in CacheType /\ kk.blk = [k.blk EXCEPT ![a] = NoBlock]
         /\ kk.mshr = k.mshr /\ kk.wb = k.wb
         /\ kk.blocked = k.blocked /\ kk.noTargetMSHR = k.noTargetMSHR
         /\ kk.writeBuffers = k.writeBuffers /\ kk.unripe = k.unripe
         /\ kk.readyMiss = k.readyMiss /\ kk.readyWB = k.readyWB
         /\ LinesOK(k) /\ Valid(k.blk[a]) => LinesOK(kk)
<1>1. PICK n : n = DecSetLine(k, a)
  OBVIOUS
<1>2. PICK i \in Int : i = -1
  OBVIOUS
<1>3. /\ n \in CacheType
      /\ n.lines.pcm = k.lines.pcm + (IF a \in Pcm THEN i ELSE 0)
      /\ n.lines.dram = k.lines.dram + (IF a \in Pcm THEN 0 ELSE i)
      /\ n.blk = k.blk /\ n.mshr = k.mshr /\ n.wb = k.wb
      /\ n.blocked = k.blocked /\ n.noTargetMSHR = k.noTargetMSHR
      /\ n.writeBuffers = k.writeBuffers /\ n.unripe = k.unripe
      /\ n.readyMiss = k.readyMiss /\ n.readyWB = k.readyWB
  BY <1>1, <1>2, SetLineFacts
<1>4. NoBlock \in BlockType
  BY DEF NoBlock, BlockType
<1>5. kk = [n EXCEPT !.blk[a] = NoBlock]
  BY <1>1 DEF Invalidate
<1>6. /\ kk \in CacheType /\ kk.blk = [k.blk EXCEPT ![a] = NoBlock] /\ kk.lines = n.lines
      /\ kk.mshr = k.mshr /\ kk.wb = k.wb
      /\ kk.blocked = k.blocked /\ kk.noTargetMSHR = k.noTargetMSHR
      /\ kk.writeBuffers = k.writeBuffers /\ kk.unripe = k.unripe
      /\ kk.readyMiss = k.readyMiss /\ kk.readyWB = k.readyWB
  <2>1. /\ kk \in CacheType /\ kk.blk = [n.blk EXCEPT ![a] = NoBlock] /\ kk.lines = n.lines
        /\ kk.mshr = n.mshr /\ kk.wb = n.wb
        /\ kk.blocked = n.blocked /\ kk.noTargetMSHR = n.noTargetMSHR
        /\ kk.writeBuffers = n.writeBuffers /\ kk.unripe = n.unripe
        /\ kk.readyMiss = n.readyMiss /\ kk.readyWB = n.readyWB
    <3>1. n \in CacheType
      BY <1>3
    <3>2. PICK e \in BlockType : e = NoBlock
      BY <1>4
    <3>3. kk = [n EXCEPT !.blk[a] = e]
      BY <1>5, <3>2
    <3>4. /\ kk \in CacheType /\ kk.blk = [n.blk EXCEPT ![a] = e] /\ kk.lines = n.lines
          /\ kk.mshr = n.mshr /\ kk.wb = n.wb
          /\ kk.blocked = n.blocked /\ kk.noTargetMSHR = n.noTargetMSHR
          /\ kk.writeBuffers = n.writeBuffers /\ kk.unripe = n.unripe
          /\ kk.readyMiss = n.readyMiss /\ kk.readyWB = n.readyWB
      BY <3>1, <3>3, SetBlkFacts
    <3>. QED  BY <3>2, <3>4, Zenon
  <2>. QED  BY <1>3, <2>1
<1>7. ASSUME LinesOK(k), Valid(k.blk[a]) PROVE LinesOK(kk)
  <2>1. kk.blk[a] = NoBlock /\ \A x \in Addrs : x # a => kk.blk[x] = k.blk[x]
    BY <1>6 DEF CacheType
  <2>2. ~Valid(kk.blk[a])
    BY <2>1, BlockFacts
  <2>3. PICK j \in {1, -1} : j = -1
    OBVIOUS
  <2>4. /\ kk.lines.pcm = k.lines.pcm + (IF a \in Pcm THEN j ELSE 0)
        /\ kk.lines.dram = k.lines.dram + (IF a \in Pcm THEN 0 ELSE j)
    BY <1>2, <1>3, <1>6, <2>3
  <2>5. (Valid(kk.blk[a]) <=> j = 1) /\ (Valid(k.blk[a]) <=> j = -1)
    BY <1>7, <2>2, <2>3
  <2>6. \A x \in Addrs : x # a => (Valid(kk.blk[x]) <=> Valid(k.blk[x]))
    BY <2>1
  <2>7. kk \in CacheType
    BY <1>6
  <2>. QED  BY <1>7, <2>4, <2>5, <2>6, <2>7, LinesChange
<1>. QED  BY <1>6, <1>7

(* The data of a writeback that waits. *)
Waiting(k, a) == IF k.wb[a] = NoWB THEN NoWB ELSE k.wb[a].data

LEMMA WaitingFacts ==
  ASSUME NEW k \in CacheType, NEW a \in Addrs
  PROVE  /\ Waiting(k, a) # NoWB <=> k.wb[a] # NoWB
         /\ Waiting(k, a) # NoWB => Waiting(k, a) \in Nat /\ Waiting(k, a) = k.wb[a].data
<1>1. k.wb[a] # NoWB => k.wb[a].data \in Nat
  BY DEF CacheType, WBType
<1>. QED  BY <1>1, NullAssumption DEF Waiting

(* recvTimingSnoopReq() while the request for the block is in service. *)
SnoopSentResult(s, k, a, c, cmd) ==
  /\ s.k \in CacheType /\ LocalOK(s.k)
  /\ s.k.mshr = [k.mshr EXCEPT ![a] = SnoopedMSHR(k.mshr[a], c, cmd)]
  /\ s.k.blk = [k.blk EXCEPT ![a] = SnoopedBlk(k.blk[a], k.mshr[a], cmd)]
  /\ s.k.wb = k.wb
  /\ s.inhibit <=> Newest(k.mshr[a])
  /\ s.shared <=> cmd = "ReadReq" /\ ~k.mshr[a].postInvalidate
  /\ s.answers = {}

LEMMA SnoopSentLocal ==
  ASSUME NEW k \in CacheType, LocalOK(k), NEW a \in Addrs, NEW c \in Caches, NEW cmd \in BusCommands,
         Sent(k.mshr[a]),
         NEW s, s = RecvTimingSnoopReq(k, a, c, cmd)
  PROVE  SnoopSentResult(s, k, a, c, cmd)
<1>1. PICK b : b = k.blk[a]
  OBVIOUS
<1>2. PICK m : m = k.mshr[a]
  OBVIOUS
<1>3. /\ b \in BlockType /\ m \in MSHRType /\ LineOK(b, m) /\ m # NoMSHR /\ m.inService
      /\ MSHROK(m) /\ m \in MSHRType \cup {NoMSHR}
  BY <1>1, <1>2 DEF LocalOK, CacheType, LineOK, Sent
<1>4. PICK n : n = MSHRHandleSnoop(m, c, cmd)
  OBVIOUS
<1>5. n = SnoopedMSHR(m, c, cmd) /\ b = SnoopedBlk(b, m, cmd)
  BY <1>2, <1>3, <1>4 DEF SnoopedMSHR, SnoopedBlk
<1>6. n \in MSHRType \cup {NoMSHR} /\ LineOK(b, n) /\ n # NoMSHR /\ Sent(n)
  <2>1. Sent(m)
    BY <1>2
  <2>. QED  BY <1>3, <1>5, <2>1, SnoopLine
<1>7. n.deferred = IF cmd # "ReadReq" THEN ReplaceUpgrades(m.deferred) ELSE m.deferred
  BY <1>3, <1>4, HandleSnoopFacts
<1>8. m.deferred # << >> => n.deferred # << >>
  <2>1. m.deferred \in Seq(TargetType) /\ \A i \in 1 .. Len(m.deferred) : m.deferred[i].source = "cpu"
    BY <1>3 DEF MSHRType, MSHROK, Cpu
  <2>2. Len(ReplaceUpgrades(m.deferred)) = Len(m.deferred) /\ ReplaceUpgrades(m.deferred) \in Seq(TargetType)
    BY <2>1, ReplaceFacts
  <2>. QED  BY <1>7, <2>1, <2>2
<1>9. s = SnoopMSHR(k, a, c, cmd)
  BY <1>2, <1>3 DEF RecvTimingSnoopReq
<1>10. PICK kk : kk = [k EXCEPT !.mshr[a] = n]
  OBVIOUS
<1>11. /\ s.k = kk /\ s.answers = {}
       /\ s.shared = (~m.postInvalidate /\ ~NeedsExclusive(cmd))
       /\ s.inhibit = (~m.postInvalidate /\ m.pendingDirty)
  BY <1>2, <1>4, <1>9, <1>10 DEF SnoopMSHR
<1>12. /\ kk \in CacheType
       /\ kk.blk = k.blk /\ kk.mshr = [k.mshr EXCEPT ![a] = n] /\ kk.wb = k.wb
       /\ kk.lines = k.lines /\ kk.blocked = k.blocked /\ kk.noTargetMSHR = k.noTargetMSHR
       /\ kk.writeBuffers = k.writeBuffers
       /\ kk.unripe = k.unripe /\ kk.readyMiss = k.readyMiss /\ kk.readyWB = k.readyWB
  BY <1>6, <1>10 DEF CacheType
<1>13. kk.mshr[a] = n /\ \A x \in Addrs : x # a => kk.mshr[x] = k.mshr[x]
  BY <1>12 DEF CacheType
<1>14. CauseOK(kk) /\ LinesOK(kk)
  BY <1>6, <1>12, <1>13, LocalKept
<1>15. ASSUME NEW x \in Addrs PROVE LineOK(kk.blk[x], kk.mshr[x]) /\ QueueOK(kk, x)
  <2>1. QueueOK(k, x) /\ LineOK(k.blk[x], k.mshr[x])
    BY DEF LocalOK
  <2>2. Pending(kk, x) <=> Pending(k, x)
    BY <1>2, <1>3, <1>6, <1>13 DEF Pending, Sent
  <2>3. k.mshr[x] # NoMSHR /\ k.mshr[x].deferred # << >> =>
          kk.mshr[x] # NoMSHR /\ kk.mshr[x].deferred # << >>
    BY <1>2, <1>6, <1>8, <1>13
  <2>4. QueueOK(kk, x)
    BY <1>12, <2>1, <2>2, <2>3, QueueSame
  <2>. QED  BY <1>1, <1>6, <1>12, <1>13, <2>1, <2>4
<1>16. LocalOK(kk)
  BY <1>14, <1>15 DEF LocalOK
<1>17. k.blk = [k.blk EXCEPT ![a] = b]
  BY <1>1 DEF CacheType
<1>18. /\ s.inhibit <=> Newest(m)
       /\ s.shared <=> cmd = "ReadReq" /\ ~m.postInvalidate
  BY <1>2, <1>3, <1>11, BusFacts DEF Newest, Owning, Sent
<1>. QED  BY <1>1, <1>2, <1>5, <1>11, <1>12, <1>16, <1>17, <1>18 DEF SnoopSentResult

(* recvTimingSnoopReq() otherwise. *)
SnoopNowResult(s, k, a, c, cmd) ==
  /\ s.k \in CacheType /\ LocalOK(s.k)
  /\ s.k.mshr = [k.mshr EXCEPT ![a] = SnoopedMSHR(k.mshr[a], c, cmd)]
  /\ s.k.blk = [k.blk EXCEPT ![a] = SnoopedBlk(k.blk[a], k.mshr[a], cmd)]
  /\ s.k.wb = IF cmd # "ReadReq" THEN [k.wb EXCEPT ![a] = NoWB] ELSE k.wb
  /\ s.inhibit <=> Dirty(k.blk[a]) \/ k.wb[a] # NoWB
  /\ s.shared <=> cmd = "ReadReq" /\ (Valid(k.blk[a]) \/ k.wb[a] # NoWB)
  /\ s.answers = IF Dirty(k.blk[a]) \/ k.wb[a] # NoWB
                 THEN {Answer(Response(cmd),
                              IF Dirty(k.blk[a]) THEN k.blk[a].data ELSE k.wb[a].data,
                              cmd = "ReadReq", TRUE)}
                 ELSE {}
  /\ s.k.readyMiss = k.readyMiss
  /\ s.k.unripe = IF k.wb[a] # NoWB /\ cmd # "ReadReq"
                  THEN RemoveFirst(k.unripe, Token("wb", a)) ELSE k.unripe

LEMMA SnoopNowLocal ==
  ASSUME NEW k \in CacheType, LocalOK(k), NEW a \in Addrs, NEW c \in Caches, NEW cmd \in BusCommands,
         ~Sent(k.mshr[a]), Valid(k.blk[a]) => k.wb[a] = NoWB,
         NEW s, s = RecvTimingSnoopReq(k, a, c, cmd)
  PROVE  SnoopNowResult(s, k, a, c, cmd)
<1>1. PICK b : b = k.blk[a]
  OBVIOUS
<1>2. PICK m : m = k.mshr[a]
  OBVIOUS
<1>3. b \in BlockType /\ m \in MSHRType \cup {NoMSHR} /\ LineOK(b, m) /\ BlockOK(b)
  BY <1>1, <1>2 DEF LocalOK, CacheType, LineOK
<1>4. PICK n : n = SnoopedMSHR(m, c, cmd)
  OBVIOUS
<1>5. PICK e : e = SnoopedBlk(b, m, cmd)
  OBVIOUS
<1>6. /\ n \in MSHRType \cup {NoMSHR} /\ e \in BlockType /\ LineOK(e, n)
      /\ n = NoMSHR <=> m = NoMSHR
      /\ ~Sent(n)
      /\ cmd # "ReadReq" => e = NoBlock
      /\ cmd = "ReadReq" => (Valid(e) <=> Valid(b))
  <2>1. ~Sent(m)
    BY <1>2
  <2>. QED  BY <1>3, <1>4, <1>5, <2>1, SnoopLine
<1>7. e = IF cmd = "ReadReq" THEN [b EXCEPT !.status = @ \ {"W"}] ELSE NoBlock
  BY <1>2, <1>5 DEF SnoopedBlk
<1>8. PICK k1 : k1 = [k EXCEPT !.mshr[a] = n]
  OBVIOUS
<1>9. k1 = SnoopPending(k, a, cmd)
  <2>1. CASE m # NoMSHR /\ NeedsExclusive(cmd)
    <3>1. cmd # "ReadReq" /\ ~m.inService
      BY <1>2, <2>1, BusFacts DEF Sent
    <3>2. n = [m EXCEPT !.targets = ReplaceUpgrades(@), !.deferred = ReplaceUpgrades(@)]
      BY <1>4, <2>1, <3>1 DEF SnoopedMSHR
    <3>3. [k EXCEPT !.mshr[a].targets = ReplaceUpgrades(@),
                    !.mshr[a].deferred = ReplaceUpgrades(@)] = [k EXCEPT !.mshr[a] = n]
      BY <1>2, <3>2 DEF CacheType
    <3>. QED  BY <1>2, <1>8, <2>1, <3>3 DEF SnoopPending
  <2>2. CASE ~(m # NoMSHR /\ NeedsExclusive(cmd))
    <3>1. n = m
      BY <1>2, <1>4, <2>2, BusFacts DEF SnoopedMSHR, Sent
    <3>2. [k EXCEPT !.mshr[a] = n] = k
      BY <1>2, <3>1 DEF CacheType
    <3>. QED  BY <1>2, <1>8, <2>2, <3>2 DEF SnoopPending
  <2>. QED  BY <2>1, <2>2
<1>10. /\ k1 \in CacheType
       /\ k1.blk = k.blk /\ k1.mshr = [k.mshr EXCEPT ![a] = n] /\ k1.wb = k.wb
       /\ k1.lines = k.lines /\ k1.blocked = k.blocked /\ k1.noTargetMSHR = k.noTargetMSHR
       /\ k1.writeBuffers = k.writeBuffers
       /\ k1.unripe = k.unripe /\ k1.readyMiss = k.readyMiss /\ k1.readyWB = k.readyWB
  BY <1>6, <1>8, SetMSHRFacts
<1>11. k1.mshr[a] = n /\ \A x \in Addrs : x # a => k1.mshr[x] = k.mshr[x]
  BY <1>10 DEF CacheType
<1>12. LineOK(b, n)
  <2>1. CASE m = NoMSHR
    BY <1>3, <1>6, <2>1
  <2>2. CASE m # NoMSHR
    <3>1. /\ m \in MSHRType /\ MSHROK(m) /\ ~m.inService /\ "R" \notin b.status
          /\ "V" \in b.status => ListNeedsExclusive(m.targets)
      BY <1>2, <1>3, <2>2 DEF LineOK, Sent
    <3>2. n # NoMSHR /\ MSHROK(n) /\ ~n.inService
      BY <1>6, <2>2 DEF LineOK, Sent
    <3>3. ListNeedsExclusive(n.targets) <=> ListNeedsExclusive(m.targets)
      <4>1. CASE cmd = "ReadReq"
        BY <1>4, <2>2, <3>1, <4>1 DEF SnoopedMSHR
      <4>2. CASE cmd # "ReadReq"
        <5>1. n = [m EXCEPT !.targets = ReplaceUpgrades(@), !.deferred = ReplaceUpgrades(@)]
          BY <1>4, <2>2, <3>1, <4>2 DEF SnoopedMSHR
        <5>2. n.targets = ReplaceUpgrades(m.targets)
          BY <3>1, <5>1 DEF MSHRType
        <5>3. m.targets \in Seq(TargetType) /\ \A i \in 1 .. Len(m.targets) : m.targets[i].source = "cpu"
          BY <3>1 DEF MSHRType, MSHROK, Cpu
        <5>. QED  BY <5>2, <5>3, ReplaceFacts
      <4>. QED  BY <4>1, <4>2
    <3>. QED  BY <1>3, <3>1, <3>2, <3>3 DEF LineOK
  <2>. QED  BY <2>1, <2>2
<1>13. LocalOK(k1)
  <2>1. CauseOK(k1) /\ LinesOK(k1)
    BY <1>2, <1>6, <1>10, <1>11, LocalKept
  <2>2. ASSUME NEW x \in Addrs PROVE LineOK(k1.blk[x], k1.mshr[x]) /\ QueueOK(k1, x)
    <3>1. QueueOK(k, x) /\ LineOK(k.blk[x], k.mshr[x])
      BY DEF LocalOK
    <3>2. Pending(k1, x) <=> Pending(k, x)
      BY <1>2, <1>6, <1>11 DEF Pending, Sent
    <3>3. k.mshr[x] # NoMSHR /\ k.mshr[x].deferred # << >> =>
            k1.mshr[x] # NoMSHR /\ k1.mshr[x].deferred # << >>
      <4>1. m # NoMSHR => m.deferred = << >>
        BY <1>2, <1>3 DEF LineOK, MSHROK, Sent
      <4>. QED  BY <1>2, <1>11, <4>1
    <3>4. QueueOK(k1, x)
      BY <1>10, <3>1, <3>2, <3>3, QueueSame
    <3>. QED  BY <1>1, <1>10, <1>11, <1>12, <3>1, <3>4
  <2>. QED  BY <2>1, <2>2 DEF LocalOK
<1>14. PICK w : w = SnoopWriteBuffer(k1, a, cmd)
  OBVIOUS
<1>15. PICK k2 : k2 = w.k
  OBVIOUS
<1>16. k2 = IF k.wb[a] # NoWB /\ cmd # "ReadReq" THEN ReleaseWriteBuffer(k1, a) ELSE k1
  BY <1>10, <1>14, <1>15, BusFacts DEF SnoopWriteBuffer
<1>17. w.answers = IF k.wb[a] = NoWB THEN {}
                   ELSE {Answer(Response(cmd), k.wb[a].data, cmd = "ReadReq", TRUE)}
  BY <1>10, <1>14 DEF SnoopWriteBuffer
<1>18. /\ k2 \in CacheType /\ LocalOK(k2)
       /\ k2.blk = k.blk /\ k2.mshr = k1.mshr
       /\ k2.wb = IF cmd # "ReadReq" THEN [k.wb EXCEPT ![a] = NoWB] ELSE k.wb
  <2>1. CASE k.wb[a] # NoWB /\ cmd # "ReadReq"
    BY <1>10, <1>13, <1>16, <2>1, ReleaseLocal, ZenonT(40)
  <2>2. CASE ~(k.wb[a] # NoWB /\ cmd # "ReadReq")
    <3>1. k.wb[a] = NoWB => [k.wb EXCEPT ![a] = NoWB] = k.wb
      BY DEF CacheType
    <3>. QED  BY <1>10, <1>13, <1>16, <2>2, <3>1
  <2>. QED  BY <2>1, <2>2
<1>19. PICK k3 : k3 = SnoopBlock(k2, a, cmd)
  OBVIOUS
<1>20. a \in ValidIn(k2) <=> Valid(b)
  BY <1>1, <1>18 DEF ValidIn, Valid
<1>21. ~Valid(b) => e = b
  BY <1>3, <1>7 DEF BlockOK, Valid, NoBlock, BlockType
<1>22. /\ k3 \in CacheType /\ k3.blk = [k.blk EXCEPT ![a] = e]
       /\ k3.mshr = k1.mshr /\ k3.wb = k2.wb
       /\ k3.blocked = k2.blocked /\ k3.noTargetMSHR = k2.noTargetMSHR
       /\ k3.writeBuffers = k2.writeBuffers /\ k3.unripe = k2.unripe
       /\ k3.readyMiss = k2.readyMiss /\ k3.readyWB = k2.readyWB
       /\ LinesOK(k3)
  <2>1. CASE ~Valid(b)
    <3>1. k3 = k2
      BY <1>19, <1>20, <2>1 DEF SnoopBlock
    <3>2. [k.blk EXCEPT ![a] = e] = k.blk
      BY <1>1, <1>21, <2>1 DEF CacheType
    <3>. QED  BY <1>18, <3>1, <3>2 DEF LocalOK
  <2>2. CASE Valid(b) /\ cmd # "ReadReq"
    <3>1. k3 = Invalidate(k2, a)
      BY <1>19, <1>20, <2>2, BusFacts DEF SnoopBlock
    <3>2. LinesOK(k2) /\ Valid(k2.blk[a]) /\ e = NoBlock
      BY <1>1, <1>6, <1>18, <2>2 DEF LocalOK
    <3>. QED  BY <1>18, <3>1, <3>2, InvalidateFacts
  <2>3. CASE Valid(b) /\ cmd = "ReadReq"
    <3>1. k3 = [k2 EXCEPT !.blk[a] = AfterSnoop(k2.blk[a], cmd)]
      BY <1>19, <1>20, <2>3, BusFacts DEF SnoopBlock
    <3>2. AfterSnoop(k2.blk[a], cmd) = e
      BY <1>1, <1>7, <1>18, <2>3, BusFacts DEF AfterSnoop
    <3>3. k3 = [k2 EXCEPT !.blk[a] = e]
      BY <3>1, <3>2
    <3>4. /\ k3 \in CacheType /\ k3.blk = [k2.blk EXCEPT ![a] = e]
          /\ k3.mshr = k2.mshr /\ k3.wb = k2.wb /\ k3.lines = k2.lines
          /\ k3.blocked = k2.blocked /\ k3.noTargetMSHR = k2.noTargetMSHR
          /\ k3.writeBuffers = k2.writeBuffers /\ k3.unripe = k2.unripe
          /\ k3.readyMiss = k2.readyMiss /\ k3.readyWB = k2.readyWB
      BY <1>6, <1>18, <3>3, SetBlkFacts
    <3>5. \A x \in Addrs : Valid(k3.blk[x]) <=> Valid(k2.blk[x])
      <4>1. k3.blk[a] = e /\ \A x \in Addrs : x # a => k3.blk[x] = k2.blk[x]
        BY <1>18, <3>4 DEF CacheType
      <4>. QED  BY <1>1, <1>6, <1>18, <2>3, <4>1
    <3>6. LinesOK(k3)
      BY <1>18, <3>4, <3>5, LinesSame DEF LocalOK
    <3>. QED  BY <1>18, <3>4, <3>6
  <2>. QED  BY <2>1, <2>2, <2>3
<1>23. LocalOK(k3)
  <2>1. CauseOK(k3)
    BY <1>18, <1>22, CauseKept DEF LocalOK
  <2>2. k3.blk[a] = e /\ \A x \in Addrs : x # a => k3.blk[x] = k2.blk[x]
    BY <1>18, <1>22 DEF CacheType
  <2>3. ASSUME NEW x \in Addrs PROVE LineOK(k3.blk[x], k3.mshr[x]) /\ QueueOK(k3, x)
    <3>1. QueueOK(k2, x) /\ LineOK(k2.blk[x], k2.mshr[x])
      BY <1>18 DEF LocalOK
    <3>2. QueueOK(k3, x)
      <4>1. Pending(k3, x) <=> Pending(k2, x)
        BY <1>18, <1>22 DEF Pending
      <4>. QED  BY <1>18, <1>22, <3>1, <4>1, QueueSame
    <3>. QED  BY <1>6, <1>11, <1>18, <1>22, <2>2, <3>1, <3>2
  <2>. QED  BY <1>22, <2>1, <2>3 DEF LocalOK
<1>24. s = SnoopNow(k, a, cmd)
  BY DEF RecvTimingSnoopReq, Sent
<1>25. PICK ans : ans = w.answers \cup Supply(b, cmd)
  OBVIOUS
<1>26. /\ s.k = k3 /\ s.answers = ans /\ s.inhibit = (ans # {})
       /\ s.shared = (cmd = "ReadReq" /\ (a \in ValidIn(k) \/ k.wb[a] # NoWB))
  BY <1>1, <1>9, <1>14, <1>15, <1>19, <1>24, <1>25 DEF SnoopNow
<1>27. Dirty(b) => Valid(b) /\ k.wb[a] = NoWB
  BY <1>1, <1>3 DEF BlockOK, Dirty, Valid
<1>28. Supply(b, cmd) = IF Dirty(b) THEN {Answer(Response(cmd), b.data, cmd = "ReadReq", TRUE)} ELSE {}
  BY DEF Supply, Dirty
<1>29. ans = IF Dirty(b) \/ k.wb[a] # NoWB
             THEN {Answer(Response(cmd), IF Dirty(b) THEN b.data ELSE k.wb[a].data, cmd = "ReadReq", TRUE)}
             ELSE {}
  BY <1>17, <1>25, <1>27, <1>28
<1>30. s.shared <=> cmd = "ReadReq" /\ (Valid(b) \/ k.wb[a] # NoWB)
  BY <1>1, <1>26 DEF ValidIn, Valid
<1>31. s.inhibit <=> Dirty(b) \/ k.wb[a] # NoWB
  BY <1>26, <1>29
<1>32. /\ s.k.readyMiss = k.readyMiss
       /\ s.k.unripe = IF k.wb[a] # NoWB /\ cmd # "ReadReq"
                       THEN RemoveFirst(k.unripe, Token("wb", a)) ELSE k.unripe
  <2>1. CASE k.wb[a] # NoWB /\ cmd # "ReadReq"
    <3>1. k2.unripe = RemoveFirst(k1.unripe, Token("wb", a)) /\ k2.readyMiss = k1.readyMiss
      BY <1>10, <1>16, <2>1, ReleaseFacts
    <3>. QED  BY <1>10, <1>22, <1>26, <2>1, <3>1
  <2>2. CASE ~(k.wb[a] # NoWB /\ cmd # "ReadReq")
    BY <1>10, <1>16, <1>22, <1>26, <2>2
  <2>. QED  BY <2>1, <2>2
<1>. QED  BY <1>1, <1>2, <1>4, <1>5, <1>10, <1>18, <1>22, <1>23, <1>26, <1>29, <1>30, <1>31, <1>32
          DEF SnoopNowResult

-----------------------------------------------------------------------------
(* Responses.                                                              *)

(* satisfyCpuSideRequest(). *)
LEMMA SatisfyFacts ==
  ASSUME NEW b \in BlockType, BlockOK(b), Valid(b), NEW cmd \in CpuCommands \cup {"StoreCondFailReq"},
         NEW req \in Requests, NEW e, e = SatisfyCpuSideRequest(b, cmd, req)
  PROVE  /\ e \in BlockType /\ BlockOK(e)
         /\ e.data = b.data \/ e.data = b.data + 1
         /\ cmd = "WriteReq" => e.data = b.data + 1
         /\ ~NeedsExclusive(cmd) => e.status = b.status /\ e.data = b.data
         /\ NeedsExclusive(cmd) => e.status = b.status \cup {"D"}
<1>0. /\ b.locks \subseteq LockType /\ b.data \in Nat
      /\ req.context \in Contexts /\ req.low \in Nat /\ req.high \in Nat
  BY RequestAssumption DEF BlockType
<1>1. CASE cmd = "ReadReq"
  BY <1>1 DEF SatisfyCpuSideRequest, NeedsExclusive
<1>2. CASE cmd = "LoadLockedReq"
  <2>1. PICK new : new = [context |-> req.context, low |-> req.low, high |-> req.high,
                         version |-> b.data]
    OBVIOUS
  <2>2. e = [b EXCEPT !.locks = @ \cup {new}]
    BY <1>2, <2>1 DEF SatisfyCpuSideRequest, TrackLoadLocked
  <2>3. new \in LockType /\ new.version = b.data
    BY <1>0, <2>1 DEF LockType
  <2>4. /\ e \in BlockType /\ e.status = b.status /\ e.data = b.data
        /\ e.locks = b.locks \cup {new}
    BY <1>0, <2>2, <2>3 DEF BlockType
  <2>5. BlockOK(e)
    BY <2>3, <2>4 DEF BlockOK, Valid
  <2>. QED  BY <1>2, <2>4, <2>5 DEF NeedsExclusive
<1>3. CASE cmd \notin {"ReadReq", "LoadLockedReq"}
  <2>1. PICK writes : writes = IF IsLLSC(cmd) => \E lock \in b.locks : MatchesContext(lock, req)
                               THEN 1 ELSE 0
    OBVIOUS
  <2>2. writes \in {0, 1} /\ (cmd = "WriteReq" => writes = 1)
    BY <2>1 DEF IsLLSC
  <2>3. e = [status |-> b.status \cup {"D"}, data |-> b.data + writes,
             locks |-> {Spared(lock, req, writes) :
                          lock \in {x \in b.locks : ~Overlapping(x, req)}}]
    BY <1>3, <2>1 DEF SatisfyCpuSideRequest, WriteTo
  <2>4. ASSUME NEW lock \in b.locks, ~Overlapping(lock, req)
        PROVE  Spared(lock, req, writes) \in LockType
               /\ Spared(lock, req, writes).version = b.data + writes
    <3>1. lock \in LockType /\ lock.version = b.data
      BY <1>0 DEF BlockOK
    <3>2. lock.low \in Nat /\ lock.high \in Nat /\ lock.version \in Nat
      BY <3>1 DEF LockType
    <3>3. Bytes(lock) \cap Bytes(req) = {}
      BY <1>0, <2>4, <3>2 DEF Overlapping, Bytes
    <3>4. Spared(lock, req, writes) = [lock EXCEPT !.version = @ + writes]
      BY <3>3 DEF Spared
    <3>. QED  BY <2>2, <3>1, <3>2, <3>4 DEF LockType
  <2>5. e.locks \subseteq LockType /\ \A lock \in e.locks : lock.version = b.data + writes
    BY <2>3, <2>4
  <2>6. /\ e \in BlockType /\ e.status = b.status \cup {"D"}
        /\ e.data = b.data + writes
    BY <1>0, <2>2, <2>3, <2>5 DEF BlockType
  <2>7. BlockOK(e)
    BY <2>5, <2>6 DEF BlockOK, Valid
  <2>. QED  BY <1>0, <1>3, <2>2, <2>6, <2>7 DEF NeedsExclusive
<1>. QED  BY <1>1, <1>2, <1>3

(* An access that hits. *)
HitResult(kk, k, a, e, cmd) ==
  /\ kk \in CacheType /\ LocalOK(kk) /\ e \in BlockType
  /\ kk.mshr = k.mshr /\ kk.wb = k.wb /\ kk.blk = [k.blk EXCEPT ![a] = e]
  /\ k.mshr[a] = NoMSHR /\ Valid(k.blk[a]) /\ Valid(e)
  /\ e.data = k.blk[a].data \/ e.data = k.blk[a].data + 1
  /\ ~NeedsExclusive(cmd) => e.status = k.blk[a].status /\ e.data = k.blk[a].data
  /\ NeedsExclusive(cmd) => Writable(k.blk[a]) /\ Dirty(e)

LEMMA HitLocal ==
  ASSUME NEW k \in CacheType, LocalOK(k), NEW a \in Addrs, NEW cmd \in CpuCommands, NEW req \in Requests,
         Hit(k, cmd, a), NEW e, e = SatisfyCpuSideRequest(k.blk[a], cmd, req),
         NEW kk, kk = [k EXCEPT !.blk[a] = e]
  PROVE  HitResult(kk, k, a, e, cmd)
<1>1. PICK b : b = k.blk[a]
  OBVIOUS
<1>2. b \in BlockType /\ LineOK(b, k.mshr[a]) /\ BlockOK(b)
  BY <1>1 DEF LocalOK, CacheType, LineOK
<1>3. "R" \in b.status /\ Valid(b) /\ k.mshr[a] = NoMSHR /\ (NeedsExclusive(cmd) => Writable(b))
  BY <1>1, <1>2 DEF Hit, BlockOK, LineOK, Valid, Writable
<1>4. /\ e \in BlockType /\ BlockOK(e)
      /\ e.data = b.data \/ e.data = b.data + 1
      /\ ~NeedsExclusive(cmd) => e.status = b.status /\ e.data = b.data
      /\ NeedsExclusive(cmd) => e.status = b.status \cup {"D"}
  BY <1>1, <1>2, <1>3, SatisfyFacts
<1>5. "R" \in e.status /\ Valid(e) /\ (NeedsExclusive(cmd) => Dirty(e))
  BY <1>3, <1>4 DEF Valid, Dirty
<1>6. /\ kk \in CacheType /\ kk.blk = [k.blk EXCEPT ![a] = e]
      /\ kk.mshr = k.mshr /\ kk.wb = k.wb /\ kk.lines = k.lines
      /\ kk.blocked = k.blocked /\ kk.noTargetMSHR = k.noTargetMSHR
      /\ kk.writeBuffers = k.writeBuffers /\ kk.unripe = k.unripe
      /\ kk.readyMiss = k.readyMiss /\ kk.readyWB = k.readyWB
  BY <1>4, SetBlkFacts
<1>7. kk.blk[a] = e /\ \A x \in Addrs : x # a => kk.blk[x] = k.blk[x]
  BY <1>6 DEF CacheType
<1>8. CauseOK(kk) /\ LinesOK(kk)
  <2>1. \A x \in Addrs : Valid(kk.blk[x]) <=> Valid(k.blk[x])
    BY <1>1, <1>3, <1>5, <1>7
  <2>. QED  BY <1>6, <2>1, LocalKept
<1>9. ASSUME NEW x \in Addrs PROVE LineOK(kk.blk[x], kk.mshr[x]) /\ QueueOK(kk, x)
  <2>1. QueueOK(k, x) /\ LineOK(k.blk[x], k.mshr[x])
    BY DEF LocalOK
  <2>2. Pending(kk, x) <=> Pending(k, x)
    BY <1>6 DEF Pending
  <2>3. QueueOK(kk, x)
    <3>1. /\ kk.wb[x] # NoWB <=> k.wb[x] # NoWB
          /\ k.mshr[x] # NoMSHR /\ k.mshr[x].deferred # << >> =>
               kk.mshr[x] # NoMSHR /\ kk.mshr[x].deferred # << >>
      BY <1>6
    <3>. QED  BY <1>6, <2>1, <2>2, <3>1, QueueSame, ZenonT(60)
  <2>4. LineOK(e, NoMSHR)
    BY <1>4, <1>5 DEF LineOK
  <2>. QED  BY <1>3, <1>6, <1>7, <2>1, <2>3, <2>4
<1>10. LocalOK(kk)
  BY <1>8, <1>9 DEF LocalOK
<1>. QED  BY <1>1, <1>3, <1>4, <1>5, <1>6, <1>10 DEF HitResult

(* What the loop over the targets begins with, and its states. *)
Unserved(b) == [blk |-> b, done |-> {}, writes |-> 0, answers |-> {}, fits |-> TRUE]

Serves(g, b, m, n) ==
  g = [i \in 0 .. n |-> IF i = 0 THEN Unserved(b) ELSE ServeTarget(g[i - 1], m.targets[i], m)]

LEMMA ServesExists ==
  ASSUME NEW b, NEW m, NEW n \in Nat
  PROVE  \E g : Serves(g, b, m, n)
<1>. DEFINE Not == {i \in Nat : ~\E g : Serves(g, b, m, i)}
<1>1. SUFFICES ASSUME Not # {} PROVE FALSE
  OBVIOUS
<1>2. PICK z : z = Min(Not)
  OBVIOUS
<1>3. z \in Not /\ \A y \in Not : z <= y
  BY <1>1, <1>2, MinFacts
<1>4. CASE z = 0
  <2>1. PICK g : g = [i \in 0 .. 0 |-> Unserved(b)]
    OBVIOUS
  <2>2. Serves(g, b, m, 0)
    BY <2>1 DEF Serves
  <2>. QED  BY <1>3, <1>4, <2>2
<1>5. CASE z # 0
  <2>1. z \in Nat /\ z - 1 \in Nat /\ z - 1 \notin Not
    BY <1>3, <1>5
  <2>2. PICK h : Serves(h, b, m, z - 1)
    BY <2>1
  <2>3. /\ h[0] = Unserved(b)
        /\ \A i \in 1 .. z - 1 : h[i] = ServeTarget(h[i - 1], m.targets[i], m)
    BY <2>1, <2>2 DEF Serves
  <2>4. PICK last : last = ServeTarget(h[z - 1], m.targets[z], m)
    OBVIOUS
  <2>5. PICK g : g = [i \in 0 .. z |-> IF i = z THEN last ELSE h[i]]
    OBVIOUS
  <2>6. g[z] = last /\ \A i \in 0 .. z - 1 : g[i] = h[i]
    BY <2>1, <2>5
  <2>7. /\ g[0] = Unserved(b)
        /\ \A i \in 1 .. z : g[i] = ServeTarget(g[i - 1], m.targets[i], m)
    <3>1. g[0] = Unserved(b)
      BY <2>1, <2>3, <2>6
    <3>2. ASSUME NEW i \in 1 .. z PROVE g[i] = ServeTarget(g[i - 1], m.targets[i], m)
      <4>1. g[i - 1] = h[i - 1]
        BY <2>1, <2>6
      <4>2. CASE i = z
        BY <2>4, <2>6, <4>1, <4>2
      <4>3. CASE i # z
        <5>1. i \in 1 .. z - 1 /\ i \in 0 .. z - 1
          BY <2>1, <4>3
        <5>. QED  BY <2>3, <2>6, <4>1, <5>1
      <4>. QED  BY <4>2, <4>3
    <3>. QED  BY <3>1, <3>2
  <2>8. \A i \in 0 .. z : i = 0 \/ i \in 1 .. z
    BY <2>1
  <2>9. Serves(g, b, m, z)
    <3>1. \A i \in 0 .. z : g[i] = IF i = 0 THEN Unserved(b) ELSE ServeTarget(g[i - 1], m.targets[i], m)
      BY <2>7, <2>8
    <3>2. g = [i \in 0 .. z |-> g[i]]
      BY <2>5
    <3>. QED  BY <3>1, <3>2 DEF Serves
  <2>. QED  BY <1>3, <2>9
<1>. QED  BY <1>4, <1>5

LEMMA ServeLoop ==
  ASSUME NEW b, NEW m, Len(m.targets) \in Nat
  PROVE  \E g : /\ g[0] = Unserved(b)
                /\ \A i \in 1 .. Len(m.targets) : g[i] = ServeTarget(g[i - 1], m.targets[i], m)
                /\ ServeTargets(b, m) = g[Len(m.targets)]
<1>1. PICK g : g = CHOOSE f : Serves(f, b, m, Len(m.targets))
  OBVIOUS
<1>2. Serves(g, b, m, Len(m.targets))
  BY <1>1, ServesExists, Zenon
<1>3. ServeTargets(b, m) = g[Len(m.targets)]
  BY <1>1, Zenon DEF ServeTargets, Serves, Unserved
<1>4. /\ g[0] = Unserved(b)
      /\ \A i \in 1 .. Len(m.targets) : g[i] = ServeTarget(g[i - 1], m.targets[i], m)
  <2>1. PICK n \in Nat : n = Len(m.targets)
    OBVIOUS
  <2>2. Serves(g, b, m, n)
    BY <1>2, <2>1
  <2>3. /\ g[0] = Unserved(b)
        /\ \A i \in 1 .. n : g[i] = ServeTarget(g[i - 1], m.targets[i], m)
    BY <2>2 DEF Serves
  <2>. QED  BY <2>1, <2>3
<1>. QED  BY <1>3, <1>4

(* The targets are in an order the loop can serve: an invalidation comes   *)
(* last, writes come before snoops.                                        *)
Orderly(m) ==
  /\ m.targets \in Seq(TargetType)
  /\ \A i \in 1 .. Len(m.targets) :
       /\ ~Cpu(m.targets[i]) /\ m.targets[i].cmd # "ReadReq" => i = Len(m.targets)
       /\ Exclusive(m.targets[i]) => \A j \in 1 .. i - 1 : Cpu(m.targets[j])

(* The answer to a deferred snoop. *)
LateResp(m, cmd, data) ==
  Answer(IF m.postInvalidate /\ cmd = "ReadReq" THEN "ReadRespWithInvalidate" ELSE Response(cmd),
         data, cmd = "ReadReq", TRUE)

Late(m, t, data) == [to |-> t.who, answer |-> LateResp(m, t.cmd, data)]

(* When i targets have been served: the processor has written; the block   *)
(* is gone if the last one was an invalidation; snoops that came after a   *)
(* write have been answered.                                               *)
Written(m, i) == \E j \in 1 .. i : Exclusive(m.targets[j])
Gone(m, i) == i # 0 /\ ~Cpu(m.targets[i]) /\ m.targets[i].cmd # "ReadReq"

ServedBlk(w, b, m, i) ==
  /\ w.blk \in BlockType /\ w.writes \in Nat /\ w.fits
  /\ w.writes # 0 => Written(m, i)
  /\ Gone(m, i) => w.blk = NoBlock
  /\ ~Gone(m, i) => /\ BlockOK(w.blk) /\ "R" \in w.blk.status /\ Valid(w.blk)
                    /\ w.blk.data = b.data + w.writes
                    /\ Dirty(w.blk) <=> Dirty(b) \/ Written(m, i)
                    /\ Writable(w.blk) <=> Writable(b) /\ \A j \in 1 .. i : Cpu(m.targets[j])

ServedDone(w, b, m, i) ==
  /\ \A d \in w.done : \E j \in 1 .. i :
       /\ Cpu(m.targets[j]) /\ d.op = m.targets[j].who /\ d.version \in Nat /\ d.version >= b.data
       /\ m.targets[j].cmd = "WriteReq" => d.version > b.data
  /\ \A j \in 1 .. i : Cpu(m.targets[j]) => \E d \in w.done : d.op = m.targets[j].who

ServedAnswers(w, b, m, i) ==
  /\ \A x \in w.answers : \E j \in 1 .. i :
       /\ ~Cpu(m.targets[j]) /\ x = Late(m, m.targets[j], b.data + w.writes)
       /\ Dirty(b) \/ Written(m, i)
  /\ \A j \in 1 .. i : ~Cpu(m.targets[j]) /\ (Dirty(b) \/ Written(m, j)) =>
       Late(m, m.targets[j], b.data + w.writes) \in w.answers

(* A target of the processor. *)
LEMMA ServeCpu ==
  ASSUME NEW b \in BlockType, NEW m, Orderly(m), NEW i \in 1 .. Len(m.targets), Cpu(m.targets[i]),
         NEW w, ServedBlk(w, b, m, i - 1), ServedDone(w, b, m, i - 1), ServedAnswers(w, b, m, i - 1),
         NEW v, v = ServeTarget(w, m.targets[i], m)
  PROVE  ServedBlk(v, b, m, i) /\ ServedDone(v, b, m, i) /\ ServedAnswers(v, b, m, i)
<1>1. PICK t : t = m.targets[i]
  OBVIOUS
<1>2. /\ t \in TargetType /\ t.source = "cpu" /\ i \in Nat /\ i - 1 \in Nat /\ Len(m.targets) \in Nat
      /\ i <= Len(m.targets)
  BY <1>1 DEF Orderly, Cpu
<1>3. t.who \in Ops /\ t.req \in Requests /\ t.cmd \in CpuCommands \cup {"StoreCondFailReq"}
  BY <1>2, TargetFacts
<1>4. ~Gone(m, i - 1) /\ ~Gone(m, i)
  <2>1. i - 1 # 0 => i - 1 \in 1 .. Len(m.targets) /\ i - 1 # Len(m.targets)
    BY <1>2
  <2>. QED  BY <1>2, <2>1 DEF Gone, Orderly
<1>5. /\ w.blk \in BlockType /\ w.writes \in Nat /\ w.fits /\ BlockOK(w.blk) /\ "R" \in w.blk.status
      /\ Valid(w.blk) /\ w.blk.data = b.data + w.writes
      /\ Dirty(w.blk) <=> Dirty(b) \/ Written(m, i - 1)
      /\ Writable(w.blk) <=> Writable(b) /\ \A j \in 1 .. i - 1 : Cpu(m.targets[j])
      /\ w.writes # 0 => Written(m, i - 1)
  BY <1>4 DEF ServedBlk
<1>6. PICK e : e = SatisfyCpuSideRequest(w.blk, t.cmd, t.req)
  OBVIOUS
<1>7. /\ e \in BlockType /\ BlockOK(e)
      /\ e.data = w.blk.data \/ e.data = w.blk.data + 1
      /\ t.cmd = "WriteReq" => e.data = w.blk.data + 1
      /\ ~NeedsExclusive(t.cmd) => e.status = w.blk.status /\ e.data = w.blk.data
      /\ NeedsExclusive(t.cmd) => e.status = w.blk.status \cup {"D"}
  BY <1>3, <1>5, <1>6, SatisfyFacts
<1>8. /\ v.blk = e /\ v.done = w.done \cup {[op |-> t.who, version |-> e.data]}
      /\ v.writes = w.writes + (e.data - w.blk.data) /\ v.answers = w.answers
      /\ v.fits = (w.fits /\ "V" \in w.blk.status)
  BY <1>1, <1>2, <1>6 DEF ServeTarget
<1>9. b.data \in Nat /\ w.blk.data \in Nat /\ e.data \in Nat
  BY <1>5, <1>7 DEF BlockType
<1>10. \A j \in 1 .. i : j \in 1 .. i - 1 \/ j = i
  BY <1>2
<1>11. \A j \in 1 .. i - 1 : j \in 1 .. i
  BY <1>2
<1>12. Exclusive(t) <=> NeedsExclusive(t.cmd)
  BY <1>2 DEF Exclusive, Cpu
<1>13. Written(m, i) <=> Written(m, i - 1) \/ NeedsExclusive(t.cmd)
  BY <1>1, <1>2, <1>10, <1>11, <1>12 DEF Written
<1>14. v.writes \in Nat /\ e.data = b.data + v.writes /\ v.writes >= w.writes
  BY <1>5, <1>7, <1>8, <1>9
<1>15. ServedBlk(v, b, m, i)
  <2>1. "R" \in e.status /\ Valid(e) /\ (Writable(e) <=> Writable(w.blk))
    BY <1>5, <1>7 DEF Valid, Writable
  <2>2. Dirty(e) <=> Dirty(w.blk) \/ NeedsExclusive(t.cmd)
    BY <1>7 DEF Dirty
  <2>3. v.writes # 0 => Written(m, i)
    <3>1. v.writes # 0 => w.writes # 0 \/ NeedsExclusive(t.cmd)
      BY <1>5, <1>7, <1>8, <1>9
    <3>. QED  BY <1>5, <1>13, <3>1
  <2>4. Writable(e) <=> Writable(b) /\ \A j \in 1 .. i : Cpu(m.targets[j])
    BY <1>5, <1>10, <1>11, <2>1
  <2>5. Dirty(e) <=> Dirty(b) \/ Written(m, i)
    BY <1>5, <1>13, <2>2
  <2>6. v.fits
    BY <1>5, <1>8 DEF Valid
  <2>. QED  BY <1>4, <1>7, <1>8, <1>14, <2>1, <2>3, <2>4, <2>5, <2>6 DEF ServedBlk
<1>16. ServedDone(v, b, m, i)
  <2>1. PICK n : n = [op |-> t.who, version |-> e.data]
    OBVIOUS
  <2>2. /\ n.op = t.who /\ n.version \in Nat /\ n.version >= b.data
        /\ t.cmd = "WriteReq" => n.version > b.data
    BY <1>5, <1>7, <1>9, <1>14, <2>1
  <2>3. \A d \in v.done : d \in w.done \/ d = n
    BY <1>8, <2>1
  <2>4. w.done \subseteq v.done /\ n \in v.done
    BY <1>8, <2>1
  <2>5. ASSUME NEW d \in v.done
        PROVE  \E j \in 1 .. i :
                 /\ Cpu(m.targets[j]) /\ d.op = m.targets[j].who /\ d.version \in Nat /\ d.version >= b.data
                 /\ m.targets[j].cmd = "WriteReq" => d.version > b.data
    <3>1. CASE d \in w.done
      BY <1>11, <3>1 DEF ServedDone
    <3>2. CASE d = n
      BY <1>1, <1>2, <2>2, <3>2
    <3>. QED  BY <2>3, <3>1, <3>2
  <2>6. ASSUME NEW j \in 1 .. i, Cpu(m.targets[j]) PROVE \E d \in v.done : d.op = m.targets[j].who
    <3>1. CASE j = i
      BY <1>1, <2>2, <2>4, <3>1
    <3>2. CASE j \in 1 .. i - 1
      BY <2>4, <2>6, <3>2 DEF ServedDone
    <3>. QED  BY <1>10, <3>1, <3>2
  <2>. QED  BY <2>5, <2>6 DEF ServedDone
<1>17. ServedAnswers(v, b, m, i)
  <2>1. (\E j \in 1 .. i - 1 : ~Cpu(m.targets[j])) => v.writes = w.writes
    <3>1. (\E j \in 1 .. i - 1 : ~Cpu(m.targets[j])) => ~Exclusive(t)
      BY <1>1 DEF Orderly
    <3>2. ~NeedsExclusive(t.cmd) => v.writes = w.writes
      BY <1>5, <1>7, <1>8, <1>9
    <3>. QED  BY <1>12, <3>1, <3>2
  <2>2. ASSUME NEW x \in v.answers
        PROVE  \E j \in 1 .. i :
                 /\ ~Cpu(m.targets[j]) /\ x = Late(m, m.targets[j], b.data + v.writes)
                 /\ Dirty(b) \/ Written(m, i)
    <3>1. PICK j \in 1 .. i - 1 :
            /\ ~Cpu(m.targets[j]) /\ x = Late(m, m.targets[j], b.data + w.writes)
            /\ Dirty(b) \/ Written(m, i - 1)
      BY <1>8 DEF ServedAnswers
    <3>2. v.writes = w.writes /\ j \in 1 .. i
      BY <1>11, <2>1, <3>1
    <3>. QED  BY <1>13, <3>1, <3>2
  <2>3. ASSUME NEW j \in 1 .. i, ~Cpu(m.targets[j]), Dirty(b) \/ Written(m, j)
        PROVE  Late(m, m.targets[j], b.data + v.writes) \in v.answers
    <3>1. j \in 1 .. i - 1
      BY <1>10, <2>3
    <3>2. v.writes = w.writes
      BY <2>1, <2>3, <3>1
    <3>. QED  BY <1>8, <2>3, <3>1, <3>2 DEF ServedAnswers
  <2>. QED  BY <2>2, <2>3 DEF ServedAnswers
<1>. QED  BY <1>15, <1>16, <1>17

(* A deferred snoop. *)
LEMMA ServeSnoop ==
  ASSUME NEW b \in BlockType, NEW m, m.postInvalidate \in BOOLEAN, Orderly(m),
         NEW i \in 1 .. Len(m.targets), ~Cpu(m.targets[i]),
         NEW w, ServedBlk(w, b, m, i - 1), ServedDone(w, b, m, i - 1), ServedAnswers(w, b, m, i - 1),
         NEW v, v = ServeTarget(w, m.targets[i], m)
  PROVE  ServedBlk(v, b, m, i) /\ ServedDone(v, b, m, i) /\ ServedAnswers(v, b, m, i)
<1>1. PICK t : t = m.targets[i]
  OBVIOUS
<1>2. /\ t \in TargetType /\ t.source # "cpu" /\ i \in Nat /\ i - 1 \in Nat /\ Len(m.targets) \in Nat
      /\ i <= Len(m.targets) /\ ~Cpu(t)
  BY <1>1 DEF Orderly, Cpu
<1>3. t.who \in Caches /\ t.cmd \in BusCommands
  BY <1>2, TargetFacts
<1>4. ~Gone(m, i - 1) /\ (Gone(m, i) <=> t.cmd # "ReadReq")
  <2>1. i - 1 # 0 => i - 1 \in 1 .. Len(m.targets) /\ i - 1 # Len(m.targets)
    BY <1>2
  <2>. QED  BY <1>1, <1>2, <2>1 DEF Gone, Orderly
<1>5. /\ w.blk \in BlockType /\ w.writes \in Nat /\ w.fits /\ BlockOK(w.blk) /\ "R" \in w.blk.status
      /\ Valid(w.blk) /\ w.blk.data = b.data + w.writes
      /\ Dirty(w.blk) <=> Dirty(b) \/ Written(m, i - 1)
      /\ Writable(w.blk) <=> Writable(b) /\ \A j \in 1 .. i - 1 : Cpu(m.targets[j])
      /\ w.writes # 0 => Written(m, i - 1)
  BY <1>4 DEF ServedBlk
<1>6. PICK e : e = AfterSnoop(w.blk, t.cmd)
  OBVIOUS
<1>7. /\ t.cmd # "ReadReq" => e = NoBlock
      /\ t.cmd = "ReadReq" => /\ e \in BlockType /\ e.status = w.blk.status \ {"W"}
                              /\ e.data = w.blk.data /\ e.locks = w.blk.locks
  BY <1>3, <1>5, <1>6, BusFacts DEF AfterSnoop, BlockType
<1>8. PICK late : late = Late(m, t, b.data + w.writes)
  OBVIOUS
<1>9. PICK resp : resp = Answer(Response(t.cmd), w.blk.data, t.cmd = "ReadReq", TRUE)
  OBVIOUS
<1>10. /\ v.blk = e /\ v.done = w.done /\ v.writes = w.writes /\ v.fits = w.fits
       /\ v.answers = w.answers \cup {[to |-> t.who,
                        answer |-> IF m.postInvalidate /\ s.cmd = "ReadResp"
                                   THEN [s EXCEPT !.cmd = "ReadRespWithInvalidate"] ELSE s] :
                        s \in Supply(w.blk, t.cmd)}
  <2>1. e = IF "V" \in w.blk.status THEN AfterSnoop(w.blk, t.cmd) ELSE w.blk
    BY <1>5, <1>6 DEF Valid
  <2>2. PICK more : more = {[to |-> t.who,
                        answer |-> IF m.postInvalidate /\ s.cmd = "ReadResp"
                                   THEN [s EXCEPT !.cmd = "ReadRespWithInvalidate"] ELSE s] :
                        s \in Supply(w.blk, t.cmd)}
    OBVIOUS
  <2>3. v = [blk |-> e, done |-> w.done, writes |-> w.writes + 0,
             answers |-> w.answers \cup more,
             fits |-> w.fits /\ (t.source = "cpu" => "V" \in w.blk.status)]
    BY <1>1, <1>2, <2>1, <2>2, Zenon DEF ServeTarget
  <2>4. /\ v.blk = e /\ v.done = w.done /\ v.writes = w.writes + 0
        /\ v.answers = w.answers \cup more
        /\ v.fits = (w.fits /\ (t.source = "cpu" => "V" \in w.blk.status))
    BY <2>3
  <2>5. v.fits = w.fits
    BY <1>2, <1>5, <2>4 DEF Valid
  <2>6. v.writes = w.writes
    BY <1>5, <2>4
  <2>. QED  BY <2>2, <2>4, <2>5, <2>6
<1>11. Supply(w.blk, t.cmd) = IF Dirty(w.blk) THEN {resp} ELSE {}
  BY <1>9 DEF Supply, Dirty
<1>12. late = [to |-> t.who,
               answer |-> IF m.postInvalidate /\ resp.cmd = "ReadResp"
                          THEN [resp EXCEPT !.cmd = "ReadRespWithInvalidate"] ELSE resp]
  <2>1. resp.cmd = "ReadResp" <=> t.cmd = "ReadReq"
    BY <1>3, <1>9, BusFacts DEF Answer
  <2>2. [resp EXCEPT !.cmd = "ReadRespWithInvalidate"] =
          Answer("ReadRespWithInvalidate", w.blk.data, t.cmd = "ReadReq", TRUE)
    <3>1. PICK sh : sh = (t.cmd = "ReadReq")
      OBVIOUS
    <3>2. PICK yes : yes = TRUE
      OBVIOUS
    <3>3. PICK r : r = Response(t.cmd)
      OBVIOUS
    <3>4. [[cmd |-> r, data |-> w.blk.data, shared |-> sh, inhibit |-> yes]
             EXCEPT !.cmd = "ReadRespWithInvalidate"] =
            [cmd |-> "ReadRespWithInvalidate", data |-> w.blk.data, shared |-> sh, inhibit |-> yes]
      OBVIOUS
    <3>. QED  BY <1>9, <3>1, <3>2, <3>3, <3>4, Zenon DEF Answer
  <2>3. late = [to |-> t.who, answer |-> LateResp(m, t.cmd, w.blk.data)]
    BY <1>5, <1>8 DEF Late
  <2>. QED  BY <1>9, <2>1, <2>2, <2>3 DEF LateResp
<1>13. v.answers = w.answers \cup (IF Dirty(w.blk) THEN {late} ELSE {})
  BY <1>10, <1>11, <1>12
<1>14. \A j \in 1 .. i : j \in 1 .. i - 1 \/ j = i
  BY <1>2
<1>15. \A j \in 1 .. i - 1 : j \in 1 .. i
  BY <1>2
<1>16. Written(m, i) <=> Written(m, i - 1)
  BY <1>1, <1>2, <1>14, <1>15 DEF Written, Exclusive
<1>17. ServedBlk(v, b, m, i)
  <2>1. CASE t.cmd # "ReadReq"
    <3>1. e \in BlockType
      BY <1>7, <2>1 DEF NoBlock, BlockType
    <3>. QED  BY <1>4, <1>5, <1>7, <1>10, <1>16, <2>1, <3>1 DEF ServedBlk
  <2>2. CASE t.cmd = "ReadReq"
    <3>1. /\ e \in BlockType /\ e.status = w.blk.status \ {"W"} /\ e.data = w.blk.data
          /\ e.locks = w.blk.locks
      BY <1>7, <2>2
    <3>2. "R" \in e.status /\ Valid(e) /\ (Dirty(e) <=> Dirty(w.blk)) /\ ~Writable(e)
      BY <1>5, <3>1 DEF Valid, Dirty, Writable
    <3>3. BlockOK(e)
      BY <1>5, <3>1, <3>2 DEF BlockOK, Valid
    <3>4. ~\A j \in 1 .. i : Cpu(m.targets[j])
      BY <1>1, <1>2
    <3>. QED  BY <1>4, <1>5, <1>10, <1>16, <2>2, <3>1, <3>2, <3>3, <3>4 DEF ServedBlk
  <2>. QED  BY <2>1, <2>2
<1>18. ServedDone(v, b, m, i)
  <2>1. ASSUME NEW d \in v.done
        PROVE  \E j \in 1 .. i :
                 /\ Cpu(m.targets[j]) /\ d.op = m.targets[j].who /\ d.version \in Nat /\ d.version >= b.data
                 /\ m.targets[j].cmd = "WriteReq" => d.version > b.data
    BY <1>10, <1>15 DEF ServedDone
  <2>2. ASSUME NEW j \in 1 .. i, Cpu(m.targets[j]) PROVE \E d \in v.done : d.op = m.targets[j].who
    <3>1. j \in 1 .. i - 1
      BY <1>14, <2>2
    <3>. QED  BY <1>10, <2>2, <3>1 DEF ServedDone
  <2>. QED  BY <2>1, <2>2 DEF ServedDone
<1>19. ServedAnswers(v, b, m, i)
  <2>1. ASSUME NEW x \in v.answers
        PROVE  \E j \in 1 .. i :
                 /\ ~Cpu(m.targets[j]) /\ x = Late(m, m.targets[j], b.data + v.writes)
                 /\ Dirty(b) \/ Written(m, i)
    <3>1. CASE x \in w.answers
      BY <1>10, <1>15, <1>16, <3>1 DEF ServedAnswers
    <3>2. CASE x \notin w.answers
      <4>1. x = late /\ Dirty(w.blk)
        BY <1>13, <3>2
      <4>. QED  BY <1>1, <1>2, <1>5, <1>8, <1>10, <1>16, <4>1
    <3>. QED  BY <3>1, <3>2
  <2>2. ASSUME NEW j \in 1 .. i, ~Cpu(m.targets[j]), Dirty(b) \/ Written(m, j)
        PROVE  Late(m, m.targets[j], b.data + v.writes) \in v.answers
    <3>1. CASE j \in 1 .. i - 1
      BY <1>10, <2>2, <3>1 DEF ServedAnswers
    <3>2. CASE j = i
      <4>1. Dirty(w.blk)
        BY <1>5, <1>16, <2>2, <3>2
      <4>. QED  BY <1>1, <1>8, <1>10, <1>13, <3>2, <4>1
    <3>. QED  BY <1>14, <3>1, <3>2
  <2>. QED  BY <2>1, <2>2 DEF ServedAnswers
<1>. QED  BY <1>17, <1>18, <1>19

(* The loop over the targets. *)
LEMMA ServeTargetsFacts ==
  ASSUME NEW b \in BlockType, BlockOK(b), "R" \in b.status,
         NEW m, m.postInvalidate \in BOOLEAN, Orderly(m), NEW w, w = ServeTargets(b, m)
  PROVE  /\ ServedBlk(w, b, m, Len(m.targets))
         /\ ServedDone(w, b, m, Len(m.targets))
         /\ ServedAnswers(w, b, m, Len(m.targets))
<1>1. PICK n \in Nat : n = Len(m.targets)
  BY DEF Orderly
<1>2. PICK g : /\ g[0] = Unserved(b)
               /\ \A i \in 1 .. Len(m.targets) : g[i] = ServeTarget(g[i - 1], m.targets[i], m)
               /\ ServeTargets(b, m) = g[Len(m.targets)]
  BY <1>1, ServeLoop
<1>. DEFINE Fine(i) == ServedBlk(g[i], b, m, i) /\ ServedDone(g[i], b, m, i) /\ ServedAnswers(g[i], b, m, i)
            Not == {i \in 0 .. n : ~Fine(i)}
<1>3. Fine(0)
  <2>1. /\ g[0].blk = b /\ g[0].done = {} /\ g[0].writes = 0 /\ g[0].answers = {} /\ g[0].fits = TRUE
    BY <1>2 DEF Unserved
  <2>2. \A j \in 1 .. 0 : FALSE
    OBVIOUS
  <2>3. ~Written(m, 0) /\ ~Gone(m, 0)
    BY <2>2 DEF Written, Gone
  <2>4. Valid(b) /\ b.data \in Nat /\ b.data + 0 = b.data
    BY DEF BlockOK, Valid, BlockType
  <2>5. ServedBlk(g[0], b, m, 0)
    BY <2>1, <2>2, <2>3, <2>4 DEF ServedBlk
  <2>6. ServedDone(g[0], b, m, 0) /\ ServedAnswers(g[0], b, m, 0)
    BY <2>1, <2>2 DEF ServedDone, ServedAnswers
  <2>. QED  BY <2>5, <2>6
<1>4. ASSUME NEW i \in 1 .. n, Fine(i - 1) PROVE Fine(i)
  <2>1. i \in 1 .. Len(m.targets) /\ g[i] = ServeTarget(g[i - 1], m.targets[i], m)
    BY <1>1, <1>2
  <2>2. CASE Cpu(m.targets[i])
    BY <1>4, <2>1, <2>2, ServeCpu
  <2>3. CASE ~Cpu(m.targets[i])
    BY <1>4, <2>1, <2>3, ServeSnoop
  <2>. QED  BY <2>2, <2>3
<1>. HIDE DEF Fine
<1>5. Not = {}
  <2>. SUFFICES ASSUME Not # {} PROVE FALSE
    OBVIOUS
  <2>1. PICK z : z = Min(Not)
    OBVIOUS
  <2>2. z \in Not /\ \A y \in Not : z <= y
    BY <2>1, MinFacts
  <2>3. z # 0
    BY <1>3, <2>2
  <2>4. z \in 1 .. n /\ z - 1 \in 0 .. n /\ z - 1 \notin Not
    BY <2>2, <2>3
  <2>5. Fine(z - 1)
    BY <2>4
  <2>6. Fine(z)
    BY <1>4, <2>4, <2>5
  <2>. QED  BY <2>2, <2>6
<1>6. Fine(n)
  BY <1>5
<1>. QED  BY <1>1, <1>2, <1>6 DEF Fine

(* splice() of a list to the end of another. *)
LEMMA ConcatFacts ==
  ASSUME NEW s \in Seq(TargetType), NEW t \in Seq(TargetType)
  PROVE  LET u == s \o t IN
         /\ u \in Seq(TargetType) /\ Len(u) \in Nat
         /\ s # << >> => u # << >> /\ Len(u) # 0
         /\ \A i \in 1 .. Len(s) : i \in 1 .. Len(u) /\ u[i] = s[i]
         /\ \A i \in 1 .. Len(u) : On(s, u[i]) \/ On(t, u[i])
         /\ \A i \in 1 .. Len(t) : On(u, t[i])
<1>1. PICK p \in Nat, q \in Nat : p = Len(s) /\ q = Len(t)
  OBVIOUS
<1>. DEFINE u == s \o t
<1>2. /\ u \in Seq(TargetType) /\ Len(u) = p + q
      /\ \A i \in 1 .. p : u[i] = s[i]
      /\ \A i \in 1 .. p + q : u[i] = IF i <= p THEN s[i] ELSE t[i - p]
  BY <1>1
<1>. HIDE DEF u
<1>3. s # << >> => p # 0
  BY <1>1
<1>4. \A i \in 1 .. q : p + i \in 1 .. p + q /\ u[p + i] = t[i]
  <2>. SUFFICES ASSUME NEW i \in 1 .. q PROVE p + i \in 1 .. p + q /\ u[p + i] = t[i]
    OBVIOUS
  <2>1. p + i \in 1 .. p + q /\ ~(p + i <= p) /\ (p + i) - p = i
    OBVIOUS
  <2>. QED  BY <1>2, <2>1
<1>5. \A i \in 1 .. p + q : i \in 1 .. p \/ i - p \in 1 .. q
  OBVIOUS
<1>6. \A i \in 1 .. p + q : On(s, u[i]) \/ On(t, u[i])
  <2>. SUFFICES ASSUME NEW i \in 1 .. p + q PROVE On(s, u[i]) \/ On(t, u[i])
    OBVIOUS
  <2>1. CASE i <= p
    <3>1. i \in 1 .. p /\ u[i] = s[i]
      BY <1>2, <2>1
    <3>. QED  BY <1>1, <3>1 DEF On
  <2>2. CASE ~(i <= p)
    <3>1. i - p \in 1 .. q /\ u[i] = t[i - p]
      BY <1>2, <2>2
    <3>. QED  BY <1>1, <3>1 DEF On
  <2>. QED  BY <2>1, <2>2
<1>7. \A i \in 1 .. q : On(u, t[i])
  BY <1>2, <1>4 DEF On
<1>8. \A i \in 1 .. p : i \in 1 .. p + q
  OBVIOUS
<1>9. p # 0 => p + q # 0
  OBVIOUS
<1>10. u # << >> <=> Len(u) # 0
  BY <1>2
<1>11. /\ u \in Seq(TargetType) /\ Len(u) \in Nat
       /\ s # << >> => u # << >> /\ Len(u) # 0
       /\ \A i \in 1 .. Len(s) : i \in 1 .. Len(u) /\ u[i] = s[i]
       /\ \A i \in 1 .. Len(u) : On(s, u[i]) \/ On(t, u[i])
       /\ \A i \in 1 .. Len(t) : On(u, t[i])
  BY <1>1, <1>2, <1>3, <1>6, <1>7, <1>8, <1>9, <1>10
<1>. QED  BY <1>11 DEF u

(* MSHR::handleFill(): targets are only added to a request that reads and  *)
(* has seen no snoop.                                                      *)
LEMMA HandleFillFacts ==
  ASSUME NEW m \in MSHRType, MSHROK(m), m.inService, NEW r, NEW n, n = MSHRHandleFill(m, r)
  PROVE  /\ n \in MSHRType /\ Orderly(n)
         /\ n.postInvalidate = m.postInvalidate /\ n.postDowngrade = m.postDowngrade
         /\ n.targets # << >>
         /\ \A i \in 1 .. Len(m.targets) : i \in 1 .. Len(n.targets) /\ n.targets[i] = m.targets[i]
         /\ \A i \in 1 .. Len(n.targets) : On(m.targets, n.targets[i]) \/ On(m.deferred, n.targets[i])
         /\ \A i \in 1 .. Len(m.deferred) : On(n.targets, m.deferred[i]) \/ On(n.deferred, m.deferred[i])
         /\ \A i \in 1 .. Len(n.targets) : ~Cpu(n.targets[i]) => n = m
         /\ Gone(n, Len(n.targets)) <=> m.postInvalidate
         /\ n # m => /\ ~m.pendingDirty /\ ~m.postInvalidate /\ ~m.postDowngrade /\ ~r.shared
                     /\ n.deferred = << >> /\ ~ListNeedsExclusive(m.targets)
         /\ n = m /\ m.deferred # << >> => m.postInvalidate \/ m.postDowngrade \/ r.shared
<1>1. /\ m.targets \in Seq(TargetType) /\ m.deferred \in Seq(TargetType) /\ SentOK(m)
      /\ m.targets # << >> /\ Cpu(m.targets[1])
      /\ \A i \in 1 .. Len(m.deferred) : Cpu(m.deferred[i])
      /\ Len(m.targets) \in Nat /\ Len(m.deferred) \in Nat
  BY DEF MSHROK, MSHRType
<1>2. Len(m.targets) # 0
  BY <1>1
<1>3. PICK more : more = (/\ ~r.shared /\ ~m.postInvalidate /\ ~m.postDowngrade
                          /\ ListNeedsExclusive(m.deferred))
  OBVIOUS
<1>4. n = IF more THEN [m EXCEPT !.targets = @ \o m.deferred, !.deferred = << >>] ELSE m
  BY <1>3 DEF MSHRHandleFill
<1>5. CASE ~more
  <2>1. n = m
    BY <1>4, <1>5
  <2>2. Orderly(m)
    BY <1>1 DEF SentOK, TargetOK, Orderly
  <2>3. Gone(m, Len(m.targets)) <=> m.postInvalidate
    BY <1>1, <1>2 DEF SentOK, TargetOK, Gone
  <2>4. m.deferred # << >> => m.postInvalidate \/ m.postDowngrade \/ r.shared
    BY <1>1, <1>3, <1>5 DEF SentOK
  <2>5. \A i \in 1 .. Len(m.targets) : On(m.targets, m.targets[i])
    BY DEF On
  <2>6. \A i \in 1 .. Len(m.deferred) : On(m.deferred, m.deferred[i])
    BY DEF On
  <2>. QED  BY <1>1, <2>1, <2>2, <2>3, <2>4, <2>5, <2>6
<1>6. CASE more
  <2>1. ~r.shared /\ ~m.postInvalidate /\ ~m.postDowngrade /\ ListNeedsExclusive(m.deferred)
    BY <1>3, <1>6
  <2>2. m.deferred # << >>
    BY <2>1 DEF ListNeedsExclusive
  <2>3. ~m.pendingDirty
    BY <1>1, <2>1, <2>2 DEF SentOK
  <2>4. \A i \in 1 .. Len(m.targets) : Cpu(m.targets[i]) /\ ~Exclusive(m.targets[i])
    BY <1>1, <2>1, <2>3 DEF SentOK, TargetOK
  <2>5. ~ListNeedsExclusive(m.targets)
    BY <1>1, <2>4 DEF ListNeedsExclusive, Exclusive, Cpu
  <2>6. PICK s : s = m.targets \o m.deferred
    OBVIOUS
  <2>7. /\ s \in Seq(TargetType) /\ Len(s) \in Nat /\ s # << >> /\ Len(s) # 0
        /\ \A i \in 1 .. Len(m.targets) : i \in 1 .. Len(s) /\ s[i] = m.targets[i]
        /\ \A i \in 1 .. Len(s) : On(m.targets, s[i]) \/ On(m.deferred, s[i])
        /\ \A i \in 1 .. Len(m.deferred) : On(s, m.deferred[i])
    <3>1. PICK p \in Seq(TargetType) : p = m.targets
      BY <1>1
    <3>2. PICK q \in Seq(TargetType) : q = m.deferred
      BY <1>1
    <3>3. s = p \o q /\ p # << >>
      BY <1>1, <2>6, <3>1, <3>2
    <3>4. /\ s \in Seq(TargetType) /\ Len(s) \in Nat /\ s # << >> /\ Len(s) # 0
          /\ \A i \in 1 .. Len(p) : i \in 1 .. Len(s) /\ s[i] = p[i]
          /\ \A i \in 1 .. Len(s) : On(p, s[i]) \/ On(q, s[i])
          /\ \A i \in 1 .. Len(q) : On(s, q[i])
      <4>1. /\ p \o q \in Seq(TargetType) /\ Len(p \o q) \in Nat
            /\ p # << >> => p \o q # << >> /\ Len(p \o q) # 0
            /\ \A i \in 1 .. Len(p) : i \in 1 .. Len(p \o q) /\ (p \o q)[i] = p[i]
            /\ \A i \in 1 .. Len(p \o q) : On(p, (p \o q)[i]) \/ On(q, (p \o q)[i])
            /\ \A i \in 1 .. Len(q) : On(p \o q, q[i])
        BY ConcatFacts, Zenon
      <4>. QED  BY <3>3, <4>1, Zenon
    <3>. QED  BY <3>1, <3>2, <3>4
  <2>8. n = [m EXCEPT !.targets = s, !.deferred = << >>]
    BY <1>4, <1>6, <2>6
  <2>9. << >> \in Seq(TargetType)
    OBVIOUS
  <2>10. /\ n \in MSHRType /\ n.targets = s /\ n.deferred = << >>
         /\ n.postInvalidate = m.postInvalidate /\ n.postDowngrade = m.postDowngrade
    BY <2>7, <2>8, <2>9 DEF MSHRType
  <2>11. \A i \in 1 .. Len(s) : Cpu(s[i])
    BY <1>1, <2>4, <2>7 DEF On
  <2>12. Orderly(n)
    <3>. SUFFICES ASSUME NEW i \in 1 .. Len(n.targets)
                  PROVE  /\ Cpu(n.targets[i])
                         /\ \A j \in 1 .. i - 1 : Cpu(n.targets[j])
      BY <2>7, <2>10 DEF Orderly
    <3>1. PICK z \in Nat : z = Len(s)
      BY <2>7
    <3>2. i \in 1 .. z
      BY <2>10, <3>1
    <3>3. \A j \in 1 .. i - 1 : j \in 1 .. z
      BY <3>2
    <3>. QED  BY <2>10, <2>11, <3>1, <3>2, <3>3
  <2>13. ~Gone(n, Len(n.targets))
    <3>1. PICK z \in Nat : z = Len(s)
      BY <2>7
    <3>2. z \in 1 .. z
      BY <2>7, <3>1
    <3>. QED  BY <2>10, <2>11, <3>1, <3>2 DEF Gone
  <2>14. n # m
    BY <2>2, <2>10
  <2>. QED  BY <2>1, <2>3, <2>5, <2>7, <2>10, <2>11, <2>12, <2>13, <2>14
<1>. QED  BY <1>5, <1>6

(* The requests in service: what is on their list of targets. *)
LEMMA SentFacts ==
  ASSUME NEW m \in MSHRType, MSHROK(m), m.inService
  PROVE  /\ \A d \in Caches, q \in BusCommands :
              Asks(m, d, q) /\ q # "ReadReq" => m.postInvalidate
         /\ \A d, e \in Caches, q, s \in BusCommands :
              Asks(m, d, q) /\ Asks(m, e, s) /\ q # "ReadReq" /\ s # "ReadReq" => d = e
         /\ Owning(m) /\ m.postInvalidate =>
              \E d \in Caches, q \in BusCommands : Asks(m, d, q) /\ q # "ReadReq"
<1>1. /\ m.targets \in Seq(TargetType) /\ SentOK(m) /\ m.targets # << >>
  BY DEF MSHROK, MSHRType
<1>2. PICK z \in Nat : z = Len(m.targets)
  BY <1>1
<1>3. z \in 1 .. z
  BY <1>1, <1>2
<1>4. ASSUME NEW d \in Caches, NEW q \in BusCommands, Asks(m, d, q), q # "ReadReq"
      PROVE  m.targets[z] = FromSnoop(d, q) /\ m.postInvalidate
  <2>1. PICK i \in 1 .. z : m.targets[i] = FromSnoop(d, q)
    BY <1>2, <1>4 DEF Asks, On
  <2>2. ~Cpu(m.targets[i]) /\ m.targets[i].cmd # "ReadReq"
    BY <1>4, <2>1, TargetFacts DEF Cpu
  <2>3. i = z /\ m.postInvalidate
    BY <1>1, <1>2, <2>1, <2>2 DEF SentOK, TargetOK
  <2>. QED  BY <2>1, <2>3
<1>5. ASSUME NEW d \in Caches, NEW e \in Caches, NEW q \in BusCommands, NEW s \in BusCommands,
             Asks(m, d, q), Asks(m, e, s), q # "ReadReq", s # "ReadReq"
      PROVE  d = e
  <2>1. FromSnoop(d, q) = FromSnoop(e, s)
    BY <1>4, <1>5
  <2>. QED  BY <2>1, TargetFacts
<1>6. ASSUME Owning(m), m.postInvalidate
      PROVE  \E d \in Caches, q \in BusCommands : Asks(m, d, q) /\ q # "ReadReq"
  <2>1. PICK t : t = m.targets[z]
    OBVIOUS
  <2>2. t \in TargetType /\ ~Cpu(t) /\ t.cmd # "ReadReq"
    BY <1>1, <1>2, <1>3, <1>6, <2>1 DEF SentOK
  <2>3. t.source = "snoop" /\ t.who \in Caches /\ t.cmd \in BusCommands
    BY <2>2, TargetFacts DEF Cpu
  <2>4. t = FromSnoop(t.who, t.cmd)
    BY <2>2, <2>3 DEF TargetType, FromSnoop
  <2>5. On(m.targets, FromSnoop(t.who, t.cmd))
    BY <1>2, <1>3, <2>1, <2>4 DEF On
  <2>. QED  BY <1>6, <2>2, <2>3, <2>5 DEF Asks
<1>. QED  BY <1>4, <1>5, <1>6

(* What arrives fits the request and the block. *)
Arrives(b, m, r, ll) ==
  /\ r \in AnswerType /\ r.cmd \in Responses /\ m.inService
  /\ m.pendingDirty => ~r.shared
  /\ ~m.pendingDirty /\ r.inhibit => r.shared
  /\ r.cmd = "ReadRespWithInvalidate" => m.postInvalidate
  /\ r.cmd = "UpgradeResp" <=> Valid(b)
  /\ Valid(b) => m.pendingDirty /\ b.data = ll
  /\ r.cmd # "UpgradeResp" /\ (m.pendingDirty \/ ~m.postInvalidate) => r.data = ll

(* handleFill(): the block with what has arrived. *)
LEMMA FilledFacts ==
  ASSUME NEW b \in BlockType, NEW m \in MSHRType, LineOK(b, m), NEW r, NEW ll \in Nat, Arrives(b, m, r, ll),
         NEW f, f = Filled(b, r)
  PROVE  /\ f \in BlockType /\ BlockOK(f) /\ "R" \in f.status
         /\ f.data = IF r.cmd = "UpgradeResp" THEN b.data ELSE r.data
         /\ m.pendingDirty \/ ~m.postInvalidate => f.data = ll
         /\ ~m.pendingDirty => ~Dirty(f) /\ (Writable(f) <=> ~r.shared)
<1>1. BlockOK(b) /\ r.data \in Nat /\ r.shared \in BOOLEAN /\ r.inhibit \in BOOLEAN
  BY DEF LineOK, Arrives, AnswerType
<1>2. /\ f \in BlockType
      /\ f.status = b.status \cup {"V", "R"} \cup (IF r.shared THEN {} ELSE {"W"})
                         \cup (IF ~r.shared /\ r.inhibit THEN {"D"} ELSE {})
      /\ f.data = IF r.cmd # "UpgradeResp" THEN r.data ELSE b.data
      /\ f.locks = b.locks
  BY <1>1 DEF Filled, HasData, BlockType
<1>3. \A lock \in f.locks : lock.version = f.data
  <2>1. CASE Valid(b)
    BY <1>1, <1>2, <2>1 DEF Arrives, BlockOK
  <2>2. CASE ~Valid(b)
    <3>1. b = NoBlock
      BY <1>1, <2>2 DEF BlockOK, Valid
    <3>. QED  BY <1>2, <3>1 DEF NoBlock
  <2>. QED  BY <2>1, <2>2
<1>4. BlockOK(f) /\ "R" \in f.status
  BY <1>2, <1>3 DEF BlockOK
<1>5. m.pendingDirty \/ ~m.postInvalidate => f.data = ll
  BY <1>2 DEF Arrives
<1>6. ASSUME ~m.pendingDirty PROVE ~Dirty(f) /\ (Writable(f) <=> ~r.shared)
  <2>1. b = NoBlock
    BY <1>1, <1>6 DEF Arrives, BlockOK, Valid
  <2>. QED  BY <1>2, <1>6, <2>1 DEF Arrives, Dirty, Writable, NoBlock
<1>. QED  BY <1>2, <1>4, <1>5, <1>6

(* recvTimingResp(), the block and its MSHR. *)
LEMMA RespLine ==
  ASSUME NEW b \in BlockType, NEW m \in MSHRType, LineOK(b, m), NEW r, NEW ll \in Nat, Arrives(b, m, r, ll),
         NEW n, n = MSHRHandleFill(m, r), NEW w, w = ServeTargets(Filled(b, r), n),
         NEW e, e = AfterTargets(w.blk, n, r)
  PROVE  /\ e \in BlockType /\ BlockOK(e) /\ w.writes \in Nat /\ w.fits
         /\ m.postInvalidate => e = NoBlock /\ w.blk = NoBlock
         /\ ~m.postInvalidate => "R" \in e.status /\ Valid(e) /\ e.data = ll + w.writes
         /\ m.pendingDirty /\ ~m.postInvalidate => Dirty(e)
         /\ m.pendingDirty /\ Writable(e) => \A d \in Caches : ~Promises(m, d)
         /\ ~m.pendingDirty /\ (Dirty(e) \/ Writable(e)) => ~r.shared /\ ~m.postDowngrade
         /\ ~m.pendingDirty /\ m.postInvalidate => w.writes = 0
         /\ ~m.pendingDirty /\ w.writes # 0 => Dirty(e)
         /\ n.deferred # << >> => ~Writable(e)
         /\ w.answers # {} => m.pendingDirty
         /\ \A x \in w.answers : \E d \in Caches, q \in BusCommands :
              Asks(m, d, q) /\ x = [to |-> d, answer |-> LateResp(m, q, ll + w.writes)]
         /\ \A d \in Caches : Promises(m, d) => \E x \in w.answers : x.to = d
<1>1. PICK f : f = Filled(b, r)
  OBVIOUS
<1>2. /\ f \in BlockType /\ BlockOK(f) /\ "R" \in f.status
      /\ m.pendingDirty \/ ~m.postInvalidate => f.data = ll
      /\ ~m.pendingDirty => ~Dirty(f) /\ (Writable(f) <=> ~r.shared)
  BY <1>1, FilledFacts
<1>3. /\ m # NoMSHR /\ MSHROK(m) /\ m.inService /\ SentOK(m) /\ Sent(m)
      /\ m.targets \in Seq(TargetType) /\ Len(m.targets) \in Nat
      /\ m.postInvalidate \in BOOLEAN /\ m.pendingDirty \in BOOLEAN
  BY NullAssumption DEF LineOK, MSHROK, Arrives, Sent, MSHRType
<1>4. /\ n \in MSHRType /\ Orderly(n) /\ n.postInvalidate = m.postInvalidate
      /\ n.postDowngrade = m.postDowngrade
      /\ \A i \in 1 .. Len(m.targets) : i \in 1 .. Len(n.targets) /\ n.targets[i] = m.targets[i]
      /\ \A i \in 1 .. Len(n.targets) : ~Cpu(n.targets[i]) => n = m
      /\ Gone(n, Len(n.targets)) <=> m.postInvalidate
      /\ n # m => /\ ~m.pendingDirty /\ ~m.postInvalidate /\ ~m.postDowngrade /\ ~r.shared
                  /\ n.deferred = << >>
      /\ n = m /\ m.deferred # << >> => m.postInvalidate \/ m.postDowngrade \/ r.shared
  BY <1>3, HandleFillFacts
<1>5. PICK z : z = Len(n.targets)
  OBVIOUS
<1>6. ServedBlk(w, f, n, z) /\ ServedAnswers(w, f, n, z)
  BY <1>1, <1>2, <1>3, <1>4, <1>5, ServeTargetsFacts
<1>7. /\ w.blk \in BlockType /\ w.writes \in Nat /\ w.fits
      /\ w.writes # 0 => Written(n, z)
      /\ m.postInvalidate => w.blk = NoBlock
      /\ ~m.postInvalidate =>
           /\ BlockOK(w.blk) /\ "R" \in w.blk.status /\ Valid(w.blk)
           /\ w.blk.data = ll + w.writes
           /\ Dirty(w.blk) <=> Dirty(f) \/ Written(n, z)
           /\ Writable(w.blk) <=> Writable(f) /\ \A j \in 1 .. z : Cpu(n.targets[j])
  BY <1>2, <1>4, <1>5, <1>6 DEF ServedBlk
<1>8. /\ m.postInvalidate => e = NoBlock
      /\ ~m.postInvalidate => e = IF m.postDowngrade THEN [w.blk EXCEPT !.status = @ \ {"W"}] ELSE w.blk
  BY <1>4, <1>7, BlockFacts DEF AfterTargets, Arrives, Valid
<1>9. /\ e \in BlockType /\ BlockOK(e)
      /\ ~m.postInvalidate => /\ "R" \in e.status /\ Valid(e) /\ e.data = ll + w.writes
                              /\ Dirty(e) <=> Dirty(w.blk)
                              /\ Writable(e) <=> Writable(w.blk) /\ ~m.postDowngrade
  <2>1. CASE m.postInvalidate
    BY <1>8, <2>1 DEF NoBlock, BlockType, BlockOK
  <2>2. CASE ~m.postInvalidate /\ m.postDowngrade
    <3>1. /\ e \in BlockType /\ e.status = w.blk.status \ {"W"} /\ e.data = w.blk.data
          /\ e.locks = w.blk.locks
      BY <1>7, <1>8, <2>2 DEF BlockType
    <3>2. "R" \in e.status /\ Valid(e) /\ ~Writable(e) /\ (Dirty(e) <=> Dirty(w.blk))
      BY <1>7, <2>2, <3>1 DEF Valid, Writable, Dirty
    <3>3. BlockOK(e)
      BY <1>7, <2>2, <3>1, <3>2 DEF BlockOK, Valid
    <3>. QED  BY <1>7, <2>2, <3>1, <3>2, <3>3
  <2>3. CASE ~m.postInvalidate /\ ~m.postDowngrade
    BY <1>7, <1>8, <2>3
  <2>. QED  BY <2>1, <2>2, <2>3
<1>10. m.postInvalidate => ~Valid(e) /\ ~Dirty(e) /\ ~Writable(e)
  BY <1>8, BlockFacts
<1>11. m.pendingDirty => n = m /\ Written(m, z)
  <2>1. ASSUME m.pendingDirty PROVE Written(m, z)
    <3>1. n = m /\ ListNeedsExclusive(m.targets)
      BY <1>3, <1>4, <2>1 DEF SentOK
    <3>2. DOMAIN m.targets = 1 .. z
      BY <1>3, <1>5, <3>1
    <3>. QED  BY <3>1, <3>2 DEF ListNeedsExclusive, Written, Exclusive, Cpu
  <2>. QED  BY <1>4, <2>1
<1>12. ~m.pendingDirty /\ n = m => ~Written(n, z)
  BY <1>3, <1>5 DEF Written, SentOK, TargetOK
<1>13. ASSUME ~m.pendingDirty
       PROVE  /\ Dirty(e) \/ Writable(e) => ~r.shared /\ ~m.postDowngrade
              /\ m.postInvalidate => w.writes = 0
              /\ w.writes # 0 => Dirty(e)
              /\ w.answers = {}
  <2>1. Dirty(e) => n # m
    BY <1>2, <1>7, <1>9, <1>10, <1>12, <1>13
  <2>2. w.writes # 0 => n # m
    BY <1>7, <1>12, <1>13
  <2>3. w.answers = {}
    <3>. SUFFICES ASSUME NEW x \in w.answers PROVE FALSE
      OBVIOUS
    <3>1. PICK j \in 1 .. z : ~Cpu(n.targets[j]) /\ (Dirty(f) \/ Written(n, z))
      BY <1>6 DEF ServedAnswers
    <3>2. n = m
      BY <1>4, <1>5, <3>1
    <3>. QED  BY <1>2, <1>12, <1>13, <3>1, <3>2
  <2>. QED  BY <1>2, <1>4, <1>7, <1>9, <1>10, <1>13, <2>1, <2>2, <2>3
<1>14. m.pendingDirty /\ ~m.postInvalidate => Dirty(e)
  BY <1>7, <1>9, <1>11
<1>15. ASSUME m.pendingDirty, Writable(e), NEW d \in Caches PROVE ~Promises(m, d)
  <2>1. \A j \in 1 .. z : Cpu(m.targets[j])
    BY <1>7, <1>9, <1>10, <1>11, <1>15
  <2>2. \A q : FromSnoop(d, q).source = "snoop"
    BY DEF FromSnoop
  <2>3. z = Len(m.targets)
    BY <1>5, <1>11, <1>15
  <2>. QED  BY <2>1, <2>2, <2>3 DEF Promises, Asks, On, Cpu
<1>16. ASSUME n.deferred # << >> PROVE ~Writable(e)
  <2>1. n = m
    BY <1>4, <1>16
  <2>2. m.postInvalidate \/ m.postDowngrade \/ r.shared
    BY <1>4, <1>16, <2>1
  <2>3. CASE ~m.pendingDirty
    BY <1>9, <1>10, <1>13, <2>2, <2>3
  <2>4. CASE m.pendingDirty
    BY <1>3, <1>9, <1>10, <1>16, <2>1, <2>4 DEF SentOK
  <2>. QED  BY <2>3, <2>4
<1>17. ASSUME NEW x \in w.answers
       PROVE  \E d \in Caches, q \in BusCommands :
                Asks(m, d, q) /\ x = [to |-> d, answer |-> LateResp(m, q, ll + w.writes)]
  <2>1. PICK j \in 1 .. z : ~Cpu(n.targets[j]) /\ x = Late(n, n.targets[j], f.data + w.writes)
    BY <1>6 DEF ServedAnswers
  <2>2. m.pendingDirty /\ n = m /\ z = Len(m.targets)
    BY <1>5, <1>11, <1>13, <1>17
  <2>3. PICK t : t = m.targets[j]
    OBVIOUS
  <2>4. t \in TargetType /\ ~Cpu(t)
    BY <1>3, <2>1, <2>2, <2>3
  <2>5. t.source = "snoop" /\ t.who \in Caches /\ t.cmd \in BusCommands
    BY <2>4, TargetFacts DEF Cpu
  <2>6. t = FromSnoop(t.who, t.cmd)
    BY <2>4, <2>5 DEF TargetType, FromSnoop
  <2>7. On(m.targets, FromSnoop(t.who, t.cmd))
    BY <2>2, <2>3, <2>6 DEF On
  <2>8. Asks(m, t.who, t.cmd)
    BY <1>3, <2>2, <2>7 DEF Asks, Owning
  <2>9. x = [to |-> t.who, answer |-> LateResp(m, t.cmd, ll + w.writes)]
    BY <1>2, <2>1, <2>2, <2>3 DEF Late
  <2>. QED  BY <2>5, <2>8, <2>9
<1>18. ASSUME NEW d \in Caches, Promises(m, d) PROVE \E x \in w.answers : x.to = d
  <2>1. PICK q \in BusCommands : Asks(m, d, q)
    BY <1>18 DEF Promises
  <2>2. m.pendingDirty /\ n = m /\ z = Len(m.targets) /\ Written(m, z)
    BY <1>5, <1>11, <2>1 DEF Asks, Owning
  <2>3. PICK j \in 1 .. z : m.targets[j] = FromSnoop(d, q)
    BY <2>1, <2>2 DEF Asks, On
  <2>4. ~Cpu(m.targets[j]) /\ m.targets[j].who = d
    BY <2>3, TargetFacts DEF Cpu
  <2>5. PICK l \in 1 .. z : Exclusive(m.targets[l])
    BY <2>2 DEF Written
  <2>6. ~(j \in 1 .. l - 1) /\ l # j
    BY <1>4, <2>2, <2>4, <2>5 DEF Orderly, Exclusive
  <2>7. z \in Nat
    BY <1>3, <2>2
  <2>8. l \in 1 .. j
    BY <2>6, <2>7
  <2>9. Written(m, j)
    BY <2>5, <2>8 DEF Written
  <2>10. PICK x : x = Late(m, m.targets[j], f.data + w.writes)
    OBVIOUS
  <2>11. x \in w.answers
    BY <1>6, <2>2, <2>4, <2>9, <2>10 DEF ServedAnswers
  <2>12. x.to = d
    BY <2>4, <2>10 DEF Late
  <2>. QED  BY <2>11, <2>12
<1>. QED  BY <1>7, <1>8, <1>9, <1>13, <1>14, <1>15, <1>16, <1>17, <1>18

(* The parts of recvTimingResp(). *)
LEMMA ClearFacts ==
  ASSUME NEW k \in CacheType, NEW a \in Addrs, NEW kk, kk = ClearNoTargets(k, a)
  PROVE  /\ kk \in CacheType
         /\ kk.blk = k.blk /\ kk.mshr = k.mshr /\ kk.wb = k.wb /\ kk.lines = k.lines
         /\ kk.writeBuffers = k.writeBuffers /\ kk.unripe = k.unripe
         /\ kk.readyMiss = k.readyMiss /\ kk.readyWB = k.readyWB
         /\ CauseOK(k) => CauseOK(kk)
         /\ kk.noTargetMSHR # a
<1>1. a # NoMSHR
  BY CacheAssumption
<1>2. CASE k.noTargetMSHR # a
  BY <1>2 DEF ClearNoTargets
<1>3. CASE k.noTargetMSHR = a
  <2>1. kk = [k EXCEPT !.noTargetMSHR = NoMSHR, !.blocked = @ \ {"NoTargets"}]
    BY <1>3 DEF ClearNoTargets
  <2>2. /\ kk \in CacheType
        /\ kk.blk = k.blk /\ kk.mshr = k.mshr /\ kk.wb = k.wb /\ kk.lines = k.lines
        /\ kk.writeBuffers = k.writeBuffers /\ kk.unripe = k.unripe
        /\ kk.readyMiss = k.readyMiss /\ kk.readyWB = k.readyWB
        /\ kk.blocked = k.blocked \ {"NoTargets"} /\ kk.noTargetMSHR = NoMSHR
    BY <2>1, ZenonT(60) DEF CacheType
  <2>3. (MSHRsFull(kk) <=> MSHRsFull(k)) /\ (WBFull(kk) <=> WBFull(k))
    BY <2>2 DEF MSHRsFull, WBFull, Allocated, Buffered
  <2>4. CauseOK(k) => CauseOK(kk)
    BY <2>2, <2>3 DEF CauseOK
  <2>. QED  BY <1>1, <2>2, <2>4
<1>. QED  BY <1>2, <1>3

(* The lines are counted as if block a were valid. *)
LinesWith(k, a) ==
  \A kk \in CacheType :
    /\ kk.lines = k.lines /\ Valid(kk.blk[a])
    /\ \A x \in Addrs : x # a => (Valid(kk.blk[x]) <=> Valid(k.blk[x]))
    => LinesOK(kk)

LEMMA AllocateFacts ==
  ASSUME NEW k \in CacheType, LinesOK(k), NEW a \in Addrs, NEW victim \in Victims(k, a),
         NEW temp, temp = NoRoom(k, a, victim),
         NEW kk, kk = IF temp THEN IncSetLine(k, a) ELSE AllocateBlock(k, a, victim)
  PROVE  /\ kk \in CacheType /\ victim \in Addrs
         /\ victim # a => ~Valid(k.blk[a]) /\ Valid(k.blk[victim])
         /\ kk.blk = IF temp \/ victim = a THEN k.blk ELSE [k.blk EXCEPT ![victim] = NoBlock]
         /\ kk.mshr = k.mshr /\ kk.wb = k.wb
         /\ kk.blocked = k.blocked /\ kk.noTargetMSHR = k.noTargetMSHR
         /\ kk.writeBuffers = k.writeBuffers /\ kk.unripe = k.unripe
         /\ kk.readyMiss = k.readyMiss /\ kk.readyWB = k.readyWB
         /\ temp => /\ kk.lines.pcm = k.lines.pcm + (IF a \in Pcm THEN 1 ELSE 0)
                    /\ kk.lines.dram = k.lines.dram + (IF a \in Pcm THEN 0 ELSE 1)
         /\ ~temp => LinesWith(kk, a)
<1>1. /\ victim \in Addrs
      /\ victim # a => ~Valid(k.blk[a]) /\ Valid(k.blk[victim])
  BY DEF Victims, ValidIn, Valid
<1>2. PICK i \in Int : i = 1
  OBVIOUS
<1>3. PICK j \in {1, -1} : j = 1
  OBVIOUS
<1>4. CASE temp
  <2>1. kk = IncSetLine(k, a)
    BY <1>4
  <2>2. /\ kk \in CacheType
        /\ kk.lines.pcm = k.lines.pcm + (IF a \in Pcm THEN i ELSE 0)
        /\ kk.lines.dram = k.lines.dram + (IF a \in Pcm THEN 0 ELSE i)
        /\ kk.blk = k.blk /\ kk.mshr = k.mshr /\ kk.wb = k.wb
        /\ kk.blocked = k.blocked /\ kk.noTargetMSHR = k.noTargetMSHR
        /\ kk.writeBuffers = k.writeBuffers /\ kk.unripe = k.unripe
        /\ kk.readyMiss = k.readyMiss /\ kk.readyWB = k.readyWB
    BY <1>2, <2>1, SetLineFacts
  <2>. QED  BY <1>1, <1>2, <1>4, <2>2
<1>5. CASE ~temp /\ Valid(k.blk[a])
  <2>1. kk = k /\ victim = a
    BY <1>1, <1>5 DEF AllocateBlock, ValidIn, Valid
  <2>2. LinesWith(k, a)
    <3>. SUFFICES ASSUME NEW c \in CacheType, c.lines = k.lines, Valid(c.blk[a]),
                         \A x \in Addrs : x # a => (Valid(c.blk[x]) <=> Valid(k.blk[x]))
                  PROVE  LinesOK(c)
      BY DEF LinesWith
    <3>1. \A x \in Addrs : Valid(c.blk[x]) <=> Valid(k.blk[x])
      BY <1>5
    <3>. QED  BY <3>1, LinesSame
  <2>. QED  BY <1>1, <1>5, <2>1, <2>2
<1>6. CASE ~temp /\ ~Valid(k.blk[a])
  <2>1. PICK g : g = IF victim = a THEN k ELSE Invalidate(k, victim)
    OBVIOUS
  <2>2. kk = IncSetLine(g, a)
    BY <1>6, <2>1 DEF AllocateBlock, ValidIn, Valid
  <2>3. /\ g \in CacheType /\ LinesOK(g)
        /\ g.blk = IF victim = a THEN k.blk ELSE [k.blk EXCEPT ![victim] = NoBlock]
        /\ g.mshr = k.mshr /\ g.wb = k.wb
        /\ g.blocked = k.blocked /\ g.noTargetMSHR = k.noTargetMSHR
        /\ g.writeBuffers = k.writeBuffers /\ g.unripe = k.unripe
        /\ g.readyMiss = k.readyMiss /\ g.readyWB = k.readyWB
    <3>1. CASE victim = a
      BY <2>1, <3>1
    <3>2. CASE victim # a
      <4>1. g = Invalidate(k, victim) /\ Valid(k.blk[victim])
        BY <1>1, <2>1, <3>2
      <4>. QED  BY <1>1, <3>2, <4>1, InvalidateFacts
    <3>. QED  BY <3>1, <3>2
  <2>4. /\ kk \in CacheType
        /\ kk.lines.pcm = g.lines.pcm + (IF a \in Pcm THEN i ELSE 0)
        /\ kk.lines.dram = g.lines.dram + (IF a \in Pcm THEN 0 ELSE i)
        /\ kk.blk = g.blk /\ kk.mshr = g.mshr /\ kk.wb = g.wb
        /\ kk.blocked = g.blocked /\ kk.noTargetMSHR = g.noTargetMSHR
        /\ kk.writeBuffers = g.writeBuffers /\ kk.unripe = g.unripe
        /\ kk.readyMiss = g.readyMiss /\ kk.readyWB = g.readyWB
    BY <1>2, <2>2, <2>3, SetLineFacts
  <2>5. ~Valid(g.blk[a])
    BY <1>1, <1>6, <2>3 DEF CacheType
  <2>6. LinesWith(kk, a)
    <3>. SUFFICES ASSUME NEW c \in CacheType, c.lines = kk.lines, Valid(c.blk[a]),
                         \A x \in Addrs : x # a => (Valid(c.blk[x]) <=> Valid(kk.blk[x]))
                  PROVE  LinesOK(c)
      BY DEF LinesWith
    <3>1. \A x \in Addrs : x # a => (Valid(c.blk[x]) <=> Valid(g.blk[x]))
      BY <2>4
    <3>2. /\ c.lines.pcm = g.lines.pcm + (IF a \in Pcm THEN j ELSE 0)
          /\ c.lines.dram = g.lines.dram + (IF a \in Pcm THEN 0 ELSE j)
      BY <1>2, <1>3, <2>4
    <3>3. (Valid(c.blk[a]) <=> j = 1) /\ (Valid(g.blk[a]) <=> j = -1)
      BY <1>3, <2>5
    <3>. QED  BY <2>3, <3>1, <3>2, <3>3, LinesChange, ZenonT(60)
  <2>. QED  BY <1>1, <1>6, <2>3, <2>4, <2>6
<1>. QED  BY <1>4, <1>5, <1>6

(* Only the causes, or only the counters, change. *)
LEMMA SetBlockedFacts ==
  ASSUME NEW k \in CacheType, NEW S \in SUBSET {"NoMSHRs", "NoWBBuffers", "NoTargets"}
  PROVE  LET kk == [k EXCEPT !.blocked = S] IN
         /\ kk \in CacheType /\ kk.blocked = S
         /\ kk.blk = k.blk /\ kk.mshr = k.mshr /\ kk.wb = k.wb /\ kk.lines = k.lines
         /\ kk.noTargetMSHR = k.noTargetMSHR
         /\ kk.writeBuffers = k.writeBuffers /\ kk.unripe = k.unripe
         /\ kk.readyMiss = k.readyMiss /\ kk.readyWB = k.readyWB
BY DEF CacheType

(* MSHRQueue::deallocate(). *)
LEMMA DeallocateFacts ==
  ASSUME NEW k \in CacheType, NEW a \in Addrs, NEW kk, kk = Deallocate(k, a)
  PROVE  /\ kk \in CacheType
         /\ kk.blk = k.blk /\ kk.mshr = [k.mshr EXCEPT ![a] = NoMSHR] /\ kk.wb = k.wb
         /\ kk.lines = k.lines /\ kk.noTargetMSHR = k.noTargetMSHR
         /\ kk.writeBuffers = k.writeBuffers /\ kk.unripe = k.unripe
         /\ kk.readyMiss = k.readyMiss /\ kk.readyWB = k.readyWB
         /\ CauseOK(k) /\ k.noTargetMSHR # a => CauseOK(kk)
<1>1. PICK f : f = [k EXCEPT !.mshr[a] = NoMSHR]
  OBVIOUS
<1>2. PICK e \in MSHRType \cup {NoMSHR} : e = NoMSHR
  OBVIOUS
<1>3. /\ f \in CacheType /\ f.mshr = [k.mshr EXCEPT ![a] = e]
      /\ f.blk = k.blk /\ f.wb = k.wb /\ f.lines = k.lines
      /\ f.blocked = k.blocked /\ f.noTargetMSHR = k.noTargetMSHR
      /\ f.writeBuffers = k.writeBuffers /\ f.unripe = k.unripe
      /\ f.readyMiss = k.readyMiss /\ f.readyWB = k.readyWB
  BY <1>1, <1>2, SetMSHRFacts
<1>4. PICK S : S = IF MSHRsFull(k) /\ ~MSHRsFull(f) THEN k.blocked \ {"NoMSHRs"} ELSE k.blocked
  OBVIOUS
<1>5. k.blocked \in SUBSET {"NoMSHRs", "NoWBBuffers", "NoTargets"}
  BY DEF CacheType
<1>6. S \in SUBSET {"NoMSHRs", "NoWBBuffers", "NoTargets"}
  BY <1>4, <1>5
<1>7. PICK g : g = [f EXCEPT !.blocked = S]
  OBVIOUS
<1>8. /\ g \in CacheType /\ g.blocked = S
      /\ g.blk = f.blk /\ g.mshr = f.mshr /\ g.wb = f.wb /\ g.lines = f.lines
      /\ g.noTargetMSHR = f.noTargetMSHR
      /\ g.writeBuffers = f.writeBuffers /\ g.unripe = f.unripe
      /\ g.readyMiss = f.readyMiss /\ g.readyWB = f.readyWB
  <2>1. f \in CacheType
    BY <1>3
  <2>. QED  BY <2>1, <1>6, <1>7, SetBlockedFacts, ZenonT(60)
<1>9. kk = g
  <2>1. CASE MSHRsFull(k) /\ ~MSHRsFull(f)
    BY <1>1, <1>3, <1>4, <1>7, <2>1 DEF Deallocate
  <2>2. CASE ~(MSHRsFull(k) /\ ~MSHRsFull(f))
    <3>1. kk = f /\ S = f.blocked
      BY <1>1, <1>3, <1>4, <2>2 DEF Deallocate
    <3>2. f = [f EXCEPT !.blocked = f.blocked]
      BY <1>3 DEF CacheType
    <3>. QED  BY <1>7, <3>1, <3>2
  <2>. QED  BY <2>1, <2>2
<1>10. ASSUME CauseOK(k), k.noTargetMSHR # a PROVE CauseOK(g)
  <2>1. (MSHRsFull(g) <=> MSHRsFull(f)) /\ (WBFull(g) <=> WBFull(k))
    BY <1>3, <1>8 DEF MSHRsFull, WBFull, Allocated, Buffered
  <2>2. \A x \in Addrs : x # a => g.mshr[x] = k.mshr[x]
    BY <1>3, <1>8 DEF CacheType
  <2>3. k.noTargetMSHR \in Addrs \cup {NoMSHR}
    BY DEF CacheType
  <2>4. "NoMSHRs" \in g.blocked => MSHRsFull(g)
    BY <1>4, <1>8, <1>10, <2>1 DEF CauseOK
  <2>5. "NoWBBuffers" \in g.blocked => WBFull(g)
    BY <1>4, <1>8, <1>10, <2>1 DEF CauseOK
  <2>6. "NoTargets" \in g.blocked => "NoTargets" \in k.blocked
    BY <1>4, <1>8
  <2>7. ASSUME "NoTargets" \in g.blocked
        PROVE  g.noTargetMSHR # NoMSHR /\ g.mshr[g.noTargetMSHR] # NoMSHR
    <3>1. k.noTargetMSHR # NoMSHR /\ k.mshr[k.noTargetMSHR] # NoMSHR
      BY <1>10, <2>6, <2>7, Zenon DEF CauseOK
    <3>2. k.noTargetMSHR \in Addrs /\ g.noTargetMSHR = k.noTargetMSHR
      BY <1>3, <1>8, <2>3, <3>1
    <3>3. g.mshr[k.noTargetMSHR] = k.mshr[k.noTargetMSHR]
      BY <1>10, <2>2, <3>2
    <3>. QED  BY <3>1, <3>2, <3>3
  <2>. QED  BY <2>4, <2>5, <2>7 DEF CauseOK
<1>. QED  BY <1>2, <1>3, <1>8, <1>9, <1>10

(* An entry is given another name. *)
LEMMA RenameFacts ==
  ASSUME NEW S, NEW u \in Seq(S), NEW v \in Seq(S), NEW p, NEW q, p # q, Len(v) = Len(u),
         \A i \in 1 .. Len(u) : v[i] = IF u[i] = p THEN q ELSE u[i]
  PROVE  /\ ~On(v, p)
         /\ \A x : x # p /\ x # q => (On(v, x) <=> On(u, x)) /\ (Once(u, x) => Once(v, x))
         /\ ~On(u, q) => (On(v, q) <=> On(u, p)) /\ (Once(u, p) => Once(v, q))
<1>1. PICK n \in Nat : Len(u) = n /\ DOMAIN u = 1 .. n
  OBVIOUS
<1>4. Len(v) = n
  BY <1>1
<1>5. \A i \in 1 .. n : v[i] = IF u[i] = p THEN q ELSE u[i]
  BY <1>1
<1>. HIDE DEF On, Once
<1>6. \A x : On(v, x) <=> \E i \in 1 .. n : v[i] = x
  BY <1>4 DEF On
<1>7. \A x : On(u, x) <=> \E i \in 1 .. n : u[i] = x
  BY <1>1 DEF On
<1>8. \A x : Once(v, x) <=> \A i, j \in 1 .. n : v[i] = x /\ v[j] = x => i = j
  BY <1>4 DEF Once
<1>9. \A x : Once(u, x) <=> \A i, j \in 1 .. n : u[i] = x /\ u[j] = x => i = j
  BY <1>1 DEF Once
<1>10. ~On(v, p)
  BY <1>5, <1>6
<1>11. \A x : x # p /\ x # q => (On(v, x) <=> On(u, x)) /\ (Once(u, x) => Once(v, x))
  BY <1>5, <1>6, <1>7, <1>8, <1>9
<1>12. ~On(u, q) => (On(v, q) <=> On(u, p)) /\ (Once(u, p) => Once(v, q))
  BY <1>5, <1>6, <1>7, <1>8, <1>9
<1>. QED  BY <1>10, <1>11, <1>12

(* promoteDeferredTargets() and markPending(): the deferred targets make a *)
(* new request, which needs the block.                                     *)
Promoted(n) ==
  IF n.deferred = << >> THEN NoMSHR
  ELSE [n EXCEPT !.targets = n.deferred, !.deferred = << >>, !.inService = FALSE]

Unread(b, n) == IF n.deferred = << >> THEN b ELSE [b EXCEPT !.status = @ \ {"R"}]

LEMMA PromoteFacts ==
  ASSUME NEW k \in CacheType, NEW a \in Addrs, NEW m \in MSHRType, k.mshr[a] = m,
         m.inService, m.deferred # << >>, NEW kk, kk = PromoteDeferredTargets(k, a)
  PROVE  /\ kk \in CacheType
         /\ kk.blk = [k.blk EXCEPT ![a] = Unread(k.blk[a], m)]
         /\ kk.mshr = [k.mshr EXCEPT ![a] = Promoted(m)]
         /\ kk.wb = k.wb /\ kk.lines = k.lines
         /\ kk.blocked = k.blocked /\ kk.noTargetMSHR = k.noTargetMSHR
         /\ kk.writeBuffers = k.writeBuffers
         /\ (\A x \in Addrs : QueueOK(k, x)) => \A x \in Addrs : QueueOK(kk, x)
         /\ OthersKept(kk, k, a)
<1>1. PICK u : u = [i \in DOMAIN k.unripe |-> IF k.unripe[i] = Token("deferred", a)
                                              THEN Token("miss", a) ELSE k.unripe[i]]
  OBVIOUS
<1>2. PICK p \in Tokens, q \in Tokens : p = Token("deferred", a) /\ q = Token("miss", a)
  BY TokenFacts
<1>3. p # q
  BY <1>2, TokenFacts
<1>4. k.unripe \in Seq(Tokens) /\ k.readyMiss \in Seq(Addrs) /\ k.readyWB \in Seq(Addrs)
  BY ListTypes
<1>5. u = [i \in DOMAIN k.unripe |-> IF k.unripe[i] = p THEN q ELSE k.unripe[i]]
  BY <1>1, <1>2
<1>6. /\ u \in Seq(Tokens) /\ ~On(u, p)
      /\ \A x : x # p /\ x # q => (On(u, x) <=> On(k.unripe, x)) /\ (Once(k.unripe, x) => Once(u, x))
      /\ ~On(k.unripe, q) => (On(u, q) <=> On(k.unripe, p)) /\ (Once(k.unripe, p) => Once(u, q))
  <2>1. PICK s \in Seq(Tokens) : s = k.unripe
    BY <1>4
  <2>2. u = [i \in DOMAIN s |-> IF s[i] = p THEN q ELSE s[i]]
    BY <1>5, <2>1
  <2>3. p \in Tokens /\ q \in Tokens /\ p # q /\ s \in Seq(Tokens)
    BY <1>2, <1>3, <2>1
  <2>4. /\ u \in Seq(Tokens) /\ ~On(u, p)
        /\ \A x : x # p /\ x # q => (On(u, x) <=> On(s, x)) /\ (Once(s, x) => Once(u, x))
        /\ ~On(s, q) => (On(u, q) <=> On(s, p)) /\ (Once(s, p) => Once(u, q))
    <3>1. PICK n \in Nat : Len(s) = n /\ DOMAIN s = 1 .. n
      BY <2>1
    <3>2. \A i \in 1 .. n : s[i] \in Tokens
      BY <2>1, <3>1
    <3>3. u \in [1 .. n -> Tokens]
      BY <2>2, <2>3, <3>1, <3>2
    <3>4. u \in Seq(Tokens) /\ Len(u) = Len(s)
      BY <3>1, <3>3
    <3>5. \A i \in 1 .. Len(s) : u[i] = IF s[i] = p THEN q ELSE s[i]
      BY <2>2, <3>1
    <3>6. /\ ~On(u, p)
          /\ \A x : x # p /\ x # q => (On(u, x) <=> On(s, x)) /\ (Once(s, x) => Once(u, x))
          /\ ~On(s, q) => (On(u, q) <=> On(s, p)) /\ (Once(s, p) => Once(u, q))
      BY <2>3, <3>4, <3>5, RenameFacts
    <3>. QED  BY <3>4, <3>6
  <2>. QED  BY <2>1, <2>4
<1>7. PICK ready : ready = IF Token("deferred", a) \in Range(k.unripe) THEN k.readyMiss
                           ELSE Append(k.readyMiss, a)
  OBVIOUS
<1>8. Token("deferred", a) \in Range(k.unripe) <=> On(k.unripe, p)
  BY <1>2, <1>4 DEF Range, On
<1>9. ready = IF On(k.unripe, p) THEN k.readyMiss ELSE Append(k.readyMiss, a)
  BY <1>7, <1>8
<1>10. ready \in Seq(Addrs)
  BY <1>4, <1>9
<1>11. PICK no : no = FALSE
  OBVIOUS
<1>12. PICK none, late : none = << >> /\ late = m.deferred
  OBVIOUS
<1>13. none \in Seq(TargetType) /\ late \in Seq(TargetType) /\ no \in BOOLEAN
  <2>1. no \in BOOLEAN
    BY <1>11
  <2>2. m.deferred \in Seq(TargetType)
    BY DEF MSHRType
  <2>. QED  BY <1>12, <2>1, <2>2
<1>14. PICK n : n = [m EXCEPT !.targets = late, !.deferred = none, !.inService = no]
  OBVIOUS
<1>15. /\ n \in MSHRType /\ n.deferred = none /\ n.inService = no
  BY <1>13, <1>14 DEF MSHRType
<1>16. PICK e : e = [k.blk[a] EXCEPT !.status = @ \ {"R"}]
  OBVIOUS
<1>17. k.blk[a] \in BlockType /\ k.blk \in [Addrs -> BlockType] /\ k.mshr \in [Addrs -> MSHRType \cup {NoMSHR}]
  BY DEF CacheType
<1>18. e \in BlockType
  BY <1>16, <1>17 DEF BlockType
<1>19. /\ [k.mshr EXCEPT ![a].targets = late, ![a].deferred = none, ![a].inService = no]
            = [k.mshr EXCEPT ![a] = n]
       /\ [k.blk EXCEPT ![a].status = @ \ {"R"}] = [k.blk EXCEPT ![a] = e]
  BY <1>14, <1>16, <1>17
<1>20. kk = [k EXCEPT !.mshr[a].targets = late, !.mshr[a].deferred = none,
                      !.mshr[a].inService = no, !.blk[a].status = @ \ {"R"},
                      !.unripe = u, !.readyMiss = ready]
  BY <1>1, <1>7, <1>11, <1>12 DEF PromoteDeferredTargets
<1>21. kk = [k EXCEPT !.mshr = [k.mshr EXCEPT ![a].targets = late, ![a].deferred = none, ![a].inService = no],
                      !.blk = [k.blk EXCEPT ![a].status = @ \ {"R"}],
                      !.unripe = u, !.readyMiss = ready]
  BY <1>20 DEF CacheType
<1>22. kk = [k EXCEPT !.mshr[a] = n, !.blk[a] = e, !.unripe = u, !.readyMiss = ready]
  BY <1>19, <1>20, ZenonT(60) DEF CacheType
<1>23. /\ kk \in CacheType /\ kk.mshr = [k.mshr EXCEPT ![a] = n]
       /\ kk.blk = [k.blk EXCEPT ![a] = e]
       /\ kk.wb = k.wb /\ kk.lines = k.lines
       /\ kk.blocked = k.blocked /\ kk.noTargetMSHR = k.noTargetMSHR
       /\ kk.writeBuffers = k.writeBuffers
       /\ kk.unripe = u /\ kk.readyMiss = ready /\ kk.readyWB = k.readyWB
  <2>1. u \in Seq({"miss", "wb", "deferred"} \X Addrs)
    BY <1>6 DEF Tokens
  <2>2. [k.mshr EXCEPT ![a] = n] \in [Addrs -> MSHRType \cup {NoMSHR}]
    BY <1>15, <1>17
  <2>3. [k.blk EXCEPT ![a] = e] \in [Addrs -> BlockType]
    BY <1>17, <1>18
  <2>4. PICK ms, bs : ms = [k.mshr EXCEPT ![a] = n] /\ bs = [k.blk EXCEPT ![a] = e]
    OBVIOUS
  <2>5. kk = [k EXCEPT !.mshr = ms, !.blk = bs, !.unripe = u, !.readyMiss = ready]
    BY <1>22, <2>4
  <2>. QED  BY <1>10, <2>1, <2>2, <2>3, <2>4, <2>5, ZenonT(60) DEF CacheType
<1>24. ASSUME \A x \in Addrs : QueueOK(k, x), NEW x \in Addrs PROVE QueueOK(kk, x)
  <2>1. kk.mshr[a] = n /\ \A y \in Addrs : y # a => kk.mshr[y] = k.mshr[y]
    BY <1>17, <1>23
  <2>2. m # NoMSHR /\ n # NoMSHR
    BY <1>15, NullAssumption
  <2>3. /\ Once(k.unripe, Token("miss", x)) /\ Once(k.readyMiss, x)
        /\ ~(On(k.unripe, Token("miss", x)) /\ On(k.readyMiss, x))
        /\ Pending(k, x) <=> On(k.unripe, Token("miss", x)) \/ On(k.readyMiss, x)
        /\ Once(k.unripe, Token("wb", x)) /\ Once(k.readyWB, x)
        /\ ~(On(k.unripe, Token("wb", x)) /\ On(k.readyWB, x))
        /\ k.wb[x] # NoWB <=> On(k.unripe, Token("wb", x)) \/ On(k.readyWB, x)
        /\ Once(k.unripe, Token("deferred", x))
        /\ On(k.unripe, Token("deferred", x)) => k.mshr[x] # NoMSHR /\ k.mshr[x].deferred # << >>
    BY <1>24 DEF QueueOK, ListOK
  <2>4. Token("wb", x) # p /\ Token("wb", x) # q
    BY <1>2, TokenFacts
  <2>5. ListOK(u, k.readyWB, "wb", x, kk.wb[x] # NoWB)
    BY <1>6, <1>23, <2>3, <2>4, Zenon DEF ListOK
  <2>6. CASE x # a
    <3>1. /\ Token("miss", x) # p /\ Token("miss", x) # q
          /\ Token("deferred", x) # p /\ Token("deferred", x) # q
      BY <1>2, <2>6, TokenFacts
    <3>2. kk.mshr[x] = k.mshr[x] /\ (Pending(kk, x) <=> Pending(k, x))
      BY <2>1, <2>6 DEF Pending
    <3>3. (On(ready, x) <=> On(k.readyMiss, x)) /\ Once(ready, x)
      BY <1>4, <1>9, <2>3, <2>6, AppendOn
    <3>4. ListOK(u, ready, "miss", x, Pending(kk, x))
      BY <1>6, <2>3, <3>1, <3>2, <3>3, Zenon DEF ListOK
    <3>5. /\ Once(u, Token("deferred", x))
          /\ On(u, Token("deferred", x)) => kk.mshr[x] # NoMSHR /\ kk.mshr[x].deferred # << >>
      BY <1>6, <2>3, <3>1, <3>2, Zenon
    <3>. QED  BY <1>23, <2>5, <3>4, <3>5 DEF QueueOK
  <2>7. CASE x = a
    <3>1. ~Pending(k, x) /\ Pending(kk, x)
      BY <1>11, <1>15, <2>1, <2>2, <2>7 DEF Pending
    <3>2. Token("miss", x) = q /\ Token("deferred", x) = p
      BY <1>2, <2>7
    <3>3. ~On(k.unripe, q) /\ ~On(k.readyMiss, x) /\ Once(k.unripe, p)
      BY <2>3, <3>1, <3>2
    <3>4. (On(u, q) <=> On(k.unripe, p)) /\ Once(u, q)
      BY <1>6, <3>3
    <3>5. Once(ready, x) /\ (On(ready, x) <=> ~On(k.unripe, p))
      BY <1>4, <1>9, <2>3, <2>7, <3>3, AppendOn
    <3>6. ListOK(u, ready, "miss", x, Pending(kk, x))
      BY <3>1, <3>2, <3>4, <3>5 DEF ListOK
    <3>7. Once(u, p)
      BY <1>6 DEF On, Once
    <3>. QED  BY <1>6, <1>23, <2>5, <3>2, <3>6, <3>7 DEF QueueOK
  <2>. QED  BY <2>6, <2>7
<1>25. n = Promoted(m) /\ e = Unread(k.blk[a], m)
  BY <1>11, <1>12, <1>14, <1>16 DEF Promoted, Unread
<1>26. ASSUME NEW x \in Addrs, x # a PROVE OrderKept(kk, k, x)
  <2>1. PICK g, h : g = Token("wb", x) /\ h = Token("miss", x)
    OBVIOUS
  <2>2. g # p /\ g # q /\ h # q
    BY <1>2, <1>26, <2>1, TokenFacts
  <2>3. On(u, g) => On(k.unripe, g)
    BY <1>6, <2>2
  <2>4. Before(k.unripe, g, h) => Before(u, g, h)
    <3>1. PICK s \in Seq(Tokens) : s = k.unripe
      BY <1>4
    <3>2. Len(u) = Len(s) /\ \A i \in 1 .. Len(s) : u[i] = IF s[i] = p THEN q ELSE s[i]
      BY <1>5, <3>1
    <3>3. u \in Seq(Tokens)
      BY <1>6
    <3>4. Before(s, g, h) => Before(u, g, h)
      BY <2>2, <3>2, <3>3, BeforeRename
    <3>. QED  BY <3>1, <3>4
  <2>5. On(ready, x) => On(k.readyMiss, x)
    BY <1>4, <1>9, <1>26, AppendOn
  <2>. QED  BY <1>23, <2>1, <2>3, <2>4, <2>5, Zenon DEF OrderKept
<1>27. OthersKept(kk, k, a)
  BY <1>26 DEF OthersKept
<1>. QED  BY <1>23, <1>24, <1>25, <1>27

(* The accesses in S are over. *)
LEMMA ForgetFacts ==
  ASSUME NEW k \in CacheType, NEW S, NEW kk, kk = Forget(k, S)
  PROVE  /\ kk \in CacheType
         /\ kk.blk = k.blk /\ kk.mshr = k.mshr /\ kk.lines = k.lines
         /\ kk.blocked = k.blocked /\ kk.noTargetMSHR = k.noTargetMSHR
         /\ kk.writeBuffers = k.writeBuffers
         /\ \A x \in Addrs : /\ kk.wb[x] = NoWB <=> k.wb[x] = NoWB
                             /\ Waiting(kk, x) = Waiting(k, x)
         /\ (\A x \in Addrs : QueueOK(k, x)) => \A x \in Addrs : QueueOK(kk, x)
         /\ CauseOK(k) => CauseOK(kk)
         /\ \A x : OthersKept(kk, k, x)
<1>1. PICK w : w = [a \in Addrs |-> IF k.wb[a] = NoWB THEN NoWB ELSE [k.wb[a] EXCEPT !.older = @ \ S]]
  OBVIOUS
<1>2. kk = [k EXCEPT !.wb = w]
  <2>1. kk = [k EXCEPT !.wb = [a \in Addrs |-> IF k.wb[a] = NoWB THEN NoWB
                                              ELSE [k.wb[a] EXCEPT !.older = @ \ S]]]
    BY DEF Forget
  <2>. QED  BY <1>1, <2>1, Zenon
<1>3. \A x \in Addrs : k.wb[x] # NoWB => k.wb[x] \in WBType
  BY DEF CacheType
<1>4. \A x \in Addrs :
        /\ w[x] \in WBType \cup {NoWB} /\ (w[x] = NoWB <=> k.wb[x] = NoWB)
        /\ w[x] # NoWB => w[x].data = k.wb[x].data /\ w[x].older \subseteq k.wb[x].older
  <2>. SUFFICES ASSUME NEW x \in Addrs
                PROVE  /\ w[x] \in WBType \cup {NoWB} /\ (w[x] = NoWB <=> k.wb[x] = NoWB)
                       /\ w[x] # NoWB => w[x].data = k.wb[x].data /\ w[x].older \subseteq k.wb[x].older
    OBVIOUS
  <2>1. CASE k.wb[x] = NoWB
    BY <1>1, <2>1
  <2>2. CASE k.wb[x] # NoWB
    <3>1. PICK v : v = k.wb[x]
      OBVIOUS
    <3>2. v \in WBType /\ w[x] = [v EXCEPT !.older = @ \ S]
      BY <1>1, <1>3, <2>2, <3>1
    <3>3. w[x] \in WBType /\ w[x].data = v.data /\ w[x].older \subseteq v.older
      BY <3>2 DEF WBType
    <3>. QED  BY <2>2, <3>1, <3>3, NullAssumption
  <2>. QED  BY <2>1, <2>2
<1>5. w \in [Addrs -> WBType \cup {NoWB}]
  BY <1>1, <1>4
<1>6. /\ kk \in CacheType /\ kk.wb = w
      /\ kk.blk = k.blk /\ kk.mshr = k.mshr /\ kk.lines = k.lines
      /\ kk.blocked = k.blocked /\ kk.noTargetMSHR = k.noTargetMSHR
      /\ kk.writeBuffers = k.writeBuffers /\ kk.unripe = k.unripe
      /\ kk.readyMiss = k.readyMiss /\ kk.readyWB = k.readyWB
  BY <1>2, <1>5 DEF CacheType
<1>7. \A x \in Addrs : /\ kk.wb[x] = NoWB <=> k.wb[x] = NoWB
                       /\ Waiting(kk, x) = Waiting(k, x)
  BY <1>4, <1>6 DEF Waiting
<1>8. ASSUME NEW x \in Addrs, QueueOK(k, x) PROVE QueueOK(kk, x)
  <2>1. Pending(kk, x) <=> Pending(k, x)
    BY <1>6 DEF Pending
  <2>. QED  BY <1>6, <1>7, <1>8, <2>1, QueueSame
<1>9. ASSUME CauseOK(k) PROVE CauseOK(kk)
  BY <1>6, <1>7, <1>9, CauseKept
<1>10. \A x \in Addrs : OrderKept(kk, k, x)
  BY <1>4, <1>6, Zenon DEF OrderKept
<1>11. \A x : OthersKept(kk, k, x)
  BY <1>10, Zenon DEF OthersKept
<1>. QED  BY <1>6, <1>7, <1>8, <1>9, <1>11

(* allocateWriteBuffer(). *)
LEMMA WriteBufferFacts ==
  ASSUME NEW k \in CacheType, NEW a \in Addrs, NEW data \in Nat, k.wb[a] = NoWB,
         NEW kk, kk = AllocateWriteBuffer(k, a, data)
  PROVE  /\ kk \in CacheType
         /\ kk.blk = k.blk /\ kk.mshr = k.mshr /\ kk.lines = k.lines
         /\ kk.writeBuffers = k.writeBuffers
         /\ kk.wb[a] # NoWB /\ Waiting(kk, a) = data
         /\ \A x \in Addrs : x # a => kk.wb[x] = k.wb[x]
         /\ (\A x \in Addrs : QueueOK(k, x)) => \A x \in Addrs : QueueOK(kk, x)
         /\ CauseOK(k) => CauseOK(kk)
         /\ OthersKept(kk, k, a)
         /\ k.mshr[a] = NoMSHR => kk.wb[a].older = {}
<1>1. PICK o : o = IF k.mshr[a] = NoMSHR THEN {} ELSE {t.who : t \in Range(k.mshr[a].targets)}
  OBVIOUS
<1>2. o \in SUBSET (Ops \cup Caches)
  <2>1. CASE k.mshr[a] # NoMSHR
    <3>1. PICK s : s = k.mshr[a].targets
      OBVIOUS
    <3>2. k.mshr[a] \in MSHRType
      BY <2>1 DEF CacheType
    <3>3. s \in Seq(TargetType)
      BY <3>1, <3>2 DEF MSHRType
    <3>4. \A t \in Range(s) : t \in TargetType
      BY <3>3 DEF Range
    <3>5. \A t \in TargetType : t.who \in Ops \cup Caches
      BY TargetFacts
    <3>. QED  BY <1>1, <2>1, <3>1, <3>4, <3>5
  <2>2. CASE k.mshr[a] = NoMSHR
    BY <1>1, <2>2
  <2>. QED  BY <2>1, <2>2
<1>3. PICK v : v = [data |-> data, older |-> o]
  OBVIOUS
<1>4. v \in WBType /\ v.data = data /\ v # NoWB
  BY <1>2, <1>3, NullAssumption DEF WBType
<1>5. PICK u : u = Append(k.unripe, Token("wb", a))
  OBVIOUS
<1>6. u \in Seq({"miss", "wb", "deferred"} \X Addrs)
  BY <1>5, ListTypes, TokenFacts DEF Tokens
<1>7. PICK f : f = [k EXCEPT !.wb[a] = v, !.unripe = u]
  OBVIOUS
<1>8. k.wb \in [Addrs -> WBType \cup {NoWB}]
  BY DEF CacheType
<1>9. /\ f \in CacheType /\ f.wb = [k.wb EXCEPT ![a] = v]
      /\ f.blk = k.blk /\ f.mshr = k.mshr /\ f.lines = k.lines
      /\ f.blocked = k.blocked /\ f.noTargetMSHR = k.noTargetMSHR
      /\ f.writeBuffers = k.writeBuffers /\ f.unripe = u
      /\ f.readyMiss = k.readyMiss /\ f.readyWB = k.readyWB
  <2>1. PICK ws : ws = [k.wb EXCEPT ![a] = v]
    OBVIOUS
  <2>2. ws \in [Addrs -> WBType \cup {NoWB}]
    BY <1>4, <1>8, <2>1
  <2>3. f = [k EXCEPT !.wb = ws, !.unripe = u]
    BY <1>7, <2>1
  <2>. QED  BY <1>6, <2>1, <2>2, <2>3 DEF CacheType
<1>10. /\ f.wb[a] = v /\ \A x \in Addrs : x # a => f.wb[x] = k.wb[x]
  BY <1>8, <1>9
<1>11. ASSUME NEW x \in Addrs, QueueOK(k, x) PROVE QueueOK(f, x)
  <2>1. Pending(f, x) <=> Pending(k, x)
    BY <1>9 DEF Pending
  <2>2. PICK kind \in {"miss", "wb", "deferred"} : kind = "wb"
    OBVIOUS
  <2>3. /\ f.unripe = Append(k.unripe, Token(kind, a))
        /\ f.readyMiss = k.readyMiss /\ f.readyWB = k.readyWB
        /\ kind = "miss" /\ x = a => ~Pending(k, x) /\ Pending(f, x)
        /\ ~(kind = "miss" /\ x = a) => (Pending(f, x) <=> Pending(k, x))
        /\ kind = "wb" /\ x = a => k.wb[x] = NoWB /\ f.wb[x] # NoWB
        /\ ~(kind = "wb" /\ x = a) => (f.wb[x] # NoWB <=> k.wb[x] # NoWB)
        /\ kind = "deferred" /\ x = a => /\ ~On(k.unripe, Token("deferred", x))
                                         /\ f.mshr[x] # NoMSHR /\ f.mshr[x].deferred # << >>
        /\ k.mshr[x] # NoMSHR /\ k.mshr[x].deferred # << >> =>
             f.mshr[x] # NoMSHR /\ f.mshr[x].deferred # << >>
    BY <1>4, <1>5, <1>9, <1>10, <2>1, <2>2
  <2>. QED  BY <1>9, <1>11, <2>2, <2>3, QueueAdd, ZenonT(60)
<1>12. ASSUME CauseOK(k) PROVE CauseOK(f)
  BY <1>4, <1>9, <1>10, <1>12, CauseKept
<1>13. kk = IF WBFull(f) THEN [f EXCEPT !.blocked = @ \cup {"NoWBBuffers"}] ELSE f
  BY <1>1, <1>3, <1>5, <1>7 DEF AllocateWriteBuffer
<1>14. Waiting(f, a) = data
  BY <1>4, <1>10 DEF Waiting
<1>15. OthersKept(f, k, a)
  <2>1. ASSUME NEW x \in Addrs, x # a PROVE OrderKept(f, k, x)
    <3>1. PICK kind \in {"miss", "wb", "deferred"} : kind = "wb"
      OBVIOUS
    <3>2. f.unripe = Append(k.unripe, Token(kind, a)) /\ Token(kind, a) # Token("wb", x)
      BY <1>5, <1>9, <2>1, <3>1, TokenFacts
    <3>. QED  BY <1>9, <1>10, <2>1, <3>2, KeptAppend
  <2>. QED  BY <2>1 DEF OthersKept
<1>16. k.mshr[a] = NoMSHR => f.wb[a].older = {}
  BY <1>1, <1>3, <1>10
<1>17. CASE ~WBFull(f)
  <2>1. kk = f
    BY <1>13, <1>17
  <2>2. OthersKept(kk, k, a) /\ (k.mshr[a] = NoMSHR => kk.wb[a].older = {})
    BY <1>15, <1>16, <2>1
  <2>. QED  BY <1>4, <1>9, <1>10, <1>11, <1>12, <1>14, <2>1, <2>2
<1>18. CASE WBFull(f)
  <2>1. PICK S : S = f.blocked \cup {"NoWBBuffers"}
    OBVIOUS
  <2>2. S \in SUBSET {"NoMSHRs", "NoWBBuffers", "NoTargets"}
    BY <1>9, <2>1 DEF CacheType
  <2>3. kk = [f EXCEPT !.blocked = S]
    BY <1>13, <1>18, <2>1
  <2>4. /\ kk \in CacheType /\ kk.blocked = S
        /\ kk.blk = f.blk /\ kk.mshr = f.mshr /\ kk.wb = f.wb /\ kk.lines = f.lines
        /\ kk.noTargetMSHR = f.noTargetMSHR
        /\ kk.writeBuffers = f.writeBuffers /\ kk.unripe = f.unripe
        /\ kk.readyMiss = f.readyMiss /\ kk.readyWB = f.readyWB
    BY <1>9, <2>2, <2>3, SetBlockedFacts
  <2>5. ASSUME NEW x \in Addrs, QueueOK(k, x) PROVE QueueOK(kk, x)
    <3>1. QueueOK(f, x)
      BY <1>11, <2>5
    <3>2. Pending(kk, x) <=> Pending(f, x)
      BY <2>4 DEF Pending
    <3>. QED  BY <1>9, <2>4, <3>1, <3>2, QueueSame
  <2>6. ASSUME CauseOK(k) PROVE CauseOK(kk)
    <3>1. PICK cause : cause = "NoWBBuffers"
      OBVIOUS
    <3>2. /\ CauseOK(f) /\ kk.blocked = f.blocked \cup {cause}
          /\ kk.writeBuffers = f.writeBuffers /\ kk.mshr = f.mshr /\ kk.wb = f.wb
          /\ kk.noTargetMSHR # f.noTargetMSHR => cause = "NoTargets"
          /\ cause = "NoMSHRs" => MSHRsFull(f)
          /\ cause = "NoWBBuffers" => WBFull(f)
          /\ cause = "NoTargets" => kk.noTargetMSHR # NoMSHR /\ f.mshr[kk.noTargetMSHR] # NoMSHR
      BY <1>12, <1>18, <2>1, <2>4, <2>6, <3>1
    <3>. QED  BY <1>9, <2>4, <3>2, CauseAdded, Zenon
  <2>7. Waiting(kk, a) = data
    BY <1>14, <2>4 DEF Waiting
  <2>8. OthersKept(kk, k, a)
    <3>1. ASSUME NEW x \in Addrs, x # a PROVE OrderKept(kk, k, x)
      <4>1. OrderKept(kk, f, x)
        BY <2>4, KeptSame
      <4>. QED  BY <1>15, <3>1, <4>1, KeptThrough DEF OthersKept
    <3>. QED  BY <3>1 DEF OthersKept
  <2>9. k.mshr[a] = NoMSHR => kk.wb[a].older = {}
    BY <1>16, <2>4
  <2>. QED  BY <1>4, <1>9, <1>10, <2>4, <2>5, <2>6, <2>7, <2>8, <2>9
<1>. QED  BY <1>17, <1>18

(* The request has been answered: the block is e, the MSHR is left with    *)
(* the deferred targets of n.                                              *)
SettledAs(kk, k, a, n, e, temp) ==
  /\ kk \in CacheType
  /\ kk.blk[a] = (IF temp THEN NoBlock ELSE e) /\ \A x \in Addrs : x # a => kk.blk[x] = k.blk[x]
  /\ kk.mshr[a] = [n EXCEPT !.targets = << >>] /\ \A x \in Addrs : x # a => kk.mshr[x] = k.mshr[x]
  /\ kk.wb = k.wb /\ kk.blocked = k.blocked /\ kk.noTargetMSHR = k.noTargetMSHR
  /\ kk.writeBuffers = k.writeBuffers
  /\ e = NoBlock /\ ~temp => /\ kk.lines.pcm = k.lines.pcm + (IF a \in Pcm THEN -1 ELSE 0)
                             /\ kk.lines.dram = k.lines.dram + (IF a \in Pcm THEN 0 ELSE -1)
  /\ ~(e = NoBlock /\ ~temp) => kk.lines = k.lines
  /\ (\A x \in Addrs : QueueOK(k, x)) => \A x \in Addrs : QueueOK(kk, x)
  /\ CauseOK(k) => CauseOK(kk)
  /\ n.deferred = << >> /\ QueueOK(k, a) => ~On(kk.unripe, Token("deferred", a))
  /\ OthersKept(kk, k, a)

LEMMA SettleFacts ==
  ASSUME NEW k \in CacheType, NEW a \in Addrs, NEW m \in MSHRType, k.mshr[a] = m, m.inService,
         NEW n \in MSHRType, n.inService, n.deferred # << >> => m.deferred # << >>,
         NEW e \in BlockType, NEW temp \in BOOLEAN, NEW kk, kk = SettleBlock(k, a, n, e, temp)
  PROVE  SettledAs(kk, k, a, n, e, temp)
<1>1. PICK f : f = IF e = NoBlock /\ ~temp THEN DecSetLine(k, a) ELSE k
  OBVIOUS
<1>2. /\ f \in CacheType
      /\ f.blk = k.blk /\ f.mshr = k.mshr /\ f.wb = k.wb
      /\ f.blocked = k.blocked /\ f.noTargetMSHR = k.noTargetMSHR
      /\ f.writeBuffers = k.writeBuffers /\ f.unripe = k.unripe
      /\ f.readyMiss = k.readyMiss /\ f.readyWB = k.readyWB
      /\ e = NoBlock /\ ~temp => /\ f.lines.pcm = k.lines.pcm + (IF a \in Pcm THEN -1 ELSE 0)
                                 /\ f.lines.dram = k.lines.dram + (IF a \in Pcm THEN 0 ELSE -1)
      /\ ~(e = NoBlock /\ ~temp) => f.lines = k.lines
  <2>1. CASE e = NoBlock /\ ~temp
    <3>1. PICK j \in Int : j = -1
      OBVIOUS
    <3>2. f = DecSetLine(k, a)
      BY <1>1, <2>1
    <3>3. /\ f \in CacheType
          /\ f.lines.pcm = k.lines.pcm + (IF a \in Pcm THEN j ELSE 0)
          /\ f.lines.dram = k.lines.dram + (IF a \in Pcm THEN 0 ELSE j)
          /\ f.blk = k.blk /\ f.mshr = k.mshr /\ f.wb = k.wb
          /\ f.blocked = k.blocked /\ f.noTargetMSHR = k.noTargetMSHR
          /\ f.writeBuffers = k.writeBuffers /\ f.unripe = k.unripe
          /\ f.readyMiss = k.readyMiss /\ f.readyWB = k.readyWB
      BY <3>1, <3>2, SetLineFacts
    <3>. QED  BY <2>1, <3>1, <3>3
  <2>2. CASE ~(e = NoBlock /\ ~temp)
    BY <1>1, <2>2
  <2>. QED  BY <2>1, <2>2
<1>3. PICK u : u = IF n.deferred = << >> THEN RemoveFirst(k.unripe, Token("deferred", a)) ELSE k.unripe
  OBVIOUS
<1>4. k.unripe \in Seq(Tokens) /\ k.readyMiss \in Seq(Addrs) /\ k.readyWB \in Seq(Addrs)
  BY ListTypes
<1>5. /\ u \in Seq(Tokens)
      /\ \A x : Once(k.unripe, x) => Once(u, x)
      /\ \A x : x # Token("deferred", a) => (On(u, x) <=> On(k.unripe, x))
      /\ n.deferred = << >> /\ Once(k.unripe, Token("deferred", a)) => ~On(u, Token("deferred", a))
      /\ n.deferred # << >> => u = k.unripe
  BY <1>3, <1>4, RemoveFirstFacts
<1>6. << >> \in Seq(TargetType)
  OBVIOUS
<1>7. PICK l : l = [n EXCEPT !.targets = << >>]
  OBVIOUS
<1>8. l \in MSHRType /\ l.inService /\ l.deferred = n.deferred
  BY <1>6, <1>7 DEF MSHRType
<1>9. PICK b : b = IF temp THEN NoBlock ELSE e
  OBVIOUS
<1>10. b \in BlockType
  BY <1>9 DEF NoBlock, BlockType
<1>11. PICK bs, ms : bs = [k.blk EXCEPT ![a] = b] /\ ms = [k.mshr EXCEPT ![a] = l]
  OBVIOUS
<1>12. bs \in [Addrs -> BlockType] /\ ms \in [Addrs -> MSHRType \cup {NoMSHR}]
  <2>1. k.blk \in [Addrs -> BlockType] /\ k.mshr \in [Addrs -> MSHRType \cup {NoMSHR}]
    BY DEF CacheType
  <2>. QED  BY <1>8, <1>10, <1>11, <2>1
<1>13. kk = [f EXCEPT !.mshr = ms, !.unripe = u, !.blk = bs]
  BY <1>1, <1>2, <1>3, <1>7, <1>9, <1>11 DEF SettleBlock
<1>14. /\ kk \in CacheType /\ kk.blk = bs /\ kk.mshr = ms /\ kk.wb = f.wb
       /\ kk.blocked = f.blocked /\ kk.noTargetMSHR = f.noTargetMSHR
       /\ kk.writeBuffers = f.writeBuffers /\ kk.lines = f.lines
       /\ kk.unripe = u /\ kk.readyMiss = f.readyMiss /\ kk.readyWB = f.readyWB
  <2>1. u \in Seq({"miss", "wb", "deferred"} \X Addrs)
    BY <1>5 DEF Tokens
  <2>2. f \in CacheType
    BY <1>2
  <2>. QED  BY <1>12, <1>13, <2>1, <2>2, ZenonT(60) DEF CacheType
<1>15. kk.mshr[a] = l /\ \A x \in Addrs : x # a => kk.mshr[x] = k.mshr[x]
  BY <1>11, <1>14 DEF CacheType
<1>16. l # NoMSHR /\ m # NoMSHR
  BY <1>8, NullAssumption
<1>17. ASSUME NEW x \in Addrs, QueueOK(k, x) PROVE QueueOK(kk, x)
  <2>1. Pending(kk, x) <=> Pending(k, x)
    BY <1>8, <1>15, <1>16 DEF Pending
  <2>2. /\ Once(k.unripe, Token("miss", x)) /\ Once(k.readyMiss, x)
        /\ ~(On(k.unripe, Token("miss", x)) /\ On(k.readyMiss, x))
        /\ Pending(k, x) <=> On(k.unripe, Token("miss", x)) \/ On(k.readyMiss, x)
        /\ Once(k.unripe, Token("wb", x)) /\ Once(k.readyWB, x)
        /\ ~(On(k.unripe, Token("wb", x)) /\ On(k.readyWB, x))
        /\ k.wb[x] # NoWB <=> On(k.unripe, Token("wb", x)) \/ On(k.readyWB, x)
        /\ Once(k.unripe, Token("deferred", x))
        /\ On(k.unripe, Token("deferred", x)) => k.mshr[x] # NoMSHR /\ k.mshr[x].deferred # << >>
    BY <1>17 DEF QueueOK, ListOK
  <2>3. Token("miss", x) # Token("deferred", a) /\ Token("wb", x) # Token("deferred", a)
    BY TokenFacts
  <2>4. /\ (On(u, Token("miss", x)) <=> On(k.unripe, Token("miss", x)))
        /\ (On(u, Token("wb", x)) <=> On(k.unripe, Token("wb", x)))
        /\ Once(u, Token("miss", x)) /\ Once(u, Token("wb", x)) /\ Once(u, Token("deferred", x))
    BY <1>5, <2>2, <2>3
  <2>5. ListOK(kk.unripe, kk.readyMiss, "miss", x, Pending(kk, x))
    BY <1>2, <1>14, <2>1, <2>2, <2>4 DEF ListOK
  <2>6. ListOK(kk.unripe, kk.readyWB, "wb", x, kk.wb[x] # NoWB)
    BY <1>2, <1>14, <2>2, <2>4 DEF ListOK
  <2>7. ASSUME On(u, Token("deferred", x)) PROVE kk.mshr[x] # NoMSHR /\ kk.mshr[x].deferred # << >>
    <3>1. CASE x = a
      <4>1. n.deferred # << >>
        BY <1>5, <2>2, <2>7, <3>1
      <4>. QED  BY <1>8, <1>15, <1>16, <3>1, <4>1
    <3>2. CASE x # a
      <4>1. Token("deferred", x) # Token("deferred", a)
        BY <3>2, TokenFacts
      <4>. QED  BY <1>5, <1>15, <2>2, <2>7, <3>2, <4>1
    <3>. QED  BY <3>1, <3>2
  <2>. QED  BY <1>14, <2>4, <2>5, <2>6, <2>7 DEF QueueOK
<1>18. ASSUME CauseOK(k) PROVE CauseOK(kk)
  <2>1. \A x \in Addrs : k.mshr[x] # NoMSHR => kk.mshr[x] # NoMSHR
    BY <1>15, <1>16
  <2>. QED  BY <1>2, <1>14, <1>18, <2>1, CauseKept
<1>19. n.deferred = << >> /\ QueueOK(k, a) => ~On(kk.unripe, Token("deferred", a))
  BY <1>5, <1>14 DEF QueueOK
<1>20. kk.blk[a] = b /\ \A x \in Addrs : x # a => kk.blk[x] = k.blk[x]
  BY <1>11, <1>14 DEF CacheType
<1>21. ASSUME NEW x \in Addrs PROVE OrderKept(kk, k, x)
  <2>1. Token("deferred", a) # Token("wb", x)
    BY TokenFacts
  <2>2. CASE n.deferred = << >>
    <3>1. /\ kk.unripe = RemoveFirst(k.unripe, Token("deferred", a)) /\ kk.wb[x] = k.wb[x]
          /\ kk.readyMiss = k.readyMiss
      BY <1>2, <1>3, <1>14, <2>2
    <3>. QED  BY <2>1, <3>1, KeptRemove
  <2>3. CASE n.deferred # << >>
    BY <1>2, <1>3, <1>14, <2>3, KeptSame
  <2>. QED  BY <2>2, <2>3
<1>22. OthersKept(kk, k, a)
  BY <1>21 DEF OthersKept
<1>. QED  BY <1>2, <1>7, <1>9, <1>14, <1>15, <1>17, <1>18, <1>19, <1>20, <1>22 DEF SettledAs

(* The deferred targets make a new request, which needs the block; the     *)
(* accesses in S are over.                                                 *)
LEMMA RetireFacts ==
  ASSUME NEW k \in CacheType, NEW a \in Addrs, NEW n \in MSHRType, n.inService,
         k.mshr[a] = [n EXCEPT !.targets = << >>], k.noTargetMSHR # a,
         n.deferred = << >> => ~On(k.unripe, Token("deferred", a)),
         NEW done, NEW kk, kk = RetireTargets(k, a, n, done), \A x \in Addrs : QueueOK(k, x), CauseOK(k)
  PROVE  /\ kk \in CacheType
         /\ kk.blk[a] = Unread(k.blk[a], n) /\ \A x \in Addrs : x # a => kk.blk[x] = k.blk[x]
         /\ kk.mshr[a] = Promoted(n) /\ \A x \in Addrs : x # a => kk.mshr[x] = k.mshr[x]
         /\ kk.lines = k.lines
         /\ \A x \in Addrs : /\ kk.wb[x] = NoWB <=> k.wb[x] = NoWB
                             /\ Waiting(kk, x) = Waiting(k, x)
         /\ \A x \in Addrs : QueueOK(kk, x)
         /\ CauseOK(kk)
         /\ OthersKept(kk, k, a)
<1>1. << >> \in Seq(TargetType)
  OBVIOUS
<1>2. PICK l : l = [n EXCEPT !.targets = << >>]
  OBVIOUS
<1>3. l \in MSHRType /\ l.inService /\ l.deferred = n.deferred /\ l # NoMSHR
  BY <1>1, <1>2, NullAssumption DEF MSHRType
<1>4. k.mshr[a] = l /\ k.blk \in [Addrs -> BlockType] /\ k.mshr \in [Addrs -> MSHRType \cup {NoMSHR}]
  BY <1>2 DEF CacheType
<1>5. PICK f : f = IF n.deferred # << >> THEN PromoteDeferredTargets(k, a) ELSE Deallocate(k, a)
  OBVIOUS
<1>6. /\ f \in CacheType
      /\ f.blk[a] = Unread(k.blk[a], n) /\ \A x \in Addrs : x # a => f.blk[x] = k.blk[x]
      /\ f.mshr[a] = Promoted(n) /\ \A x \in Addrs : x # a => f.mshr[x] = k.mshr[x]
      /\ f.lines = k.lines /\ f.wb = k.wb
      /\ \A x \in Addrs : QueueOK(f, x)
      /\ CauseOK(f)
      /\ OthersKept(f, k, a)
  <2>1. CASE n.deferred # << >>
    <3>1. f = PromoteDeferredTargets(k, a) /\ l.deferred # << >>
      BY <1>3, <1>5, <2>1
    <3>2. /\ f \in CacheType
          /\ f.blk = [k.blk EXCEPT ![a] = Unread(k.blk[a], l)]
          /\ f.mshr = [k.mshr EXCEPT ![a] = Promoted(l)]
          /\ f.wb = k.wb /\ f.lines = k.lines
          /\ f.blocked = k.blocked /\ f.noTargetMSHR = k.noTargetMSHR
          /\ f.writeBuffers = k.writeBuffers
          /\ \A x \in Addrs : QueueOK(f, x)
          /\ OthersKept(f, k, a)
      <4>1. l \in MSHRType /\ k.mshr[a] = l /\ l.inService /\ l.deferred # << >>
        BY <1>3, <1>4, <3>1
      <4>. QED  BY <3>1, <4>1, PromoteFacts
    <3>3. Promoted(l) = Promoted(n) /\ Unread(k.blk[a], l) = Unread(k.blk[a], n)
      BY <1>2, <1>3 DEF MSHRType, Promoted, Unread
    <3>4. f.mshr[a] = Promoted(n) /\ \A x \in Addrs : x # a => f.mshr[x] = k.mshr[x]
      BY <1>4, <3>2, <3>3
    <3>5. f.blk[a] = Unread(k.blk[a], n) /\ \A x \in Addrs : x # a => f.blk[x] = k.blk[x]
      BY <1>4, <3>2, <3>3
    <3>6. Promoted(n) # NoMSHR
      <4>1. PICK no : no = FALSE
        OBVIOUS
      <4>2. no \in BOOLEAN
        BY <4>1
      <4>3. [n EXCEPT !.targets = n.deferred, !.deferred = << >>, !.inService = no] \in MSHRType
        BY <1>1, <4>2 DEF MSHRType
      <4>. QED  BY <2>1, <4>1, <4>3, NullAssumption DEF Promoted
    <3>7. CauseOK(f)
      <4>1. \A x \in Addrs : k.mshr[x] # NoMSHR => f.mshr[x] # NoMSHR
        BY <3>4, <3>6
      <4>. QED  BY <3>2, <4>1, CauseKept
    <3>. QED  BY <3>2, <3>4, <3>5, <3>7
  <2>2. CASE n.deferred = << >>
    <3>1. f = Deallocate(k, a)
      BY <1>5, <2>2
    <3>2. /\ f \in CacheType
          /\ f.blk = k.blk /\ f.mshr = [k.mshr EXCEPT ![a] = NoMSHR] /\ f.wb = k.wb
          /\ f.lines = k.lines /\ f.noTargetMSHR = k.noTargetMSHR
          /\ f.writeBuffers = k.writeBuffers /\ f.unripe = k.unripe
          /\ f.readyMiss = k.readyMiss /\ f.readyWB = k.readyWB
          /\ CauseOK(f)
      BY <3>1, DeallocateFacts
    <3>3. f.mshr[a] = NoMSHR /\ \A x \in Addrs : x # a => f.mshr[x] = k.mshr[x]
      BY <1>4, <3>2
    <3>4. f.mshr[a] = Promoted(n) /\ f.blk[a] = Unread(k.blk[a], n)
      BY <2>2, <3>2, <3>3 DEF Promoted, Unread
    <3>5. ASSUME NEW x \in Addrs PROVE QueueOK(f, x)
      <4>1. QueueOK(k, x) /\ (Pending(f, x) <=> Pending(k, x))
        BY <1>3, <1>4, <3>3 DEF Pending
      <4>2. k.mshr[x] # NoMSHR /\ k.mshr[x].deferred # << >> =>
              f.mshr[x] # NoMSHR /\ f.mshr[x].deferred # << >>
        BY <1>3, <1>4, <2>2, <3>3
      <4>. QED  BY <3>2, <4>1, <4>2, QueueSame
    <3>6. OthersKept(f, k, a)
      BY <3>2, KeptSame DEF OthersKept
    <3>. QED  BY <3>2, <3>3, <3>4, <3>5, <3>6
  <2>. QED  BY <2>1, <2>2
<1>7. PICK S : S = {d.op : d \in done} /\ kk = Forget(f, S)
  BY <1>5 DEF RetireTargets
<1>8. /\ kk \in CacheType
      /\ kk.blk = f.blk /\ kk.mshr = f.mshr /\ kk.lines = f.lines
      /\ \A x \in Addrs : /\ kk.wb[x] = NoWB <=> f.wb[x] = NoWB
                          /\ Waiting(kk, x) = Waiting(f, x)
      /\ \A x \in Addrs : QueueOK(kk, x)
      /\ CauseOK(kk)
      /\ OthersKept(kk, f, a)
  BY <1>6, <1>7, ForgetFacts
<1>9. \A x \in Addrs : Waiting(f, x) = Waiting(k, x)
  BY <1>6 DEF Waiting
<1>10. OthersKept(kk, k, a)
  BY <1>6, <1>8, KeptThrough DEF OthersKept
<1>. QED  BY <1>6, <1>8, <1>9, <1>10

(* A block is written back. *)
Saving(k, y, d, save) == IF save THEN AllocateWriteBuffer(k, y, d) ELSE k

LEMMA SavingFacts ==
  ASSUME NEW k \in CacheType, NEW y \in Addrs, k.wb[y] = NoWB, NEW save \in BOOLEAN,
         NEW d, save => d \in Nat,
         NEW kk, kk = Saving(k, y, d, save), \A x \in Addrs : QueueOK(k, x), CauseOK(k)
  PROVE  /\ kk \in CacheType
         /\ kk.blk = k.blk /\ kk.mshr = k.mshr /\ kk.lines = k.lines
         /\ Waiting(kk, y) = IF save THEN d ELSE NoWB
         /\ \A x \in Addrs : x # y => Waiting(kk, x) = Waiting(k, x)
         /\ \A x \in Addrs : QueueOK(kk, x)
         /\ CauseOK(kk)
         /\ OthersKept(kk, k, y)
         /\ save /\ k.mshr[y] = NoMSHR => kk.wb[y].older = {}
         /\ ~save => kk = k
<1>1. CASE save
  <2>1. kk = AllocateWriteBuffer(k, y, d) /\ d \in Nat
    BY <1>1 DEF Saving
  <2>2. /\ kk \in CacheType
        /\ kk.blk = k.blk /\ kk.mshr = k.mshr /\ kk.lines = k.lines
        /\ Waiting(kk, y) = d
        /\ \A x \in Addrs : x # y => kk.wb[x] = k.wb[x]
        /\ \A x \in Addrs : QueueOK(kk, x)
        /\ CauseOK(kk)
        /\ OthersKept(kk, k, y)
        /\ k.mshr[y] = NoMSHR => kk.wb[y].older = {}
    BY <2>1, WriteBufferFacts
  <2>3. \A x \in Addrs : x # y => Waiting(kk, x) = Waiting(k, x)
    BY <2>2 DEF Waiting
  <2>. QED  BY <1>1, <2>2, <2>3
<1>2. CASE ~save
  <2>1. kk = k
    BY <1>2 DEF Saving
  <2>2. OthersKept(kk, k, y)
    BY <2>1, KeptSame, Zenon DEF OthersKept
  <2>. QED  BY <1>2, <2>1, <2>2 DEF Waiting
<1>. QED  BY <1>1, <1>2

(* recvTimingResp(), one part after the other. *)
RespAsserts(k, a, r, victim, k0, k3, n, w, e, T, temp) ==
  /\ w.fits
  /\ HasData(r.cmd) \/ a \in ValidIn(k)
  /\ n # k0.mshr[a] => ~ListNeedsExclusive(k0.mshr[a].targets)
  /\ temp => /\ ListNeedsExclusive(k0.mshr[victim].targets)
             /\ "W" \in k0.blk[victim].status => "D" \in k0.blk[victim].status
             /\ ~("V" \in w.blk.status /\ e = NoBlock)
  /\ (\E t \in Range(n.targets) : t.source = "snoop") =>
       (r.cmd = "ReadRespWithInvalidate" => n.postInvalidate)
  /\ \A y \in T : k3.wb[y] = NoWB

Saved(k0, k3, a, e, T) ==
  LET x == CHOOSE x \in T : TRUE IN
  IF T = {} THEN k3
  ELSE AllocateWriteBuffer(k3, x, IF x = a THEN e.data ELSE k0.blk[x].data)

Stages(k, a, r, victim, k0, k1, k2, k3, n, w, e, T, temp) ==
  /\ k0 = ClearNoTargets(k, a) /\ n = MSHRHandleFill(k0.mshr[a], r)
  /\ temp = NoRoom(k0, a, victim)
  /\ k1 = IF temp THEN IncSetLine(k0, a) ELSE AllocateBlock(k0, a, victim)
  /\ w = ServeTargets(Filled(k1.blk[a], r), n) /\ e = AfterTargets(w.blk, n, r)
  /\ k2 = SettleBlock(k1, a, n, e, temp) /\ k3 = RetireTargets(k2, a, n, w.done)
  /\ T = IF temp /\ "D" \in e.status THEN {a} ELSE Evicted(k0, a, victim)
  /\ RecvTimingResp(k, a, r, victim) =
       [k |-> IF temp THEN DecSetLine(Saved(k0, k3, a, e, T), a) ELSE Saved(k0, k3, a, e, T),
        done |-> w.done, writes |-> w.writes, answers |-> w.answers,
        asserts |-> RespAsserts(k, a, r, victim, k0, k3, n, w, e, T, temp)]

LEMMA RespStages ==
  ASSUME NEW k, NEW a, NEW r, NEW victim
  PROVE  \E k0, k1, k2, k3, n, w, e, T, temp :
           Stages(k, a, r, victim, k0, k1, k2, k3, n, w, e, T, temp)
<1>. DEFINE k0 == ClearNoTargets(k, a)
            n == MSHRHandleFill(k0.mshr[a], r)
            temp == NoRoom(k0, a, victim)
            k1 == IF temp THEN IncSetLine(k0, a) ELSE AllocateBlock(k0, a, victim)
            w == ServeTargets(Filled(k1.blk[a], r), n)
            e == AfterTargets(w.blk, n, r)
            k2 == SettleBlock(k1, a, n, e, temp)
            k3 == RetireTargets(k2, a, n, w.done)
            T == IF temp /\ "D" \in e.status THEN {a} ELSE Evicted(k0, a, victim)
            kk == IF temp THEN DecSetLine(Saved(k0, k3, a, e, T), a) ELSE Saved(k0, k3, a, e, T)
<1>1. RecvTimingResp(k, a, r, victim) =
        [k |-> kk, done |-> w.done, writes |-> w.writes, answers |-> w.answers,
         asserts |-> RespAsserts(k, a, r, victim, k0, k3, n, w, e, T, temp)]
  BY DEF RecvTimingResp, Saved, RespAsserts
<1>2. /\ k0 = ClearNoTargets(k, a) /\ n = MSHRHandleFill(k0.mshr[a], r)
      /\ temp = NoRoom(k0, a, victim)
      /\ k1 = IF temp THEN IncSetLine(k0, a) ELSE AllocateBlock(k0, a, victim)
      /\ w = ServeTargets(Filled(k1.blk[a], r), n) /\ e = AfterTargets(w.blk, n, r)
      /\ k2 = SettleBlock(k1, a, n, e, temp) /\ k3 = RetireTargets(k2, a, n, w.done)
      /\ T = IF temp /\ "D" \in e.status THEN {a} ELSE Evicted(k0, a, victim)
      /\ kk = IF temp THEN DecSetLine(Saved(k0, k3, a, e, T), a) ELSE Saved(k0, k3, a, e, T)
  OBVIOUS
<1>. HIDE DEF k0, n, temp, k1, w, e, k2, k3, T, kk
<1>3. PICK z : z = temp
  BY ZenonT(40)
<1>4. Stages(k, a, r, victim, k0, k1, k2, k3, n, w, e, T, z)
  BY <1>1, <1>2, <1>3 DEF Stages
<1>. QED  BY <1>4, ZenonT(40)

(* The writebacks stand where they stood; a new one is of a block that has *)
(* no MSHR, or of the block that has arrived and finds no room.            *)
RespKeeps(kk, k, a, n, temp) ==
  /\ \A x \in Addrs : x # a =>
       OrderKept(kk, k, x) \/ (kk.wb[x].older = {} /\ kk.mshr[x] = NoMSHR)
  /\ kk.wb[a] # NoWB => temp /\ (n.deferred = << >> => kk.wb[a].older = {})

(* What recvTimingResp() makes of the fields of a cache. *)
RespResult(kk, res, k, a, r, victim, n, w, e, temp) ==
  /\ victim \in Addrs
  /\ victim # a => ~Valid(k.blk[a]) /\ Valid(k.blk[victim])
  /\ kk \in CacheType
  /\ \A x \in Addrs : QueueOK(kk, x)
  /\ CauseOK(kk) /\ LinesOK(kk)
  /\ res.done = w.done /\ res.writes = w.writes /\ res.answers = w.answers
  /\ kk.mshr[a] = Promoted(n) /\ \A x \in Addrs : x # a => kk.mshr[x] = k.mshr[x]
  /\ kk.blk[a] = Unread(IF temp THEN NoBlock ELSE e, n)
  /\ \A x \in Addrs : x # a => kk.blk[x] = IF ~temp /\ x = victim THEN NoBlock ELSE k.blk[x]
  /\ Waiting(kk, a) = IF temp /\ Dirty(e) THEN e.data ELSE NoWB
  /\ \A x \in Addrs : x # a =>
       Waiting(kk, x) = IF ~temp /\ x = victim /\ Dirty(k.blk[x]) THEN k.blk[x].data
                        ELSE Waiting(k, x)
  /\ res.asserts <=>
       /\ w.fits
       /\ HasData(r.cmd) \/ Valid(k.blk[a])
       /\ n # k.mshr[a] => ~ListNeedsExclusive(k.mshr[a].targets)
       /\ temp => /\ ListNeedsExclusive(k.mshr[victim].targets)
                  /\ Writable(k.blk[victim]) => Dirty(k.blk[victim])
                  /\ ~(Valid(w.blk) /\ e = NoBlock)
       /\ (\E t \in Range(n.targets) : t.source = "snoop") =>
            (r.cmd = "ReadRespWithInvalidate" => n.postInvalidate)
  /\ RespKeeps(kk, k, a, n, temp)

LEMMA RespFields ==
  ASSUME NEW k \in CacheType, LocalOK(k), NEW a \in Addrs, NEW r, NEW ll \in Nat,
         NEW victim \in Victims(k, a), Sent(k.mshr[a]), Arrives(k.blk[a], k.mshr[a], r, ll),
         k.wb[a] = NoWB, \A x \in Addrs : Valid(k.blk[x]) => k.wb[x] = NoWB,
         NEW n, n = MSHRHandleFill(k.mshr[a], r), NEW w, w = ServeTargets(Filled(k.blk[a], r), n),
         NEW e, e = AfterTargets(w.blk, n, r), NEW kk, NEW res, res = RecvTimingResp(k, a, r, victim),
         kk = res.k, NEW temp \in BOOLEAN, temp <=> victim # a /\ k.mshr[victim] # NoMSHR
  PROVE  RespResult(kk, res, k, a, r, victim, n, w, e, temp)
<1>1. PICK k0, k1, k2, k3, n0, w0, e0, T, temp0 :
        Stages(k, a, r, victim, k0, k1, k2, k3, n0, w0, e0, T, temp0)
  BY RespStages
<1>2. /\ k0 \in CacheType
      /\ k0.blk = k.blk /\ k0.mshr = k.mshr /\ k0.wb = k.wb /\ k0.lines = k.lines
      /\ k0.writeBuffers = k.writeBuffers /\ k0.unripe = k.unripe
      /\ k0.readyMiss = k.readyMiss /\ k0.readyWB = k.readyWB
      /\ CauseOK(k0) /\ k0.noTargetMSHR # a
  <2>1. k0 = ClearNoTargets(k, a)
    BY <1>1, ZenonT(60) DEF Stages
  <2>2. CauseOK(k)
    BY DEF LocalOK
  <2>. QED  BY <2>1, <2>2, ClearFacts, SMTT(60)
<1>3. \A x \in Addrs : QueueOK(k0, x)
  <2>. SUFFICES ASSUME NEW x \in Addrs PROVE QueueOK(k0, x)
    OBVIOUS
  <2>1. QueueOK(k, x) /\ (Pending(k0, x) <=> Pending(k, x))
    BY <1>2 DEF LocalOK, Pending
  <2>. QED  BY <1>2, <2>1, QueueSame
<1>4. LinesOK(k0) /\ victim \in Victims(k0, a)
  <2>1. ValidIn(k0) = ValidIn(k)
    BY <1>2, SMTT(60) DEF ValidIn
  <2>. QED  BY <1>2, <2>1 DEF LinesOK, LocalOK, Victims
<1>5. temp0 = temp /\ n0 = n
  BY <1>1, <1>2, ZenonT(60) DEF Stages, NoRoom
<1>6. /\ k1 \in CacheType /\ victim \in Addrs
      /\ victim # a => ~Valid(k0.blk[a]) /\ Valid(k0.blk[victim])
      /\ k1.blk = IF temp \/ victim = a THEN k0.blk ELSE [k0.blk EXCEPT ![victim] = NoBlock]
      /\ k1.mshr = k0.mshr /\ k1.wb = k0.wb
      /\ k1.blocked = k0.blocked /\ k1.noTargetMSHR = k0.noTargetMSHR
      /\ k1.writeBuffers = k0.writeBuffers /\ k1.unripe = k0.unripe
      /\ k1.readyMiss = k0.readyMiss /\ k1.readyWB = k0.readyWB
      /\ temp => /\ k1.lines.pcm = k0.lines.pcm + (IF a \in Pcm THEN 1 ELSE 0)
                 /\ k1.lines.dram = k0.lines.dram + (IF a \in Pcm THEN 0 ELSE 1)
      /\ ~temp => LinesWith(k1, a)
  <2>1. /\ temp = NoRoom(k0, a, victim)
        /\ k1 = IF temp THEN IncSetLine(k0, a) ELSE AllocateBlock(k0, a, victim)
    BY <1>1, <1>5, ZenonT(60) DEF Stages
  <2>. QED  BY <1>2, <1>4, <2>1, AllocateFacts
<1>7. /\ k1.blk[a] = k.blk[a]
      /\ \A x \in Addrs : x # a => k1.blk[x] = IF ~temp /\ x = victim THEN NoBlock ELSE k.blk[x]
  <2>1. k.blk \in [Addrs -> BlockType]
    BY SMTT(60) DEF CacheType
  <2>. QED  BY <1>2, <1>6, <2>1
<1>8. w0 = w /\ e0 = e
  BY <1>1, <1>5, <1>7, ZenonT(60) DEF Stages
<1>9. PICK m : m = k.mshr[a]
  OBVIOUS
<1>10. /\ m \in MSHRType /\ m.inService /\ MSHROK(m) /\ k.blk[a] \in BlockType
       /\ LineOK(k.blk[a], m) /\ Arrives(k.blk[a], m, r, ll)
  BY <1>9 DEF CacheType, Sent, LocalOK, LineOK
<1>11. n \in MSHRType /\ n.inService /\ (n.deferred # << >> => m.deferred # << >>)
  <2>1. n = MSHRHandleFill(m, r)
    BY <1>9
  <2>2. n \in MSHRType /\ (n # m => n.deferred = << >>)
    BY <1>10, <2>1, HandleFillFacts, SMTT(60)
  <2>3. n.inService
    BY <1>10, <2>1 DEF MSHRHandleFill, MSHRType
  <2>. QED  BY <2>2, <2>3
<1>12. /\ e \in BlockType
       /\ m.postInvalidate => e = NoBlock
       /\ ~m.postInvalidate => Valid(e)
  BY <1>9, <1>10, RespLine
<1>13. /\ \A x \in Addrs : QueueOK(k1, x)
       /\ CauseOK(k1)
  <2>1. ASSUME NEW x \in Addrs PROVE QueueOK(k1, x)
    <3>1. QueueOK(k0, x) /\ (Pending(k1, x) <=> Pending(k0, x))
      BY <1>3, <1>6 DEF Pending
    <3>. QED  BY <1>2, <1>6, <3>1, QueueSame
  <2>2. CauseOK(k1)
    BY <1>2, <1>6, CauseKept
  <2>. QED  BY <2>1, <2>2
<1>14. /\ k2 \in CacheType
       /\ k2.blk[a] = (IF temp THEN NoBlock ELSE e) /\ \A x \in Addrs : x # a => k2.blk[x] = k1.blk[x]
       /\ k2.mshr[a] = [n EXCEPT !.targets = << >>] /\ \A x \in Addrs : x # a => k2.mshr[x] = k1.mshr[x]
       /\ k2.wb = k1.wb /\ k2.noTargetMSHR = k1.noTargetMSHR
       /\ e = NoBlock /\ ~temp => /\ k2.lines.pcm = k1.lines.pcm + (IF a \in Pcm THEN -1 ELSE 0)
                                  /\ k2.lines.dram = k1.lines.dram + (IF a \in Pcm THEN 0 ELSE -1)
       /\ ~(e = NoBlock /\ ~temp) => k2.lines = k1.lines
       /\ \A x \in Addrs : QueueOK(k2, x)
       /\ CauseOK(k2)
       /\ n.deferred = << >> => ~On(k2.unripe, Token("deferred", a))
       /\ OthersKept(k2, k1, a)
  <2>1. k2 = SettleBlock(k1, a, n, e, temp)
    BY <1>1, <1>5, <1>8, ZenonT(60) DEF Stages
  <2>2. k1.mshr[a] = m
    BY <1>2, <1>6, <1>9
  <2>3. /\ k1 \in CacheType /\ m \in MSHRType /\ k1.mshr[a] = m /\ m.inService
        /\ n \in MSHRType /\ n.inService /\ (n.deferred # << >> => m.deferred # << >>)
        /\ e \in BlockType /\ temp \in BOOLEAN /\ k2 = SettleBlock(k1, a, n, e, temp)
    BY <1>6, <1>10, <1>11, <1>12, <2>1, <2>2
  <2>4. QueueOK(k1, a) /\ (\A x \in Addrs : QueueOK(k1, x)) /\ CauseOK(k1)
    BY <1>13
  <2>5. SettledAs(k2, k1, a, n, e, temp)
    BY <2>3, SettleFacts, Zenon
  <2>. QED  BY <2>4, <2>5, SMTT(60) DEF SettledAs
<1>15. /\ k2.blk[a] = IF temp THEN NoBlock ELSE e
       /\ \A x \in Addrs : x # a => k2.blk[x] = IF ~temp /\ x = victim THEN NoBlock ELSE k.blk[x]
       /\ k2.mshr[a] = [n EXCEPT !.targets = << >>]
       /\ \A x \in Addrs : x # a => k2.mshr[x] = k.mshr[x]
  BY <1>2, <1>6, <1>7, <1>14
<1>16. /\ k3 \in CacheType
       /\ k3.blk[a] = Unread(k2.blk[a], n) /\ \A x \in Addrs : x # a => k3.blk[x] = k2.blk[x]
       /\ k3.mshr[a] = Promoted(n) /\ \A x \in Addrs : x # a => k3.mshr[x] = k2.mshr[x]
       /\ k3.lines = k2.lines
       /\ \A x \in Addrs : /\ k3.wb[x] = NoWB <=> k2.wb[x] = NoWB
                           /\ Waiting(k3, x) = Waiting(k2, x)
       /\ \A x \in Addrs : QueueOK(k3, x)
       /\ CauseOK(k3)
       /\ OthersKept(k3, k2, a)
  <2>1. PICK done : done = w.done
    OBVIOUS
  <2>2. k3 = RetireTargets(k2, a, n, done)
    BY <1>1, <1>5, <1>8, <2>1, ZenonT(60) DEF Stages
  <2>3. /\ n \in MSHRType /\ n.inService /\ k2.noTargetMSHR # a
        /\ k2.mshr[a] = [n EXCEPT !.targets = << >>]
        /\ n.deferred = << >> => ~On(k2.unripe, Token("deferred", a))
        /\ \A x \in Addrs : QueueOK(k2, x)
        /\ CauseOK(k2) /\ k2 \in CacheType
    BY <1>2, <1>6, <1>11, <1>14, <1>15
  <2>. QED  BY <2>2, <2>3, RetireFacts, SMTT(60)
<1>17. \A x \in Addrs : Waiting(k3, x) = Waiting(k, x) /\ (k3.wb[x] = NoWB <=> k.wb[x] = NoWB)
  BY <1>2, <1>6, <1>14, <1>16 DEF Waiting
<1>18. PICK y : y = IF temp THEN a ELSE victim
  OBVIOUS
<1>19. PICK save \in BOOLEAN : save <=> IF temp THEN Dirty(e) ELSE victim # a /\ Dirty(k.blk[victim])
  <2>1. CASE IF temp THEN Dirty(e) ELSE victim # a /\ Dirty(k.blk[victim])
    BY <2>1
  <2>2. CASE ~IF temp THEN Dirty(e) ELSE victim # a /\ Dirty(k.blk[victim])
    BY <2>2
  <2>. QED  BY <2>1, <2>2
<1>20. PICK d : d = IF y = a THEN e.data ELSE k.blk[y].data
  OBVIOUS
<1>21. y \in Addrs /\ k3.wb[y] = NoWB /\ d \in Nat /\ (save => T = {y}) /\ (~save => T = {})
  <2>1. y \in Addrs
    BY <1>6, <1>18
  <2>2. k3.wb[y] = NoWB
    BY <1>2, <1>6, <1>17, <1>18
  <2>3. d \in Nat
    <3>1. e.data \in Nat
      BY <1>12 DEF BlockType
    <3>2. k.blk[y] \in BlockType
      BY <2>1 DEF CacheType
    <3>3. k.blk[y].data \in Nat
      BY <3>2 DEF BlockType
    <3>. QED  BY <1>20, <3>1, <3>3
  <2>4. T = IF temp /\ Dirty(e) THEN {a}
            ELSE IF victim # a /\ ~temp /\ Dirty(k.blk[victim]) THEN {victim} ELSE {}
    <3>1. temp <=> NoRoom(k0, a, victim)
      BY <1>2, SMTT(60) DEF NoRoom
    <3>2. T = IF temp /\ "D" \in e.status THEN {a} ELSE Evicted(k0, a, victim)
      BY <1>1, <1>5, <1>8, ZenonT(60) DEF Stages
    <3>3. Evicted(k0, a, victim) = IF victim # a /\ ~temp /\ Dirty(k.blk[victim]) THEN {victim} ELSE {}
      BY <1>2, <3>1 DEF Evicted, Dirty
    <3>. QED  BY <3>2, <3>3 DEF Dirty
  <2>5. (save => T = {y}) /\ (~save => T = {})
    BY <1>18, <1>19, <2>4
  <2>. QED  BY <2>1, <2>2, <2>3, <2>5
<1>22. PICK k4 : k4 = Saved(k0, k3, a, e, T)
  OBVIOUS
<1>23. k4 = Saving(k3, y, d, save)
  <2>1. CASE save
    <3>1. T = {y} /\ T # {} /\ (CHOOSE x \in T : TRUE) = y
      BY <1>21, <2>1
    <3>. QED  BY <1>2, <1>20, <1>22, <2>1, <3>1 DEF Saved, Saving
  <2>2. CASE ~save
    BY <1>21, <1>22, <2>2 DEF Saved, Saving
  <2>. QED  BY <2>1, <2>2
<1>24. /\ k4 \in CacheType
       /\ k4.blk = k3.blk /\ k4.mshr = k3.mshr /\ k4.lines = k3.lines
       /\ Waiting(k4, y) = IF save THEN d ELSE NoWB
       /\ \A x \in Addrs : x # y => Waiting(k4, x) = Waiting(k3, x)
       /\ \A x \in Addrs : QueueOK(k4, x)
       /\ CauseOK(k4)
       /\ OthersKept(k4, k3, y)
       /\ save /\ k3.mshr[y] = NoMSHR => k4.wb[y].older = {}
       /\ ~save => k4 = k3
  BY <1>16, <1>19, <1>21, <1>23, SavingFacts
<1>25. /\ res.k = IF temp THEN DecSetLine(k4, a) ELSE k4
       /\ res.done = w.done /\ res.writes = w.writes /\ res.answers = w.answers
       /\ res.asserts = RespAsserts(k, a, r, victim, k0, k3, n, w, e, T, temp)
  <2>1. PICK q : q = RespAsserts(k, a, r, victim, k0, k3, n, w, e, T, temp)
    OBVIOUS
  <2>2. PICK z : z = IF temp THEN DecSetLine(k4, a) ELSE k4
    BY SMTT(60)
  <2>3. RecvTimingResp(k, a, r, victim) =
          [k |-> IF temp0 THEN DecSetLine(Saved(k0, k3, a, e0, T), a) ELSE Saved(k0, k3, a, e0, T),
           done |-> w0.done, writes |-> w0.writes, answers |-> w0.answers,
           asserts |-> RespAsserts(k, a, r, victim, k0, k3, n0, w0, e0, T, temp0)]
    BY <1>1, ZenonT(60) DEF Stages
  <2>4. res = [k |-> z, done |-> w.done, writes |-> w.writes, answers |-> w.answers, asserts |-> q]
    BY <1>5, <1>8, <1>22, <2>1, <2>2, <2>3
  <2>. QED  BY <2>1, <2>2, <2>4
<1>26. /\ kk \in CacheType
       /\ kk.blk = k4.blk /\ kk.mshr = k4.mshr /\ kk.wb = k4.wb
       /\ kk.blocked = k4.blocked /\ kk.noTargetMSHR = k4.noTargetMSHR
       /\ kk.writeBuffers = k4.writeBuffers /\ kk.unripe = k4.unripe
       /\ kk.readyMiss = k4.readyMiss /\ kk.readyWB = k4.readyWB
       /\ temp => /\ kk.lines.pcm = k4.lines.pcm + (IF a \in Pcm THEN -1 ELSE 0)
                  /\ kk.lines.dram = k4.lines.dram + (IF a \in Pcm THEN 0 ELSE -1)
       /\ ~temp => kk.lines = k4.lines
  <2>1. CASE temp
    <3>1. PICK j \in Int : j = -1
      OBVIOUS
    <3>2. kk = DecSetLine(k4, a)
      BY <1>25, <2>1
    <3>3. /\ kk \in CacheType
          /\ kk.lines.pcm = k4.lines.pcm + (IF a \in Pcm THEN j ELSE 0)
          /\ kk.lines.dram = k4.lines.dram + (IF a \in Pcm THEN 0 ELSE j)
          /\ kk.blk = k4.blk /\ kk.mshr = k4.mshr /\ kk.wb = k4.wb
          /\ kk.blocked = k4.blocked /\ kk.noTargetMSHR = k4.noTargetMSHR
          /\ kk.writeBuffers = k4.writeBuffers /\ kk.unripe = k4.unripe
          /\ kk.readyMiss = k4.readyMiss /\ kk.readyWB = k4.readyWB
      BY <1>24, <3>1, <3>2, SetLineFacts
    <3>. QED  BY <2>1, <3>1, <3>3
  <2>2. CASE ~temp
    BY <1>24, <1>25, <2>2
  <2>. QED  BY <2>1, <2>2
<1>27. /\ \A x \in Addrs : QueueOK(kk, x)
       /\ CauseOK(kk)
  <2>1. ASSUME NEW x \in Addrs PROVE QueueOK(kk, x)
    <3>1. QueueOK(k4, x) /\ (Pending(kk, x) <=> Pending(k4, x))
      BY <1>24, <1>26 DEF Pending
    <3>. QED  BY <1>24, <1>26, <3>1, QueueSame
  <2>2. CauseOK(kk)
    BY <1>24, <1>26, CauseKept
  <2>. QED  BY <2>1, <2>2
<1>28. /\ kk.mshr[a] = Promoted(n) /\ \A x \in Addrs : x # a => kk.mshr[x] = k.mshr[x]
       /\ kk.blk[a] = Unread(IF temp THEN NoBlock ELSE e, n)
       /\ \A x \in Addrs : x # a => kk.blk[x] = IF ~temp /\ x = victim THEN NoBlock ELSE k.blk[x]
  BY <1>15, <1>16, <1>24, <1>26
<1>29. \A x \in Addrs : Waiting(kk, x) = Waiting(k4, x)
  BY <1>26 DEF Waiting
<1>30. /\ Waiting(kk, a) = IF temp /\ Dirty(e) THEN e.data ELSE NoWB
       /\ \A x \in Addrs : x # a =>
            Waiting(kk, x) = IF ~temp /\ x = victim /\ Dirty(k.blk[x]) THEN k.blk[x].data
                             ELSE Waiting(k, x)
  <2>1. Waiting(k, a) = NoWB /\ (victim # a => Waiting(k, victim) = NoWB)
    BY <1>2, <1>6 DEF Waiting
  <2>2. CASE temp
    BY <1>17, <1>18, <1>19, <1>20, <1>24, <1>29, <2>2
  <2>3. CASE ~temp /\ victim = a
    BY <1>17, <1>18, <1>19, <1>20, <1>24, <1>29, <2>3
  <2>4. CASE ~temp /\ victim # a
    <3>1. y = victim /\ d = k.blk[victim].data /\ (save <=> Dirty(k.blk[victim]))
      BY <1>18, <1>19, <1>20, <2>4
    <3>. QED  BY <1>6, <1>17, <1>24, <1>29, <2>1, <2>4, <3>1
  <2>. QED  BY <2>2, <2>3, <2>4
<1>31. LinesOK(kk)
  <2>1. CASE temp
    <3>1. k4.lines = k1.lines
      BY <1>14, <1>16, <1>24, <2>1
    <3>2. k.lines.pcm \in Int /\ k.lines.dram \in Int
      BY DEF CacheType
    <3>3. kk.lines.pcm = k.lines.pcm /\ kk.lines.dram = k.lines.dram
      BY <1>2, <1>6, <1>26, <2>1, <3>1, <3>2
    <3>4. kk.blk[a] = NoBlock
      BY <1>28, <2>1 DEF Unread, NoBlock
    <3>5. \A x \in Addrs : Valid(kk.blk[x]) <=> Valid(k.blk[x])
      BY <1>2, <1>6, <1>28, <2>1, <3>4, BlockFacts
    <3>6. ValidIn(kk) = ValidIn(k)
      BY <3>5 DEF ValidIn, Valid
    <3>. QED  BY <3>3, <3>6 DEF LinesOK, LocalOK
  <2>2. CASE ~temp /\ e # NoBlock
    <3>1. kk.lines = k1.lines
      BY <1>14, <1>16, <1>24, <1>26, <2>2
    <3>2. Valid(e)
      BY <1>12, <2>2
    <3>3. Valid(kk.blk[a])
      BY <1>12, <1>28, <2>2, <3>2 DEF Unread, Valid, BlockType
    <3>4. \A x \in Addrs : x # a => (Valid(kk.blk[x]) <=> Valid(k1.blk[x]))
      BY <1>7, <1>28
    <3>. QED  BY <1>6, <1>26, <2>2, <3>1, <3>3, <3>4 DEF LinesWith
  <2>3. CASE ~temp /\ e = NoBlock
    <3>1. PICK f : f = Filled(k.blk[a], r)
      OBVIOUS
    <3>2. f \in BlockType /\ Valid(f)
      BY <1>10, <3>1, FilledFacts DEF BlockOK, Valid
    <3>3. PICK v : v = [k1 EXCEPT !.blk[a] = f]
      OBVIOUS
    <3>4. v \in CacheType /\ v.blk = [k1.blk EXCEPT ![a] = f] /\ v.lines = k1.lines
      BY <1>6, <3>2, <3>3, SetBlkFacts
    <3>5. v.blk[a] = f /\ \A x \in Addrs : x # a => v.blk[x] = k1.blk[x]
      BY <1>6, <3>4 DEF CacheType
    <3>6. LinesOK(v)
      BY <1>6, <2>3, <3>2, <3>4, <3>5 DEF LinesWith
    <3>7. kk.lines = k2.lines
      BY <1>16, <1>24, <1>26, <2>3
    <3>8. PICK j \in {1, -1} : j = -1
      OBVIOUS
    <3>9. /\ kk.lines.pcm = v.lines.pcm + (IF a \in Pcm THEN j ELSE 0)
          /\ kk.lines.dram = v.lines.dram + (IF a \in Pcm THEN 0 ELSE j)
      BY <1>14, <2>3, <3>4, <3>7, <3>8
    <3>10. ~Valid(kk.blk[a])
      BY <1>28, <2>3 DEF Unread, NoBlock, Valid
    <3>11. \A x \in Addrs : x # a => (Valid(kk.blk[x]) <=> Valid(v.blk[x]))
      BY <1>7, <1>28, <3>5
    <3>12. (Valid(kk.blk[a]) <=> j = 1) /\ (Valid(v.blk[a]) <=> j = -1)
      BY <3>2, <3>5, <3>8, <3>10
    <3>. QED  BY <1>26, <3>4, <3>6, <3>8, <3>9, <3>11, <3>12, LinesChange, ZenonT(60)
  <2>. QED  BY <2>1, <2>2, <2>3
<1>32. res.asserts <=>
         /\ w.fits
         /\ HasData(r.cmd) \/ Valid(k.blk[a])
         /\ n # k.mshr[a] => ~ListNeedsExclusive(k.mshr[a].targets)
         /\ temp => /\ ListNeedsExclusive(k.mshr[victim].targets)
                    /\ Writable(k.blk[victim]) => Dirty(k.blk[victim])
                    /\ ~(Valid(w.blk) /\ e = NoBlock)
         /\ (\E t \in Range(n.targets) : t.source = "snoop") =>
              (r.cmd = "ReadRespWithInvalidate" => n.postInvalidate)
  <2>1. \A x \in T : k3.wb[x] = NoWB
    BY <1>19, <1>21
  <2>2. a \in ValidIn(k) <=> Valid(k.blk[a])
    BY DEF ValidIn, Valid
  <2>. QED  BY <1>2, <1>25, <2>1, <2>2, Zenon DEF RespAsserts, Valid, Dirty, Writable
<1>33. victim # a => ~Valid(k.blk[a]) /\ Valid(k.blk[victim])
  BY <1>2, <1>6
<1>34. RespKeeps(kk, k, a, n, temp)
  <2>1. OthersKept(k3, k, a)
    <3>1. \A x \in Addrs : OrderKept(k1, k, x)
      BY <1>2, <1>6, KeptSame
    <3>2. ASSUME NEW x \in Addrs, x # a PROVE OrderKept(k3, k, x)
      <4>1. OrderKept(k3, k2, x) /\ OrderKept(k2, k1, x) /\ OrderKept(k1, k, x)
        BY <1>14, <1>16, <3>1, <3>2 DEF OthersKept
      <4>. QED  BY <4>1, KeptThrough
    <3>. QED  BY <3>2 DEF OthersKept
  <2>2. \A x \in Addrs : OrderKept(kk, k4, x)
    BY <1>26, KeptSame
  <2>3. ASSUME NEW x \in Addrs, x # a
        PROVE  OrderKept(kk, k, x) \/ (kk.wb[x].older = {} /\ kk.mshr[x] = NoMSHR)
    <3>1. OrderKept(k3, k, x) /\ OrderKept(kk, k4, x)
      BY <2>1, <2>2, <2>3 DEF OthersKept
    <3>2. CASE x # y \/ ~save
      <4>1. OrderKept(k4, k3, x)
        BY <1>24, <3>2, KeptSame DEF OthersKept
      <4>. QED  BY <3>1, <4>1, KeptThrough
    <3>3. CASE x = y /\ save
      <4>1. ~temp /\ y = victim /\ k.mshr[y] = NoMSHR
        BY <1>18, <2>3, <3>3
      <4>2. k3.mshr[y] = NoMSHR /\ kk.mshr[y] = NoMSHR
        BY <1>15, <1>16, <1>28, <2>3, <3>3, <4>1
      <4>. QED  BY <1>24, <1>26, <3>3, <4>2
    <3>. QED  BY <3>2, <3>3
  <2>4. ASSUME kk.wb[a] # NoWB
        PROVE  temp /\ (n.deferred = << >> => kk.wb[a].older = {})
    <3>1. k3.wb[a] = NoWB
      BY <1>17
    <3>2. y = a /\ save
      BY <1>24, <1>26, <2>4, <3>1 DEF OthersKept, OrderKept
    <3>3. temp
      BY <1>18, <1>19, <3>2
    <3>4. n.deferred = << >> => k3.mshr[a] = NoMSHR
      BY <1>16 DEF Promoted
    <3>. QED  BY <1>24, <1>26, <3>2, <3>3, <3>4
  <2>. QED  BY <2>3, <2>4, Zenon DEF RespKeeps
<1>. QED  BY <1>6, <1>25, <1>26, <1>27, <1>28, <1>30, <1>31, <1>32, <1>33, <1>34 DEF RespResult

(* The line of the block that has arrived. *)
LEMMA RespLineOK ==
  ASSUME NEW b \in BlockType, NEW m \in MSHRType, LineOK(b, m), NEW r, NEW ll \in Nat, Arrives(b, m, r, ll),
         NEW n, n = MSHRHandleFill(m, r), NEW w, w = ServeTargets(Filled(b, r), n),
         NEW e, e = AfterTargets(w.blk, n, r), NEW f, f \in {NoBlock, e}
  PROVE  LineOK(Unread(f, n), Promoted(n))
<1>1. m # NoMSHR /\ MSHROK(m) /\ m.inService /\ SentOK(m)
  BY NullAssumption DEF LineOK, MSHROK, Arrives
<1>2. /\ n \in MSHRType
      /\ n # m => n.deferred = << >>
  BY <1>1, HandleFillFacts
<1>3. /\ e \in BlockType /\ BlockOK(e)
      /\ m.postInvalidate => e = NoBlock
      /\ ~m.postInvalidate => "R" \in e.status /\ Valid(e)
      /\ n.deferred # << >> => ~Writable(e)
  BY RespLine
<1>4. NoBlock \in BlockType /\ BlockOK(NoBlock) /\ NoBlock.status = {}
  BY DEF NoBlock, BlockType, BlockOK
<1>5. f \in BlockType /\ BlockOK(f)
  BY <1>3, <1>4
<1>6. CASE n.deferred = << >>
  <2>1. Unread(f, n) = f /\ Promoted(n) = NoMSHR
    BY <1>6 DEF Unread, Promoted
  <2>2. "V" \in f.status => "R" \in f.status
    BY <1>3, <1>4
  <2>. QED  BY <1>5, <2>1, <2>2 DEF LineOK
<1>7. CASE n.deferred # << >>
  <2>1. n = m /\ m.deferred # << >>
    BY <1>2, <1>7
  <2>2. PICK g : g = Unread(f, n)
    OBVIOUS
  <2>3. g = [f EXCEPT !.status = @ \ {"R"}]
    BY <1>7, <2>2 DEF Unread
  <2>4. g.status = f.status \ {"R"} /\ g.data = f.data /\ g.locks = f.locks
    BY <1>5, <2>3 DEF BlockType
  <2>5. "W" \notin f.status
    BY <1>3, <1>4, <1>7 DEF Writable
  <2>6. f = NoBlock => g = NoBlock
    BY <2>3 DEF NoBlock
  <2>7. BlockOK(g)
    BY <1>5, <2>4, <2>5, <2>6 DEF BlockOK
  <2>8. PICK p : p = Promoted(n)
    OBVIOUS
  <2>9. p = [m EXCEPT !.targets = m.deferred, !.deferred = << >>, !.inService = FALSE]
    BY <1>7, <2>1, <2>8 DEF Promoted
  <2>10. p.targets = m.deferred /\ p.deferred = << >> /\ p.inService = FALSE
    BY <2>9 DEF MSHRType
  <2>11. PICK s : s = m.deferred
    OBVIOUS
  <2>12. s \in Seq(TargetType) /\ s # << >> /\ \A i \in 1 .. Len(s) : Cpu(s[i])
    BY <1>1, <2>1, <2>11 DEF MSHROK, MSHRType
  <2>13. Cpu(s[1])
    BY <2>12
  <2>14. MSHROK(p)
    BY <2>10, <2>11, <2>12, <2>13 DEF MSHROK
  <2>15. ASSUME "V" \in g.status PROVE ListNeedsExclusive(p.targets)
    <3>1. f # NoBlock
      BY <1>4, <2>4, <2>15
    <3>2. ~m.postInvalidate
      BY <1>3, <3>1
    <3>. QED  BY <1>1, <2>1, <2>10, <3>2 DEF SentOK
  <2>16. p # NoMSHR
    <3>1. PICK no : no = FALSE
      OBVIOUS
    <3>2. no \in BOOLEAN
      BY <3>1
    <3>3. [m EXCEPT !.targets = m.deferred, !.deferred = << >>, !.inService = no] \in MSHRType
      <4>1. << >> \in Seq(TargetType)
        OBVIOUS
      <4>. QED  BY <3>2, <4>1 DEF MSHRType
    <3>. QED  BY <2>9, <3>1, <3>3, NullAssumption
  <2>. QED  BY <2>2, <2>4, <2>7, <2>8, <2>10, <2>14, <2>15, <2>16 DEF LineOK
<1>. QED  BY <1>6, <1>7

(* recvTimingResp(): the invariant of the cache, and the assertions. *)
LEMMA RespLocal ==
  ASSUME NEW k \in CacheType, LocalOK(k), NEW a \in Addrs, NEW r, NEW ll \in Nat,
         NEW victim \in Victims(k, a), Sent(k.mshr[a]), Arrives(k.blk[a], k.mshr[a], r, ll),
         k.wb[a] = NoWB, \A x \in Addrs : Valid(k.blk[x]) => k.wb[x] = NoWB,
         \A x \in Addrs : Sent(k.mshr[x]) /\ Valid(k.blk[x]) => Owning(k.mshr[x]),
         NEW n, n = MSHRHandleFill(k.mshr[a], r), NEW w, w = ServeTargets(Filled(k.blk[a], r), n),
         NEW e, e = AfterTargets(w.blk, n, r), NEW kk, NEW res, res = RecvTimingResp(k, a, r, victim),
         kk = res.k
  PROVE  LocalOK(kk) /\ res.asserts
<1>1. PICK temp \in BOOLEAN : temp <=> victim # a /\ k.mshr[victim] # NoMSHR
  <2>1. CASE victim # a /\ k.mshr[victim] # NoMSHR
    BY <2>1
  <2>2. CASE ~(victim # a /\ k.mshr[victim] # NoMSHR)
    BY <2>2
  <2>. QED  BY <2>1, <2>2
<1>2. /\ victim \in Addrs
      /\ victim # a => ~Valid(k.blk[a]) /\ Valid(k.blk[victim])
      /\ kk \in CacheType
      /\ \A x \in Addrs : QueueOK(kk, x)
      /\ CauseOK(kk) /\ LinesOK(kk)
      /\ kk.mshr[a] = Promoted(n) /\ \A x \in Addrs : x # a => kk.mshr[x] = k.mshr[x]
      /\ kk.blk[a] = Unread(IF temp THEN NoBlock ELSE e, n)
      /\ \A x \in Addrs : x # a => kk.blk[x] = IF ~temp /\ x = victim THEN NoBlock ELSE k.blk[x]
      /\ res.asserts <=>
           /\ w.fits
           /\ HasData(r.cmd) \/ Valid(k.blk[a])
           /\ n # k.mshr[a] => ~ListNeedsExclusive(k.mshr[a].targets)
           /\ temp => /\ ListNeedsExclusive(k.mshr[victim].targets)
                      /\ Writable(k.blk[victim]) => Dirty(k.blk[victim])
                      /\ ~(Valid(w.blk) /\ e = NoBlock)
           /\ (\E t \in Range(n.targets) : t.source = "snoop") =>
                (r.cmd = "ReadRespWithInvalidate" => n.postInvalidate)
  <2>1. RespResult(kk, res, k, a, r, victim, n, w, e, temp)
    BY <1>1, RespFields
  <2>. QED  BY <2>1 DEF RespResult
<1>3. PICK m : m = k.mshr[a]
  OBVIOUS
<1>4. PICK b : b = k.blk[a]
  OBVIOUS
<1>5. /\ m \in MSHRType /\ m.inService /\ MSHROK(m) /\ b \in BlockType
      /\ LineOK(b, m) /\ Arrives(b, m, r, ll) /\ \A x \in Addrs : LineOK(k.blk[x], k.mshr[x])
  BY <1>3, <1>4 DEF CacheType, Sent, LocalOK, LineOK
<1>6. n = MSHRHandleFill(m, r) /\ w = ServeTargets(Filled(b, r), n)
  BY <1>3, <1>4
<1>7. LineOK(kk.blk[a], kk.mshr[a])
  <2>1. PICK f : f = IF temp THEN NoBlock ELSE e
    OBVIOUS
  <2>2. f \in {NoBlock, e}
    BY <2>1
  <2>3. LineOK(Unread(f, n), Promoted(n))
    BY <1>5, <1>6, <2>2, RespLineOK
  <2>. QED  BY <1>2, <2>1, <2>3
<1>8. ASSUME NEW x \in Addrs, x # a PROVE LineOK(kk.blk[x], kk.mshr[x])
  <2>1. CASE ~temp /\ x = victim
    <3>1. kk.blk[x] = NoBlock /\ kk.mshr[x] = NoMSHR
      BY <1>1, <1>2, <1>8, <2>1
    <3>. QED  BY <3>1 DEF LineOK, BlockOK, NoBlock
  <2>2. CASE ~(~temp /\ x = victim)
    BY <1>2, <1>5, <1>8, <2>2
  <2>. QED  BY <2>1, <2>2
<1>9. LocalOK(kk)
  BY <1>2, <1>7, <1>8 DEF LocalOK
<1>10. /\ w.fits
       /\ m.postInvalidate => w.blk = NoBlock
       /\ ~m.postInvalidate => Valid(e)
  BY <1>5, <1>6, RespLine
<1>11. /\ n.postInvalidate = m.postInvalidate
       /\ n # m => ~ListNeedsExclusive(m.targets)
  BY <1>5, <1>6, HandleFillFacts
<1>12. HasData(r.cmd) \/ Valid(k.blk[a])
  BY <1>4, <1>5 DEF Arrives, HasData
<1>13. r.cmd = "ReadRespWithInvalidate" => n.postInvalidate
  BY <1>5, <1>11 DEF Arrives
<1>14. ~(Valid(w.blk) /\ e = NoBlock)
  BY <1>10, BlockFacts
<1>15. ASSUME temp
       PROVE  /\ ListNeedsExclusive(k.mshr[victim].targets)
              /\ Writable(k.blk[victim]) => Dirty(k.blk[victim])
  <2>1. victim # a /\ k.mshr[victim] # NoMSHR /\ Valid(k.blk[victim])
    BY <1>1, <1>2, <1>15
  <2>2. LineOK(k.blk[victim], k.mshr[victim])
    BY <1>2, <1>5
  <2>3. ~Writable(k.blk[victim])
    BY <2>1, <2>2 DEF LineOK, BlockOK, Writable
  <2>4. CASE ~k.mshr[victim].inService
    BY <2>1, <2>2, <2>3, <2>4 DEF LineOK, Valid
  <2>5. CASE k.mshr[victim].inService
    <3>1. Owning(k.mshr[victim])
      BY <1>2, <2>1, <2>5 DEF Sent
    <3>. QED  BY <2>1, <2>2, <2>3, <2>5, <3>1 DEF Owning, LineOK, MSHROK, SentOK
  <2>. QED  BY <2>4, <2>5
<1>16. res.asserts
  BY <1>2, <1>3, <1>10, <1>11, <1>12, <1>13, <1>14, <1>15
<1>. QED  BY <1>9, <1>16

-----------------------------------------------------------------------------
(* The accesses that wait in an MSHR.                                      *)

(* They are known by their numbers. *)
Waits(m, o) == CpuOn(m.targets, o) \/ CpuOn(m.deferred, o)

Known(o, c, a, P, ll) ==
  o \in Ops /\ CpuOf[o] = c /\ P[o] # NoOp /\ P[o].addr = a /\ P[o].floor <= ll

LEMMA OpsWait ==
  ASSUME NEW c, NEW a, NEW m \in MSHRType, NEW P, NEW ll, OpsOK(c, a, m, P, ll),
         NEW o, Waits(m, o)
  PROVE  Known(o, c, a, P, ll)
<1>1. PICK s \in {m.targets, m.deferred} : CpuOn(s, o)
  BY DEF Waits
<1>2. s \in Seq(TargetType) /\ \A i \in 1 .. Len(s) : OpAt(c, a, s[i], P, ll)
  BY <1>1 DEF OpsOK, MSHRType
<1>3. PICK i \in 1 .. Len(s) : Cpu(s[i]) /\ s[i].who = o
  BY <1>1 DEF CpuOn
<1>4. s[i] \in TargetType
  BY <1>2, <1>3
<1>5. o \in Ops
  BY <1>3, <1>4, TargetFacts DEF Cpu
<1>. QED  BY <1>2, <1>3, <1>5 DEF OpAt, Known

(* Other accesses begin or end, and other versions come. *)
LEMMA OpsKept ==
  ASSUME NEW c, NEW a, NEW m \in MSHRType, NEW P \in [Ops -> OpType \cup {NoOp}], NEW ll \in Nat,
         OpsOK(c, a, m, P, ll), NEW Q, NEW l2 \in Nat, ll <= l2,
         \A o \in Ops : Waits(m, o) => Q[o] = P[o]
  PROVE  OpsOK(c, a, m, Q, l2)
<1>1. ASSUME NEW s \in {m.targets, m.deferred}, NEW i \in 1 .. Len(s), OpAt(c, a, s[i], P, ll)
      PROVE  OpAt(c, a, s[i], Q, l2)
  <2>1. SUFFICES ASSUME Cpu(s[i])
                 PROVE  /\ CpuOf[s[i].who] = c /\ Q[s[i].who] # NoOp /\ Q[s[i].who].addr = a
                        /\ Stands(s[i], Q[s[i].who]) /\ Q[s[i].who].floor <= l2
    BY DEF OpAt
  <2>2. PICK o : o = s[i].who
    OBVIOUS
  <2>3. CpuOn(s, o)
    BY <2>1, <2>2 DEF CpuOn
  <2>4. Waits(m, o)
    BY <2>3 DEF Waits
  <2>5. o \in Ops /\ Q[o] = P[o]
    <3>1. Known(o, c, a, P, ll)
      BY <2>4, OpsWait
    <3>2. o \in Ops
      BY <3>1 DEF Known
    <3>. QED  BY <2>4, <3>2
  <2>6. P[o] # NoOp /\ P[o].addr = a /\ Stands(s[i], P[o]) /\ P[o].floor <= ll /\ CpuOf[o] = c
    BY <1>1, <2>1, <2>2 DEF OpAt
  <2>7. P[o] \in OpType
    BY <2>5, <2>6
  <2>8. P[o].floor \in Nat
    BY <2>7 DEF OpType
  <2>9. P[o].floor <= l2
    BY <2>6, <2>8
  <2>. QED  BY <2>2, <2>5, <2>6, <2>9
<1>. QED  BY <1>1 DEF OpsOK

(* replaceUpgrade() of a list. *)
LEMMA OpsReplaced ==
  ASSUME NEW c, NEW a, NEW s \in Seq(TargetType), \A i \in 1 .. Len(s) : Cpu(s[i]),
         NEW P \in [Ops -> OpType \cup {NoOp}], NEW ll, \A i \in 1 .. Len(s) : OpAt(c, a, s[i], P, ll)
  PROVE  /\ \A i \in 1 .. Len(ReplaceUpgrades(s)) : OpAt(c, a, ReplaceUpgrades(s)[i], P, ll)
         /\ \A o : CpuOn(ReplaceUpgrades(s), o) => CpuOn(s, o)
<1>1. PICK u : u = ReplaceUpgrades(s)
  OBVIOUS
<1>2. /\ Len(u) = Len(s)
      /\ \A i \in 1 .. Len(s) : /\ u[i].source = "cpu" /\ u[i].who = s[i].who
                                /\ u[i].cmd = ReplaceUpgrade(s[i].cmd)
  BY <1>1, ReplaceFacts DEF Cpu
<1>3. ASSUME NEW i \in 1 .. Len(u) PROVE OpAt(c, a, u[i], P, ll)
  <2>1. i \in 1 .. Len(s) /\ Cpu(s[i])
    BY <1>2, <1>3
  <2>2. OpAt(c, a, s[i], P, ll) /\ u[i].who = s[i].who /\ u[i].cmd = ReplaceUpgrade(s[i].cmd)
    BY <1>2, <2>1
  <2>3. Stands(s[i], P[s[i].who]) => Stands(u[i], P[s[i].who])
    BY <2>2 DEF Stands, ReplaceUpgrade
  <2>. QED  BY <2>1, <2>2, <2>3 DEF OpAt
<1>4. ASSUME NEW o, CpuOn(u, o) PROVE CpuOn(s, o)
  <2>1. PICK i \in 1 .. Len(u) : u[i].who = o
    BY <1>4 DEF CpuOn
  <2>2. i \in 1 .. Len(s) /\ s[i].who = o /\ Cpu(s[i])
    BY <1>2, <2>1
  <2>. QED  BY <2>2 DEF CpuOn
<1>. QED  BY <1>1, <1>3, <1>4

(* A target is added. *)
LEMMA OpsAppend ==
  ASSUME NEW c, NEW a, NEW s \in Seq(TargetType), NEW P, NEW ll,
         \A i \in 1 .. Len(s) : OpAt(c, a, s[i], P, ll), NEW t \in TargetType, OpAt(c, a, t, P, ll)
  PROVE  /\ \A i \in 1 .. Len(Append(s, t)) : OpAt(c, a, Append(s, t)[i], P, ll)
         /\ \A o : CpuOn(Append(s, t), o) <=> CpuOn(s, o) \/ (Cpu(t) /\ t.who = o)
<1>1. PICK u : u = Append(s, t)
  OBVIOUS
<1>2. PICK l \in Nat : l = Len(s)
  OBVIOUS
<1>3. Len(u) = l + 1 /\ u[l + 1] = t /\ \A i \in 1 .. l : u[i] = s[i]
  BY <1>1, <1>2, AppendTarget
<1>4. \A i \in 1 .. l + 1 : i \in 1 .. l \/ i = l + 1
  BY <1>2
<1>5. \A i \in 1 .. l : i \in 1 .. l + 1
  BY <1>2
<1>6. l + 1 \in 1 .. l + 1
  BY <1>2
<1>7. \A i \in 1 .. Len(u) : OpAt(c, a, u[i], P, ll)
  BY <1>2, <1>3, <1>4
<1>8. \A o : CpuOn(u, o) <=> CpuOn(s, o) \/ (Cpu(t) /\ t.who = o)
  BY <1>2, <1>3, <1>4, <1>5, <1>6 DEF CpuOn
<1>. QED  BY <1>1, <1>7, <1>8

(* A snoop leaves the accesses as they are. *)
LEMMA OpsSnooped ==
  ASSUME NEW c, NEW a, NEW m \in MSHRType, MSHROK(m), NEW P \in [Ops -> OpType \cup {NoOp}], NEW ll,
         OpsOK(c, a, m, P, ll), NEW d \in Caches, NEW cmd \in BusCommands,
         NEW n, n = SnoopedMSHR(m, d, cmd)
  PROVE  OpsOK(c, a, n, P, ll) /\ \A o : CpuOn(n.targets, o) => CpuOn(m.targets, o)
<1>1. m # NoMSHR
  BY NullAssumption
<1>2. m.targets \in Seq(TargetType) /\ m.deferred \in Seq(TargetType)
  BY DEF MSHRType
<1>3. /\ \A i \in 1 .. Len(m.targets) : OpAt(c, a, m.targets[i], P, ll)
      /\ \A i \in 1 .. Len(m.deferred) : OpAt(c, a, m.deferred[i], P, ll)
      /\ \A o : ~(CpuOn(m.targets, o) /\ CpuOn(m.deferred, o))
  BY DEF OpsOK
<1>4. \A i \in 1 .. Len(m.deferred) : Cpu(m.deferred[i])
  BY DEF MSHROK
<1>5. PICK v : v = ReplaceUpgrades(m.deferred)
  OBVIOUS
<1>6. /\ \A i \in 1 .. Len(v) : OpAt(c, a, v[i], P, ll)
      /\ \A o : CpuOn(v, o) => CpuOn(m.deferred, o)
  BY <1>2, <1>3, <1>4, <1>5, OpsReplaced
<1>7. CASE m.inService
  <2>1. n = MSHRHandleSnoop(m, d, cmd)
    BY <1>1, <1>7 DEF SnoopedMSHR
  <2>2. PICK t : t = FromSnoop(d, cmd)
    OBVIOUS
  <2>3. t \in TargetType /\ ~Cpu(t)
    BY <2>2, TargetFacts DEF Cpu
  <2>4. /\ n.deferred \in {v, m.deferred}
        /\ n.targets \in {Append(m.targets, t), m.targets}
    <3>1. /\ n.deferred = IF cmd # "ReadReq" THEN ReplaceUpgrades(m.deferred) ELSE m.deferred
          /\ n.targets = IF ~m.postInvalidate /\ (m.pendingDirty \/ cmd # "ReadReq")
                         THEN Append(m.targets, FromSnoop(d, cmd)) ELSE m.targets
      BY <1>7, <2>1, HandleSnoopFacts
    <3>. QED  BY <1>5, <2>2, <3>1
  <2>5. OpAt(c, a, t, P, ll)
    BY <2>3 DEF OpAt
  <2>6. PICK u : u = Append(m.targets, t)
    OBVIOUS
  <2>7. /\ \A i \in 1 .. Len(u) : OpAt(c, a, u[i], P, ll)
        /\ \A o : CpuOn(u, o) => CpuOn(m.targets, o)
    BY <1>2, <1>3, <2>3, <2>5, <2>6, OpsAppend
  <2>8. /\ \A i \in 1 .. Len(n.targets) : OpAt(c, a, n.targets[i], P, ll)
        /\ \A o : CpuOn(n.targets, o) => CpuOn(m.targets, o)
    BY <1>3, <2>4, <2>6, <2>7
  <2>9. /\ \A i \in 1 .. Len(n.deferred) : OpAt(c, a, n.deferred[i], P, ll)
        /\ \A o : CpuOn(n.deferred, o) => CpuOn(m.deferred, o)
    BY <1>3, <1>6, <2>4
  <2>. QED  BY <1>3, <2>8, <2>9 DEF OpsOK
<1>8. CASE ~m.inService
  <2>1. CASE cmd = "ReadReq"
    BY <1>1, <1>8, <2>1 DEF SnoopedMSHR
  <2>2. CASE cmd # "ReadReq"
    <3>1. PICK u : u = ReplaceUpgrades(m.targets)
      OBVIOUS
    <3>2. n = [m EXCEPT !.targets = u, !.deferred = v]
      BY <1>1, <1>5, <1>8, <2>2, <3>1 DEF SnoopedMSHR
    <3>3. n.targets = u /\ n.deferred = v
      BY <3>2 DEF MSHRType
    <3>4. \A i \in 1 .. Len(m.targets) : Cpu(m.targets[i])
      BY <1>8 DEF MSHROK
    <3>5. /\ \A i \in 1 .. Len(u) : OpAt(c, a, u[i], P, ll)
          /\ \A o : CpuOn(u, o) => CpuOn(m.targets, o)
      BY <1>2, <1>3, <3>1, <3>4, OpsReplaced
    <3>. QED  BY <1>3, <1>6, <3>3, <3>5 DEF OpsOK
  <2>. QED  BY <2>1, <2>2
<1>. QED  BY <1>7, <1>8

(* An access that waits on no list is added to one. *)
Begins(P, Q, o, cmd, a, ll) ==
  /\ P[o] = NoOp /\ Q[o] = [cmd |-> cmd, addr |-> a, floor |-> ll] /\ Q[o] # NoOp
  /\ \A x \in Ops : x # o => Q[x] = P[x]

Added(n, m, o, cmd, req) ==
  IF MustDefer(m, cmd)
  THEN n.targets = m.targets /\ n.deferred = Append(m.deferred, FromCPU(o, LateCmd(m, cmd), req))
  ELSE n.targets = Append(m.targets, FromCPU(o, cmd, req)) /\ n.deferred = m.deferred

LEMMA OpsAdded ==
  ASSUME NEW c, NEW a, NEW m \in MSHRType, NEW P \in [Ops -> OpType \cup {NoOp}], NEW ll \in Nat,
         OpsOK(c, a, m, P, ll), NEW o \in Ops, CpuOf[o] = c, NEW cmd \in CpuCommands, NEW req \in Requests,
         NEW Q, Begins(P, Q, o, cmd, a, ll), NEW n, Added(n, m, o, cmd, req)
  PROVE  /\ OpsOK(c, a, n, Q, ll)
         /\ \A x : CpuOn(n.targets, x) => CpuOn(m.targets, x) \/ (x = o /\ ~MustDefer(m, cmd))
<1>1. m.targets \in Seq(TargetType) /\ m.deferred \in Seq(TargetType)
  BY DEF MSHRType
<1>2. ASSUME NEW x, Waits(m, x)
      PROVE  x \in Ops /\ x # o
  <2>1. Known(x, c, a, P, ll)
    BY <1>2, OpsWait
  <2>. QED  BY <2>1 DEF Begins, Known
<1>3. \A x \in Ops : Waits(m, x) => Q[x] = P[x]
  BY <1>2 DEF Begins
<1>4. OpsOK(c, a, m, Q, ll)
  BY <1>3, OpsKept
<1>5. /\ \A i \in 1 .. Len(m.targets) : OpAt(c, a, m.targets[i], Q, ll)
      /\ \A i \in 1 .. Len(m.deferred) : OpAt(c, a, m.deferred[i], Q, ll)
      /\ \A x : ~(CpuOn(m.targets, x) /\ CpuOn(m.deferred, x))
  BY <1>4 DEF OpsOK
<1>6. ASSUME NEW t, NEW q \in {cmd, LateCmd(m, cmd)}, t = FromCPU(o, q, req)
      PROVE  t \in TargetType /\ Cpu(t) /\ t.who = o /\ OpAt(c, a, t, Q, ll)
  <2>1. q \in CpuCommands \cup {"StoreCondFailReq"} /\ (q = cmd \/ (q = "StoreCondFailReq" /\ cmd = "StoreCondReq"))
    BY <1>6 DEF LateCmd, ReplaceUpgrade
  <2>2. t \in TargetType /\ Cpu(t) /\ t.who = o /\ t.cmd = q
    <3>1. /\ FromCPU(o, q, req) \in TargetType /\ FromCPU(o, q, req).source = "cpu"
          /\ FromCPU(o, q, req).who = o /\ FromCPU(o, q, req).cmd = q
      BY <2>1, TargetFacts, Zenon
    <3>. QED  BY <1>6, <3>1 DEF Cpu
  <2>3. Q[o].cmd = cmd /\ Q[o].addr = a /\ Q[o].floor = ll /\ Q[o] # NoOp
    BY DEF Begins
  <2>4. Stands(t, Q[o])
    BY <2>1, <2>2, <2>3 DEF Stands
  <2>5. Q[o].floor <= ll
    BY <2>3
  <2>. QED  BY <2>2, <2>3, <2>4, <2>5 DEF OpAt
<1>7. CASE MustDefer(m, cmd)
  <2>1. PICK t : t = FromCPU(o, LateCmd(m, cmd), req)
    OBVIOUS
  <2>2. n.targets = m.targets /\ n.deferred = Append(m.deferred, t)
    BY <1>7, <2>1 DEF Added
  <2>3. t \in TargetType /\ Cpu(t) /\ t.who = o /\ OpAt(c, a, t, Q, ll)
    BY <1>6, <2>1
  <2>4. /\ \A i \in 1 .. Len(n.deferred) : OpAt(c, a, n.deferred[i], Q, ll)
        /\ \A x : CpuOn(n.deferred, x) <=> CpuOn(m.deferred, x) \/ (Cpu(t) /\ t.who = x)
    <3>1. PICK s \in Seq(TargetType) : s = m.deferred
      BY <1>1
    <3>2. \A i \in 1 .. Len(s) : OpAt(c, a, s[i], Q, ll)
      BY <1>5, <3>1
    <3>3. /\ \A i \in 1 .. Len(Append(s, t)) : OpAt(c, a, Append(s, t)[i], Q, ll)
          /\ \A x : CpuOn(Append(s, t), x) <=> CpuOn(s, x) \/ (Cpu(t) /\ t.who = x)
      BY <2>3, <3>1, <3>2, OpsAppend
    <3>. QED  BY <2>2, <3>1, <3>3
  <2>5. \A x : ~(CpuOn(n.targets, x) /\ CpuOn(n.deferred, x))
    BY <1>2, <1>5, <2>2, <2>3, <2>4 DEF Waits
  <2>. QED  BY <1>5, <2>2, <2>4, <2>5 DEF OpsOK
<1>8. CASE ~MustDefer(m, cmd)
  <2>1. PICK t : t = FromCPU(o, cmd, req)
    OBVIOUS
  <2>2. n.deferred = m.deferred /\ n.targets = Append(m.targets, t)
    BY <1>8, <2>1 DEF Added
  <2>3. t \in TargetType /\ Cpu(t) /\ t.who = o /\ OpAt(c, a, t, Q, ll)
    BY <1>6, <2>1
  <2>4. /\ \A i \in 1 .. Len(n.targets) : OpAt(c, a, n.targets[i], Q, ll)
        /\ \A x : CpuOn(n.targets, x) <=> CpuOn(m.targets, x) \/ (Cpu(t) /\ t.who = x)
    <3>1. PICK s \in Seq(TargetType) : s = m.targets
      BY <1>1
    <3>2. \A i \in 1 .. Len(s) : OpAt(c, a, s[i], Q, ll)
      BY <1>5, <3>1
    <3>3. /\ \A i \in 1 .. Len(Append(s, t)) : OpAt(c, a, Append(s, t)[i], Q, ll)
          /\ \A x : CpuOn(Append(s, t), x) <=> CpuOn(s, x) \/ (Cpu(t) /\ t.who = x)
      BY <2>3, <3>1, <3>2, OpsAppend
    <3>. QED  BY <2>2, <3>1, <3>3
  <2>5. \A x : ~(CpuOn(n.targets, x) /\ CpuOn(n.deferred, x))
    BY <1>2, <1>5, <2>2, <2>3, <2>4 DEF Waits
  <2>. QED  BY <1>5, <1>8, <2>2, <2>3, <2>4, <2>5 DEF OpsOK
<1>. QED  BY <1>7, <1>8

(* The first access of a new MSHR. *)
LEMMA OpsNew ==
  ASSUME NEW c, NEW a, NEW o \in Ops, CpuOf[o] = c, NEW cmd \in CpuCommands, NEW req \in Requests,
         NEW ll \in Nat, NEW Q, Q[o] = [cmd |-> cmd, addr |-> a, floor |-> ll], Q[o] # NoOp
  PROVE  OpsOK(c, a, NewMSHR(o, cmd, req), Q, ll)
<1>1. PICK t : t = FromCPU(o, cmd, req)
  OBVIOUS
<1>2. PICK n : n = NewMSHR(o, cmd, req)
  OBVIOUS
<1>3. n.targets = <<t>> /\ n.deferred = << >>
  BY <1>1, <1>2 DEF NewMSHR
<1>4. Cpu(t) /\ t.who = o /\ t.cmd = cmd
  BY <1>1 DEF FromCPU, Cpu
<1>5. Q[o].cmd = cmd /\ Q[o].addr = a /\ Q[o].floor = ll
  OBVIOUS
<1>6. Stands(t, Q[o]) /\ Q[o].floor <= ll
  BY <1>4, <1>5 DEF Stands
<1>7. OpAt(c, a, t, Q, ll)
  BY <1>4, <1>5, <1>6 DEF OpAt
<1>8. \A i \in 1 .. Len(<<t>>) : <<t>>[i] = t
  OBVIOUS
<1>9. \A x : ~CpuOn(<< >>, x)
  BY DEF CpuOn
<1>10. \A i \in 1 .. Len(<< >>) : FALSE
  OBVIOUS
<1>. QED  BY <1>2, <1>3, <1>7, <1>8, <1>9, <1>10 DEF OpsOK

(* The deferred accesses make a request of their own. *)
LEMMA OpsPromoted ==
  ASSUME NEW c, NEW a, NEW m \in MSHRType, NEW P, NEW ll, OpsOK(c, a, m, P, ll), m.deferred # << >>
  PROVE  /\ OpsOK(c, a, Promoted(m), P, ll)
         /\ \A o : Waits(Promoted(m), o) => CpuOn(m.deferred, o)
<1>1. PICK n : n = Promoted(m)
  OBVIOUS
<1>2. n.targets = m.deferred /\ n.deferred = << >>
  BY <1>1 DEF Promoted, MSHRType
<1>3. \A x : ~CpuOn(<< >>, x)
  BY DEF CpuOn
<1>4. \A i \in 1 .. Len(<< >>) : FALSE
  OBVIOUS
<1>5. \A i \in 1 .. Len(m.deferred) : OpAt(c, a, m.deferred[i], P, ll)
  BY DEF OpsOK
<1>6. OpsOK(c, a, n, P, ll)
  BY <1>2, <1>3, <1>4, <1>5 DEF OpsOK
<1>. QED  BY <1>1, <1>2, <1>3, <1>6 DEF Waits

(* What a response does for an access that waited: it sees the data that   *)
(* came, and writes on top of them.                                        *)
ServedBy(d, t, m, n, f) ==
  /\ Cpu(t) /\ d.op = t.who /\ d.version \in Nat /\ d.version >= f.data
  /\ t.cmd = "WriteReq" => d.version > f.data
  /\ On(m.targets, t) \/ (n # m /\ On(m.deferred, t))

LEMMA RespDone ==
  ASSUME NEW b \in BlockType, NEW m \in MSHRType, LineOK(b, m), NEW r, NEW ll \in Nat, Arrives(b, m, r, ll),
         NEW n, n = MSHRHandleFill(m, r), NEW f, f = Filled(b, r), NEW w, w = ServeTargets(f, n)
  PROVE  \A d \in w.done : \E t : ServedBy(d, t, m, n, f)
<1>1. m # NoMSHR /\ m.inService
  BY NullAssumption DEF Arrives
<1>2. MSHROK(m)
  BY <1>1 DEF LineOK
<1>3. /\ n \in MSHRType /\ Orderly(n)
      /\ \A i \in 1 .. Len(n.targets) : On(m.targets, n.targets[i]) \/ On(m.deferred, n.targets[i])
  BY <1>1, <1>2, HandleFillFacts
<1>4. n.postInvalidate \in BOOLEAN
  BY <1>3 DEF MSHRType
<1>5. f \in BlockType /\ BlockOK(f) /\ "R" \in f.status
  BY FilledFacts
<1>6. ServedDone(w, f, n, Len(n.targets))
  BY <1>3, <1>4, <1>5, ServeTargetsFacts
<1>7. ASSUME NEW d \in w.done PROVE \E t : ServedBy(d, t, m, n, f)
  <2>1. PICK j \in 1 .. Len(n.targets) :
           /\ Cpu(n.targets[j]) /\ d.op = n.targets[j].who /\ d.version \in Nat /\ d.version >= f.data
           /\ n.targets[j].cmd = "WriteReq" => d.version > f.data
    BY <1>6, <1>7 DEF ServedDone
  <2>2. PICK t : t = n.targets[j]
    OBVIOUS
  <2>3. On(m.targets, t) \/ On(m.deferred, t)
    BY <1>3, <2>1, <2>2
  <2>4. n = m => On(m.targets, t)
    BY <2>1, <2>2 DEF On
  <2>5. ServedBy(d, t, m, n, f)
    BY <2>1, <2>2, <2>3, <2>4 DEF ServedBy
  <2>. QED  BY <2>5
<1>. QED  BY <1>7

=============================================================================
