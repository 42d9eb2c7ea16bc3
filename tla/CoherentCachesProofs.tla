------------------------ MODULE CoherentCachesProofs ------------------------
(***************************************************************************)
(* CoherentCaches, for every number of caches, blocks, accesses and        *)
(* buffers.                                                                *)
(***************************************************************************)
EXTENDS CacheFacts

-----------------------------------------------------------------------------
(* What the steps do to one block in all the caches.                       *)

(* A block and its MSHR before (b, m) and after (e, n) a snoop of request  *)
(* cmd of cache c.                                                         *)
SeesSnoop(b, m, e, n, c, cmd) ==
  /\ Sent(n) <=> Sent(m)
  /\ Owning(n) <=> Owning(m)
  /\ Newest(n) <=> Newest(m) /\ cmd = "ReadReq"
  /\ Reading(n) <=> Reading(m)
  /\ Keeping(n) <=> Keeping(m) /\ cmd = "ReadReq"
  /\ Keeping(n) => n.postDowngrade
  /\ Sent(n) => (n.postInvalidate <=> m.postInvalidate \/ cmd # "ReadReq")
  /\ \A x \in Caches, q \in BusCommands :
       Asks(n, x, q) <=> Asks(m, x, q) \/ (Newest(m) /\ x = c /\ q = cmd)
  /\ Sent(m) => e = b
  /\ ~Sent(m) /\ cmd # "ReadReq" => e = NoBlock
  /\ ~Writable(e)
  /\ cmd = "ReadReq" => /\ Valid(e) <=> Valid(b)
                        /\ Dirty(e) <=> Dirty(b)
                        /\ e.data = b.data

(* A cache supplies the data at once; or inhibits the memory, and may      *)
(* answer later; or asserts the shared line.                               *)
Supplies(b, m, x) == ~Sent(m) /\ (Dirty(b) \/ x # NoWB)
Inhibits(b, m, x) == Newest(m) \/ Supplies(b, m, x)
Shares(b, m, x, cmd) ==
  cmd = "ReadReq" /\ IF Sent(m) THEN ~m.postInvalidate ELSE Valid(b) \/ x # NoWB

(* The caches other than c see request cmd of cache c. *)
SnoopsSeen(B, M, X, B2, M2, X2, c, cmd) ==
  \A d \in Caches \ {c} :
    /\ SeesSnoop(B[d], M[d], B2[d], M2[d], c, cmd)
    /\ X2[d] = IF ~Sent(M[d]) /\ cmd # "ReadReq" THEN NoWB ELSE X[d]

(* Facts about the predicates. *)
LEMMA KindFacts ==
  ASSUME NEW m
  PROVE  /\ Owning(m) => Sent(m) /\ ~Reading(m)
         /\ Reading(m) => Sent(m)
         /\ Sent(m) => Owning(m) \/ Reading(m)
         /\ Newest(m) <=> Owning(m) /\ ~m.postInvalidate
         /\ Keeping(m) <=> Reading(m) /\ ~m.postInvalidate
         /\ \A x, q : Asks(m, x, q) => Owning(m)
         /\ \A x : Promises(m, x) => Owning(m)
         /\ \A x : \A q \in BusCommands : Asks(m, x, q) => Promises(m, x)
  BY DEF Owning, Reading, Newest, Keeping, Asks, Promises

(* What is under way to cache c when it has sent cmd: the data of another  *)
(* cache, nothing yet, or the answer of the memory.                        *)
Answered(B, M, X, c, cmd, r, ll) ==
  /\ (\E d \in Caches \ {c} : Supplies(B[d], M[d], X[d])) =>
       /\ r # NoAnswer /\ r.cmd = Response(cmd) /\ r.data = ll
       /\ r.shared <=> cmd = "ReadReq"
       /\ r.inhibit
  /\ (\A d \in Caches \ {c} : ~Supplies(B[d], M[d], X[d])) =>
       IF \E d \in Caches \ {c} : Newest(M[d]) THEN r = NoAnswer
       ELSE /\ r # NoAnswer /\ r.cmd = (IF IsRead(cmd) THEN cmd ELSE Response(cmd))
            /\ r.shared <=> \E d \in Caches \ {c} : Shares(B[d], M[d], X[d], cmd)
            /\ ~r.inhibit

(* SendMiss of a request for an exclusive copy. *)
SendsExclusive(B, M, X, A, B2, M2, X2, A2, c, cmd, ll) ==
  /\ c \in Caches /\ cmd \in BusCommands /\ cmd # "ReadReq"
  /\ \A d \in Caches : Sent(M[d]) => X[d] = NoWB
  /\ \A d \in Caches : Dirty(B[d]) => Valid(B[d])
  /\ SnoopsSeen(B, M, X, B2, M2, X2, c, cmd)
  /\ ~Sent(M[c]) /\ X[c] = NoWB /\ X2[c] = NoWB /\ B2[c] = B[c] /\ ~Writable(B[c])
  /\ cmd \in {"UpgradeReq", "SCUpgradeReq"} <=> Valid(B[c])
  /\ Newest(M2[c]) /\ \A x \in Caches : ~Promises(M2[c], x)
  /\ \A d \in Caches \ {c} : A2[d] = A[d]
  /\ Answered(B, M, X, c, cmd, A2[c], ll)

LEMMA CohSendExclusive ==
  ASSUME NEW B, NEW M, NEW X, NEW A, NEW mm, NEW ll, Coh(B, M, X, A, mm, ll),
         NEW B2, NEW M2, NEW X2, NEW A2, NEW c, NEW cmd,
         SendsExclusive(B, M, X, A, B2, M2, X2, A2, c, cmd, ll)
  PROVE  Coh(B2, M2, X2, A2, mm, ll)
<1>. USE KindFacts DEF SendsExclusive
<1>1. \A d \in Caches \ {c} :
        /\ Sent(M2[d]) <=> Sent(M[d])
        /\ Owning(M2[d]) <=> Owning(M[d])
        /\ Reading(M2[d]) <=> Reading(M[d])
        /\ ~Newest(M2[d]) /\ ~Keeping(M2[d])
        /\ Sent(M2[d]) => M2[d].postInvalidate
        /\ \A x \in Caches, q \in BusCommands :
             Asks(M2[d], x, q) <=> Asks(M[d], x, q) \/ (Newest(M[d]) /\ x = c /\ q = cmd)
        /\ Sent(M[d]) => B2[d] = B[d]
        /\ ~Sent(M[d]) => ~Valid(B2[d]) /\ ~Dirty(B2[d])
        /\ ~Writable(B2[d]) /\ X2[d] = NoWB
  BY BlockFacts DEF SnoopsSeen, SeesSnoop
<1>2. \A d \in Caches \ {c}, x \in Caches :
        Promises(M2[d], x) <=> Promises(M[d], x) \/ (Newest(M[d]) /\ x = c)
  BY <1>1 DEF Promises
<1>3. /\ A[c] = NoAnswer /\ ~Owning(M[c]) /\ ~Newest(M[c]) /\ ~Reading(M[c]) /\ ~Keeping(M[c])
      /\ \A d \in Caches : ~Promises(M[d], c) /\ ~Promises(M[c], d)
  BY DEF Coh, ChainInv
<1>4. /\ Sent(M2[c]) /\ Owning(M2[c]) /\ ~Reading(M2[c]) /\ ~Keeping(M2[c])
      /\ ~M2[c].postInvalidate
  OBVIOUS
<1>5. \A d \in Caches \ {c} : Supplies(B[d], M[d], X[d]) =>
        /\ \A x \in Caches : ~Owning(M[x])
        /\ \A x \in Caches : Dirty(B[x]) => x = d
  BY DEF Coh, CopyInv, OwnerInv, Supplies
<1>6. (\E d \in Caches : Newest(M[d])) => A2[c] = NoAnswer
  BY <1>3, <1>5 DEF Answered
<1>7. /\ (\E d \in Caches : Owning(M[d])) => A2[c] = NoAnswer
      /\ A2[c] = NoAnswer => \E d \in Caches \ {c} : Newest(M[d])
  BY <1>6 DEF Answered, Coh, ChainInv
<1>8. A2[c] # NoAnswer =>
        /\ ~A2[c].shared
        /\ A2[c].cmd = Response(cmd) \/ (A2[c].cmd = cmd /\ IsRead(cmd))
        /\ OnWay(A2[c]) /\ A2[c].cmd # "UpgradeResp" => A2[c].data = ll
  <2>1. \A d \in Caches : ~Shares(B[d], M[d], X[d], cmd)
    BY DEF Shares
  <2>2. cmd \notin Responses
    BY DEF BusCommands, Responses
  <2>3. ~IsRead(cmd) => Response(cmd) = "UpgradeResp"
    BY BusFacts
  <2>. QED  BY <2>1, <2>2, <2>3 DEF Answered, OnWay
<1>9. A2[c] # NoAnswer =>
        /\ A2[c].cmd \in {"ReadExReq", "SCUpgradeFailReq", "ReadExResp", "UpgradeResp", "UpgradeFailResp"}
        /\ A2[c].cmd = "UpgradeResp" <=> Valid(B[c])
        /\ A2[c].cmd # "ReadRespWithInvalidate"
  <2>1. Response(cmd) \in {"ReadExResp", "UpgradeResp", "UpgradeFailResp"}
    BY BusFacts DEF Responses
  <2>2. IsRead(cmd) => cmd \in {"ReadExReq", "SCUpgradeFailReq"} /\ ~Valid(B[c])
    BY BusFacts DEF BusCommands
  <2>3. Response(cmd) = "UpgradeResp" <=> Valid(B[c])
    BY BusFacts
  <2>. QED  BY <1>8, <2>1, <2>2, <2>3
<1>10. ChainInv(M2, A2)
  <2>1. \A x, y \in Caches : Owning(M2[x]) /\ Owning(M2[y]) /\ x # y =>
          (A2[x] = NoAnswer \/ A2[y] = NoAnswer) /\ (~Newest(M2[x]) \/ ~Newest(M2[y]))
    BY <1>1, <1>7 DEF Coh, ChainInv
  <2>2. \A x \in Caches : A2[x] # NoAnswer => Sent(M2[x]) /\ \A d \in Caches : ~Promises(M2[d], x)
    BY <1>1, <1>2, <1>3, <1>4, <1>7 DEF Coh, ChainInv
  <2>3. \A x \in Caches : Sent(M2[x]) /\ A2[x] = NoAnswer => \E d \in Caches : Promises(M2[d], x)
    BY <1>1, <1>2, <1>3, <1>7 DEF Coh, ChainInv
  <2>4. \A x, d, e \in Caches : Promises(M2[d], x) /\ Promises(M2[e], x) => d = e
    BY <1>1, <1>2, <1>3 DEF Coh, ChainInv
  <2>5. \A x, d \in Caches : Promises(M2[d], x) => Sent(M2[x]) /\ x # d
    BY <1>1, <1>2, <1>3, <1>4 DEF Coh, ChainInv
  <2>6. ASSUME NEW S \in SUBSET Caches, S # {}, \A x \in S : Sent(M2[x])
        PROVE  \E x \in S : \A d \in S : ~Promises(M2[d], x)
    <3>1. CASE S = {c}
      BY <3>1
    <3>2. CASE S # {c}
      <4>1. S \ {c} \in SUBSET Caches /\ S \ {c} # {} /\ \A x \in S \ {c} : Sent(M[x])
        BY <1>1, <2>6, <3>2
      <4>2. PICK x \in S \ {c} : \A d \in S \ {c} : ~Promises(M[d], x)
        BY <4>1 DEF Coh, ChainInv
      <4>. QED  BY <1>2, <4>2
    <3>. QED  BY <3>1, <3>2
  <2>. QED  BY <1>4, <2>1, <2>2, <2>3, <2>4, <2>5, <2>6 DEF ChainInv
<1>11. TargetInv(M2)
  <2>. SUFFICES ASSUME NEW x \in Caches, NEW d \in Caches, NEW q \in BusCommands, Asks(M2[d], x, q)
                PROVE  /\ q \in {"ReadReq", "ReadExReq", "SCUpgradeFailReq"}
                       /\ q = "ReadReq" <=> Reading(M2[x])
                       /\ q = "ReadReq" /\ M2[d].postInvalidate => M2[x].postInvalidate
    BY DEF TargetInv
  <2>1. d # c
    OBVIOUS
  <2>2. CASE Asks(M[d], x, q)
    <3>1. x # c
      BY <1>3, <2>2
    <3>2. q \in {"ReadReq", "ReadExReq", "SCUpgradeFailReq"} /\ (q = "ReadReq" <=> Reading(M[x]))
      BY <2>2 DEF Coh, TargetInv
    <3>. QED  BY <1>1, <3>1, <3>2
  <2>3. CASE Newest(M[d]) /\ x = c /\ q = cmd
    <3>1. ~Valid(B[c])
      BY <1>3, <2>1, <2>3 DEF Coh, CopyInv
    <3>. QED  BY <1>4, <2>3, <3>1 DEF BusCommands
  <2>. QED  BY <1>1, <2>1, <2>2, <2>3
<1>12. AnswerInv(B2, M2, A2)
  <2>. SUFFICES ASSUME NEW x \in Caches, A2[x] # NoAnswer
                PROVE  /\ Owning(M2[x]) => /\ A2[x].cmd \in {"ReadExReq", "SCUpgradeFailReq", "ReadExResp",
                                                            "UpgradeResp", "UpgradeFailResp"}
                                           /\ ~A2[x].shared
                       /\ Reading(M2[x]) => /\ A2[x].cmd \in {"ReadReq", "ReadResp", "ReadRespWithInvalidate"}
                                            /\ A2[x].inhibit => A2[x].shared
                       /\ A2[x].cmd = "ReadRespWithInvalidate" => M2[x].postInvalidate
                       /\ A2[x].cmd = "UpgradeResp" <=> Valid(B2[x])
    BY DEF AnswerInv
  <2>1. CASE x = c
    BY <1>4, <1>8, <1>9, <2>1
  <2>2. CASE x # c
    <3>1. A2[x] = A[x] /\ Sent(M[x]) /\ B2[x] = B[x]
      BY <1>1, <2>2 DEF Coh, ChainInv
    <3>. QED  BY <1>1, <2>2, <3>1 DEF Coh, AnswerInv
  <2>. QED  BY <2>1, <2>2
<1>13. CopyInv(B2, M2, X2, A2)
  <2>1. \A x \in Caches : ~Writable(B2[x]) /\ ~Keeping(M2[x]) /\ ~MayWriteSoon(M2[x], A2[x])
    BY <1>1, <1>4 DEF MayWriteSoon
  <2>2. \A x \in Caches : Sent(M2[x]) /\ Valid(B2[x]) => Owning(M2[x]) /\ A2[x] # NoAnswer
    <3>1. Valid(B[c]) => A2[c] # NoAnswer
      BY <1>3, <1>7 DEF Coh, CopyInv
    <3>. QED  BY <1>1, <1>4, <3>1 DEF Coh, CopyInv
  <2>3. \A x, d \in Caches : x # d /\ Owning(M2[d]) /\ Valid(B2[x]) => Owning(M2[x])
    BY <1>1, <1>4 DEF Coh, CopyInv
  <2>. QED  BY <2>1, <2>2, <2>3 DEF CopyInv
<1>14. OwnerInv(B2, M2, X2, A2)
  <2>1. \A x \in Caches : X2[x] = NoWB
    BY <1>1
  <2>2. \A x \in Caches : Dirty(B2[x]) => Dirty(B[x])
    BY <1>1
  <2>3. \A x, d \in Caches : Dirty(B2[x]) /\ Dirty(B2[d]) => x = d
    BY <2>2 DEF Coh, OwnerInv
  <2>4. Brings(A2[c]) => ~Dirty(B2[c])
    BY <1>5, <1>7 DEF Answered, Brings, OnWay
  <2>5. \A x \in Caches : Brings(A2[x]) => ~Dirty(B2[x])
    BY <2>2, <2>4 DEF Coh, OwnerInv
  <2>. QED  BY <1>1, <1>4, <2>1, <2>3, <2>5 DEF OwnerInv
<1>15. DataInv(B2, M2, X2, A2, mm, ll)
  <2>1. \A x \in Caches : Valid(B2[x]) => B2[x].data = ll
    BY <1>1 DEF Coh, DataInv
  <2>2. \A x \in Caches : OnWay(A2[x]) /\ A2[x].cmd # "UpgradeResp" /\ (Owning(M2[x]) \/ Keeping(M2[x]))
          => A2[x].data = ll
    BY <1>1, <1>8 DEF Coh, DataInv, OnWay
  <2>3. ASSUME \A x \in Caches : ~Dirty(B2[x]) /\ X2[x] = NoWB /\ ~Brings(A2[x])
        PROVE  mm = ll
    <3>1. \A d \in Caches \ {c} : ~Supplies(B[d], M[d], X[d])
      <4>1. (\E d \in Caches \ {c} : Supplies(B[d], M[d], X[d])) => Brings(A2[c])
        BY BusFacts DEF Answered, Brings, OnWay
      <4>. QED  BY <2>3, <4>1
    <3>2. \A x \in Caches : ~Dirty(B[x]) /\ X[x] = NoWB
      BY <1>1, <2>3, <3>1 DEF Supplies
    <3>3. \A x \in Caches : ~Brings(A[x])
      BY <1>3, <2>3 DEF Brings, OnWay
    <3>. QED  BY <3>2, <3>3 DEF Coh, DataInv
  <2>. QED  BY <1>1, <2>1, <2>2, <2>3 DEF DataInv, Coh
<1>. QED  BY <1>10, <1>11, <1>12, <1>13, <1>14, <1>15 DEF Coh

(* SendMiss of a request to read. *)
LEMMA CohSendRead ==
  ASSUME NEW B, NEW M, NEW X, NEW A, NEW mm, NEW ll, Coh(B, M, X, A, mm, ll),
         NEW B2, NEW M2, NEW X2, NEW A2, NEW c \in Caches, NEW cmd \in BusCommands,
         cmd = "ReadReq",
         \A d \in Caches : Sent(M[d]) => X[d] = NoWB,
         \A d \in Caches : Dirty(B[d]) => Valid(B[d]),
         SnoopsSeen(B, M, X, B2, M2, X2, c, cmd),
         ~Sent(M[c]), X[c] = NoWB, X2[c] = NoWB, B2[c] = B[c], ~Writable(B[c]), ~Valid(B[c]),
         Keeping(M2[c]),
         \A d \in Caches \ {c} : A2[d] = A[d],
         Answered(B, M, X, c, cmd, A2[c], ll)
  PROVE  Coh(B2, M2, X2, A2, mm, ll)
<1>. USE KindFacts
<1>1. \A d \in Caches \ {c} :
        /\ Sent(M2[d]) <=> Sent(M[d])
        /\ Owning(M2[d]) <=> Owning(M[d])
        /\ Reading(M2[d]) <=> Reading(M[d])
        /\ Newest(M2[d]) <=> Newest(M[d])
        /\ Keeping(M2[d]) <=> Keeping(M[d])
        /\ Keeping(M2[d]) => M2[d].postDowngrade
        /\ Sent(M2[d]) => (M2[d].postInvalidate <=> M[d].postInvalidate)
        /\ \A x \in Caches, q \in BusCommands :
             Asks(M2[d], x, q) <=> Asks(M[d], x, q) \/ (Newest(M[d]) /\ x = c /\ q = cmd)
        /\ Valid(B2[d]) <=> Valid(B[d])
        /\ Dirty(B2[d]) <=> Dirty(B[d])
        /\ B2[d].data = B[d].data
        /\ ~Writable(B2[d]) /\ X2[d] = X[d]
  BY DEF SnoopsSeen, SeesSnoop
<1>2. \A d \in Caches \ {c}, x \in Caches :
        Promises(M2[d], x) <=> Promises(M[d], x) \/ (Newest(M[d]) /\ x = c)
  BY <1>1 DEF Promises
<1>3. /\ A[c] = NoAnswer /\ ~Owning(M[c]) /\ ~Newest(M[c]) /\ ~Reading(M[c]) /\ ~Keeping(M[c])
      /\ \A d \in Caches : ~Promises(M[d], c) /\ ~Promises(M[c], d)
  BY DEF Coh, ChainInv
<1>4. /\ Sent(M2[c]) /\ ~Owning(M2[c]) /\ Reading(M2[c]) /\ ~Newest(M2[c]) /\ ~M2[c].postInvalidate
      /\ \A x \in Caches : ~Promises(M2[c], x)
  OBVIOUS
<1>5. \A d \in Caches \ {c} : Supplies(B[d], M[d], X[d]) => \A x \in Caches : ~Owning(M[x])
  BY DEF Coh, CopyInv, OwnerInv, Supplies
<1>6. (\E d \in Caches : Newest(M[d])) => A2[c] = NoAnswer
  BY <1>3, <1>5 DEF Answered
<1>7. /\ (\E d \in Caches : Owning(M[d])) => A2[c] = NoAnswer
      /\ A2[c] = NoAnswer => \E d \in Caches \ {c} : Newest(M[d])
  BY <1>6 DEF Answered, Coh, ChainInv
<1>8. Response(cmd) = "ReadResp" /\ IsRead(cmd)
  BY BusFacts
<1>9. A2[c] # NoAnswer =>
        /\ A2[c].inhibit => A2[c].shared
        /\ A2[c].cmd \in {"ReadReq", "ReadResp"}
        /\ OnWay(A2[c]) => A2[c].data = ll
        /\ ~A2[c].shared => \A d \in Caches \ {c} :
             ~Supplies(B[d], M[d], X[d]) /\ ~Shares(B[d], M[d], X[d], cmd)
        /\ AtMem(A2[c]) => \A d \in Caches \ {c} : ~Supplies(B[d], M[d], X[d])
  <2>1. "ReadReq" \notin Responses /\ "ReadResp" \notin BusCommands
    BY DEF Responses, BusCommands
  <2>. QED  BY <1>8, <2>1 DEF Answered, OnWay, AtMem
<1>10. ChainInv(M2, A2)
  <2>1. \A x, y \in Caches : Owning(M2[x]) /\ Owning(M2[y]) /\ x # y =>
          (A2[x] = NoAnswer \/ A2[y] = NoAnswer) /\ (~Newest(M2[x]) \/ ~Newest(M2[y]))
    BY <1>1, <1>4 DEF Coh, ChainInv
  <2>2. \A x \in Caches : A2[x] # NoAnswer => Sent(M2[x]) /\ \A d \in Caches : ~Promises(M2[d], x)
    BY <1>1, <1>2, <1>3, <1>4, <1>7 DEF Coh, ChainInv
  <2>3. \A x \in Caches : Sent(M2[x]) /\ A2[x] = NoAnswer => \E d \in Caches : Promises(M2[d], x)
    BY <1>1, <1>2, <1>3, <1>7 DEF Coh, ChainInv
  <2>4. \A x, d, e \in Caches : Promises(M2[d], x) /\ Promises(M2[e], x) => d = e
    BY <1>1, <1>2, <1>3, <1>4 DEF Coh, ChainInv
  <2>5. \A x, d \in Caches : Promises(M2[d], x) => Sent(M2[x]) /\ x # d
    BY <1>1, <1>2, <1>3, <1>4 DEF Coh, ChainInv
  <2>6. ASSUME NEW S \in SUBSET Caches, S # {}, \A x \in S : Sent(M2[x])
        PROVE  \E x \in S : \A d \in S : ~Promises(M2[d], x)
    <3>1. CASE S = {c}
      BY <1>4, <3>1
    <3>2. CASE S # {c}
      <4>1. S \ {c} \in SUBSET Caches /\ S \ {c} # {} /\ \A x \in S \ {c} : Sent(M[x])
        BY <1>1, <2>6, <3>2
      <4>2. PICK x \in S \ {c} : \A d \in S \ {c} : ~Promises(M[d], x)
        BY <4>1 DEF Coh, ChainInv
      <4>. QED  BY <1>2, <1>4, <4>2
    <3>. QED  BY <3>1, <3>2
  <2>7. \A x \in Caches : Owning(M2[x]) => \E d \in Caches : Newest(M2[d])
    BY <1>1, <1>3, <1>4 DEF Coh, ChainInv
  <2>. QED  BY <2>1, <2>2, <2>3, <2>4, <2>5, <2>6, <2>7 DEF ChainInv
<1>11. TargetInv(M2)
  <2>. SUFFICES ASSUME NEW x \in Caches, NEW d \in Caches, NEW q \in BusCommands, Asks(M2[d], x, q)
                PROVE  /\ q \in {"ReadReq", "ReadExReq", "SCUpgradeFailReq"}
                       /\ q = "ReadReq" <=> Reading(M2[x])
                       /\ q = "ReadReq" /\ M2[d].postInvalidate => M2[x].postInvalidate
    BY DEF TargetInv
  <2>1. d # c /\ Sent(M2[d])
    BY <1>4
  <2>2. CASE Asks(M[d], x, q)
    <3>1. x # c
      BY <1>3, <2>2
    <3>2. /\ q \in {"ReadReq", "ReadExReq", "SCUpgradeFailReq"} /\ (q = "ReadReq" <=> Reading(M[x]))
          /\ q = "ReadReq" /\ M[d].postInvalidate => M[x].postInvalidate
      BY <2>2 DEF Coh, TargetInv
    <3>. QED  BY <1>1, <2>1, <3>1, <3>2
  <2>3. CASE Newest(M[d]) /\ x = c /\ q = cmd
    BY <1>1, <1>4, <2>1, <2>3
  <2>. QED  BY <1>1, <2>1, <2>2, <2>3
<1>12. AnswerInv(B2, M2, A2)
  <2>. SUFFICES ASSUME NEW x \in Caches, A2[x] # NoAnswer
                PROVE  /\ Owning(M2[x]) => /\ A2[x].cmd \in {"ReadExReq", "SCUpgradeFailReq", "ReadExResp",
                                                            "UpgradeResp", "UpgradeFailResp"}
                                           /\ ~A2[x].shared
                       /\ Reading(M2[x]) => /\ A2[x].cmd \in {"ReadReq", "ReadResp", "ReadRespWithInvalidate"}
                                            /\ A2[x].inhibit => A2[x].shared
                       /\ A2[x].cmd = "ReadRespWithInvalidate" => M2[x].postInvalidate
                       /\ A2[x].cmd = "UpgradeResp" <=> Valid(B2[x])
    BY DEF AnswerInv
  <2>1. CASE x = c
    BY <1>4, <1>9, <2>1
  <2>2. CASE x # c
    <3>1. A2[x] = A[x] /\ Sent(M[x])
      BY <1>1, <2>2 DEF Coh, ChainInv
    <3>. QED  BY <1>1, <2>2, <3>1 DEF Coh, AnswerInv
  <2>. QED  BY <2>1, <2>2
<1>13. CopyInv(B2, M2, X2, A2)
  <2>1. \A x \in Caches : ~Writable(B2[x]) /\ (x # c => ~MayWriteSoon(M2[x], A2[x]))
    BY <1>1 DEF MayWriteSoon
  <2>2. \A x \in Caches : Sent(M2[x]) /\ Valid(B2[x]) => Owning(M2[x]) /\ A2[x] # NoAnswer
    BY <1>1 DEF Coh, CopyInv
  <2>3. \A x, d \in Caches : x # d =>
          /\ Owning(M2[d]) /\ Valid(B2[x]) => Owning(M2[x])
          /\ Owning(M2[d]) /\ Keeping(M2[x]) => A2[x] = NoAnswer
    BY <1>1, <1>4, <1>7 DEF Coh, CopyInv
  <2>4. ASSUME NEW d \in Caches \ {c}, MayWriteSoon(M2[c], A2[c])
        PROVE  ~Valid(B2[d]) /\ ~Owning(M2[d]) /\ ~Keeping(M2[d]) /\ X2[d] = NoWB
    <3>1. A2[c] # NoAnswer /\ ~A2[c].shared
      BY <2>4 DEF MayWriteSoon
    <3>2. ~Supplies(B[d], M[d], X[d]) /\ ~Shares(B[d], M[d], X[d], cmd) /\ ~Owning(M[d])
      BY <1>7, <1>9, <3>1
    <3>3. ~Keeping(M[d]) /\ (~Sent(M[d]) => ~Valid(B[d]))
      BY <3>2 DEF Shares
    <3>4. ~Valid(B[d]) /\ X[d] = NoWB
      BY <3>2, <3>3 DEF Coh, CopyInv, Supplies
    <3>. QED  BY <1>1, <3>2, <3>3, <3>4
  <2>. QED  BY <2>1, <2>2, <2>3, <2>4 DEF CopyInv
<1>14. OwnerInv(B2, M2, X2, A2)
  <2>1. \A x \in Caches : X2[x] = X[x] /\ (Valid(B2[x]) <=> Valid(B[x]))
                          /\ (Dirty(B2[x]) <=> Dirty(B[x])) /\ (Owning(M2[x]) => Owning(M[x]))
    BY <1>1, <1>4
  <2>2. \A x, d \in Caches : X2[x] # NoWB =>
          ~Valid(B2[x]) /\ ~Owning(M2[d]) /\ ~Dirty(B2[d]) /\ (X2[d] # NoWB => x = d)
    BY <2>1 DEF Coh, OwnerInv
  <2>3. \A x, d \in Caches : Dirty(B2[x]) /\ Dirty(B2[d]) => x = d
    BY <2>1 DEF Coh, OwnerInv
  <2>4. \A x \in Caches : Brings(A2[x]) => ~Dirty(B2[x])
    BY <2>1 DEF Coh, OwnerInv
  <2>5. ASSUME NEW x \in Caches, NEW d \in Caches, AtMem(A2[x]), Keeping(M2[x])
        PROVE  ~Dirty(B2[d]) /\ X2[d] = NoWB
    <3>1. CASE x = c
      <4>1. A2[c] # NoAnswer /\ ~Owning(M[d])
        BY <1>7, <2>5, <3>1 DEF AtMem
      <4>2. d # c => ~Supplies(B[d], M[d], X[d])
        BY <1>9, <2>5, <3>1, <4>1
      <4>. QED  BY <2>1, <4>1, <4>2 DEF Supplies, Coh, CopyInv
    <3>2. CASE x # c
      BY <1>1, <2>1, <2>5, <3>2 DEF Coh, OwnerInv
    <3>. QED  BY <3>1, <3>2
  <2>. QED  BY <2>2, <2>3, <2>4, <2>5 DEF OwnerInv
<1>15. DataInv(B2, M2, X2, A2, mm, ll)
  <2>1. \A x \in Caches : Valid(B2[x]) => B2[x].data = ll
    BY <1>1 DEF Coh, DataInv
  <2>2. \A x \in Caches : OnWay(A2[x]) /\ A2[x].cmd # "UpgradeResp" /\ (Owning(M2[x]) \/ Keeping(M2[x]))
          => A2[x].data = ll
    BY <1>1, <1>9 DEF Coh, DataInv, OnWay
  <2>3. \A x \in Caches : ~Dirty(B2[x]) /\ X2[x] = NoWB /\ ~Brings(A2[x]) =>
                          ~Dirty(B[x]) /\ X[x] = NoWB /\ ~Brings(A[x])
    BY <1>1, <1>3 DEF Brings, OnWay
  <2>. QED  BY <1>1, <2>1, <2>2, <2>3 DEF DataInv, Coh
<1>. QED  BY <1>10, <1>11, <1>12, <1>13, <1>14, <1>15 DEF Coh

(* SendRefused: nobody inhibits the memory, and the request stays. *)
LEMMA CohRefused ==
  ASSUME NEW B, NEW M, NEW X, NEW A, NEW mm, NEW ll, Coh(B, M, X, A, mm, ll),
         NEW B2, NEW M2, NEW X2, NEW c \in Caches, NEW cmd \in BusCommands,
         \A d \in Caches : Sent(M[d]) => X[d] = NoWB,
         \A d \in Caches : Dirty(B[d]) => Valid(B[d]),
         SnoopsSeen(B, M, X, B2, M2, X2, c, cmd),
         ~Sent(M[c]), X2[c] = X[c], B2[c] = B[c], M2[c] = M[c], ~Writable(B[c]),
         \A d \in Caches \ {c} : ~Inhibits(B[d], M[d], X[d])
  PROVE  Coh(B2, M2, X2, A, mm, ll)
<1>. USE KindFacts
<1>1. ~Owning(M[c]) /\ ~Reading(M[c]) /\ A[c] = NoAnswer
  BY DEF Coh, ChainInv
<1>2. \A d \in Caches : ~Owning(M[d]) /\ (d # c => ~Supplies(B[d], M[d], X[d]))
  BY <1>1 DEF Inhibits, Coh, ChainInv
<1>3. \A d \in Caches :
        /\ Sent(M2[d]) <=> Sent(M[d])
        /\ ~Owning(M2[d]) /\ ~Newest(M2[d]) /\ ~Newest(M[d])
        /\ Reading(M2[d]) <=> Reading(M[d])
        /\ Keeping(M2[d]) => Keeping(M[d])
        /\ d # c /\ Keeping(M2[d]) => M2[d].postDowngrade
        /\ Sent(M2[d]) /\ M[d].postInvalidate => M2[d].postInvalidate
        /\ \A x \in Caches, q \in BusCommands : ~Asks(M2[d], x, q) /\ ~Asks(M[d], x, q)
        /\ ~Writable(B2[d]) /\ X2[d] = X[d]
  BY <1>1, <1>2 DEF SnoopsSeen, SeesSnoop, Supplies
<1>4. \A d \in Caches, x \in Caches : ~Promises(M2[d], x) /\ ~Promises(M[d], x)
  BY <1>2, <1>3
<1>5. \A d \in Caches : /\ Valid(B2[d]) => Valid(B[d]) /\ B2[d].data = B[d].data
                        /\ Dirty(B2[d]) <=> Dirty(B[d])
                        /\ Sent(M[d]) => ~Valid(B[d]) /\ ~Valid(B2[d])
  <2>1. \A d \in Caches : Sent(M[d]) => ~Valid(B[d])
    BY <1>2 DEF Coh, CopyInv
  <2>2. ASSUME NEW d \in Caches, d # c, ~Sent(M[d])
        PROVE  (Valid(B2[d]) => Valid(B[d]) /\ B2[d].data = B[d].data) /\ (Dirty(B2[d]) <=> Dirty(B[d]))
    <3>1. ~Dirty(B[d])
      BY <1>2, <2>2 DEF Supplies
    <3>. QED  BY <2>2, <3>1, BlockFacts DEF SnoopsSeen, SeesSnoop
  <2>3. ASSUME NEW d \in Caches, d # c, Sent(M[d]) PROVE B2[d] = B[d]
    BY <2>3 DEF SnoopsSeen, SeesSnoop
  <2>. QED  BY <2>1, <2>2, <2>3
<1>6. ChainInv(M2, A)
  BY <1>3, <1>4 DEF Coh, ChainInv
<1>7. TargetInv(M2)
  BY <1>3 DEF TargetInv
<1>8. AnswerInv(B2, M2, A)
  <2>. SUFFICES ASSUME NEW x \in Caches, A[x] # NoAnswer
                PROVE  /\ Reading(M2[x]) => /\ A[x].cmd \in {"ReadReq", "ReadResp", "ReadRespWithInvalidate"}
                                            /\ A[x].inhibit => A[x].shared
                       /\ A[x].cmd = "ReadRespWithInvalidate" => M2[x].postInvalidate
                       /\ A[x].cmd = "UpgradeResp" <=> Valid(B2[x])
    BY <1>3 DEF AnswerInv
  <2>1. Sent(M[x])
    BY DEF Coh, ChainInv
  <2>. QED  BY <1>3, <1>5, <2>1 DEF Coh, AnswerInv
<1>9. CopyInv(B2, M2, X2, A)
  <2>1. \A x \in Caches : ~MayWriteSoon(M2[x], A[x])
    BY <1>1, <1>3 DEF MayWriteSoon
  <2>. QED  BY <1>3, <1>5, <2>1 DEF CopyInv
<1>10. OwnerInv(B2, M2, X2, A)
  BY <1>3, <1>5 DEF Coh, OwnerInv
<1>11. DataInv(B2, M2, X2, A, mm, ll)
  BY <1>3, <1>5 DEF Coh, DataInv
<1>. QED  BY <1>6, <1>7, <1>8, <1>9, <1>10, <1>11 DEF Coh

(* When the newest owner has its answer there is no other owner to come.   *)
LEMMA LastOwner ==
  ASSUME NEW M, NEW A, ChainInv(M, A), TargetInv(M), NEW c \in Caches, Newest(M[c]),
         A[c] # NoAnswer,
         \A d \in Caches, q \in BusCommands : Asks(M[c], d, q) => q = "ReadReq"
  PROVE  \A d \in Caches : Owning(M[d]) => d = c
<1>. DEFINE S == {d \in Caches : Owning(M[d]) /\ d # c}
<1>1. SUFFICES ASSUME S # {} PROVE FALSE
  OBVIOUS
<1>2. S \in SUBSET Caches /\ \A d \in S : Sent(M[d])
  BY KindFacts
<1>3. PICK x \in S : \A d \in S : ~Promises(M[d], x)
  BY <1>1, <1>2 DEF ChainInv
<1>4. x \in Caches /\ Owning(M[x]) /\ x # c /\ Owning(M[c])
  BY KindFacts
<1>5. A[x] = NoAnswer /\ Sent(M[x])
  BY <1>4, KindFacts DEF ChainInv
<1>6. PICK e \in Caches : Promises(M[e], x)
  BY <1>4, <1>5 DEF ChainInv
<1>7. Owning(M[e])
  BY <1>6, KindFacts
<1>8. e = c
  BY <1>3, <1>6, <1>7
<1>9. PICK q \in BusCommands : Asks(M[c], x, q)
  BY <1>6, <1>8 DEF Promises
<1>10. q = "ReadReq" /\ Reading(M[x])
  BY <1>4, <1>9 DEF TargetInv
<1>. QED  BY <1>4, <1>10, KindFacts

(* What the response leaves with cache c: the version ll is in the block   *)
(* or on its way to memory, unless another cache has asked for it.         *)
Settled(b, m, x, r, w, ll) ==
  /\ Valid(b) => b.data = ll /\ x = NoWB
  /\ Dirty(b) \/ Writable(b) => Valid(b)
  /\ x # NoWB => x = ll
  /\ Newest(m) => Dirty(b) \/ x # NoWB
  /\ m.postInvalidate => ~Valid(b) /\ x = NoWB /\ (Reading(m) => w = 0)
  /\ Keeping(m) => /\ Dirty(b) \/ Writable(b) \/ x # NoWB => MayWriteSoon(m, r)
                   /\ w # 0 => Dirty(b) \/ x # NoWB
  /\ Newest(m) /\ Writable(b) => \A d \in Caches : ~Promises(m, d)

(* The answer to the deferred snoop of request q. *)
LateAnswer(r, m, q, ll) ==
  /\ r # NoAnswer /\ r.data = ll /\ r.inhibit
  /\ r.shared <=> q = "ReadReq"
  /\ r.cmd = IF q = "ReadReq" /\ m.postInvalidate THEN "ReadRespWithInvalidate" ELSE Response(q)

(* RecvResp. *)
Responds(B, M, X, A, B2, M2, X2, A2, c, w, ll) ==
  /\ \A d \in Caches : Sent(M[d]) => X[d] = NoWB
  /\ \A d \in Caches : Dirty(B[d]) => Valid(B[d])
  /\ OnWay(A[c]) /\ ~Sent(M2[c]) /\ A2[c] = NoAnswer
  /\ \A d \in Caches \ {c} : B2[d] = B[d] /\ M2[d] = M[d] /\ X2[d] = X[d]
  /\ \A d \in Caches, q \in BusCommands :
       Asks(M[c], d, q) /\ q # "ReadReq" => M[c].postInvalidate
  /\ \A d, e \in Caches, q, s \in BusCommands :
       Asks(M[c], d, q) /\ Asks(M[c], e, s) /\ q # "ReadReq" /\ s # "ReadReq" => d = e
  /\ Owning(M[c]) /\ M[c].postInvalidate =>
       \E d \in Caches, q \in BusCommands : Asks(M[c], d, q) /\ q # "ReadReq"
  /\ Settled(B2[c], M[c], X2[c], A[c], w, ll + w)
  /\ \A d \in Caches \ {c} : Promises(M[c], d) =>
       \E q \in BusCommands : Asks(M[c], d, q) /\ LateAnswer(A2[d], M[c], q, ll + w)
  /\ \A d \in Caches \ {c} : ~Promises(M[c], d) => A2[d] = A[d]

LEMMA CohResp ==
  ASSUME NEW B, NEW M, NEW X, NEW A, NEW mm \in Nat, NEW ll \in Nat, Coh(B, M, X, A, mm, ll),
         NEW B2, NEW M2, NEW X2, NEW A2, NEW c \in Caches, NEW w \in Nat,
         Responds(B, M, X, A, B2, M2, X2, A2, c, w, ll)
  PROVE  Coh(B2, M2, X2, A2, mm, ll + w)
<1>. USE KindFacts DEF Responds
<1>1. /\ A[c] # NoAnswer /\ Sent(M[c]) /\ X[c] = NoWB
      /\ \A d \in Caches : ~Promises(M[d], c)
      /\ Owning(M[c]) \/ Reading(M[c])
  BY DEF OnWay, Coh, ChainInv
<1>2. /\ ~Owning(M2[c]) /\ ~Newest(M2[c]) /\ ~Reading(M2[c]) /\ ~Keeping(M2[c])
      /\ \A x : ~Promises(M2[c], x)
  OBVIOUS
<1>3. Newest(M[c]) => \A d \in Caches : Owning(M[d]) => d = c
  BY <1>1, LastOwner DEF Coh
<1>4. \A d \in Caches \ {c} : Owning(M[c]) =>
        /\ Owning(M[d]) \/ Keeping(M[d]) => A[d] = NoAnswer
        /\ ~Valid(B[d]) /\ X[d] = NoWB
  <2>1. \A d \in Caches \ {c} : Owning(M[c]) =>
          /\ Owning(M[d]) \/ Keeping(M[d]) => A[d] = NoAnswer
          /\ X[d] = NoWB
    BY <1>1 DEF Coh, ChainInv, CopyInv, OwnerInv
  <2>2. \A d \in Caches \ {c} : Owning(M[c]) /\ Valid(B[d]) => Owning(M[d]) /\ A[d] # NoAnswer
    BY DEF Coh, CopyInv
  <2>. QED  BY <2>1, <2>2
<1>5. \A d \in Caches \ {c} : MayWriteSoon(M[c], A[c]) =>
        ~Valid(B[d]) /\ ~Owning(M[d]) /\ ~Keeping(M[d]) /\ X[d] = NoWB
  BY DEF Coh, CopyInv
<1>6. Reading(M[c]) => /\ ~Valid(B[c]) /\ ~Brings(A[c])
                       /\ \A d \in Caches : ~Promises(M[c], d)
  BY <1>1 DEF Coh, CopyInv, AnswerInv, Brings
<1>7. \A d \in Caches \ {c} : Promises(M[c], d) =>
        /\ A[d] = NoAnswer /\ Sent(M[d]) /\ ~Valid(B[d]) /\ A2[d] # NoAnswer
        /\ \A e \in Caches : Promises(M[e], d) => e = c
  <2>1. \A d \in Caches \ {c} : Promises(M[c], d) => A2[d] # NoAnswer
    BY DEF LateAnswer
  <2>2. \A d \in Caches \ {c} : Promises(M[c], d) =>
        /\ A[d] = NoAnswer /\ Sent(M[d])
        /\ \A e \in Caches : Promises(M[e], d) => e = c
    BY DEF Coh, ChainInv
  <2>. QED  BY <2>1, <2>2 DEF Coh, CopyInv
<1>8. \A d \in Caches \ {c} : Promises(M[c], d) =>
        \E q \in BusCommands :
          /\ Asks(M[c], d, q) /\ LateAnswer(A2[d], M[c], q, ll + w)
          /\ q \in {"ReadReq", "ReadExReq", "SCUpgradeFailReq"}
          /\ q = "ReadReq" <=> Reading(M[d])
          /\ q = "ReadReq" /\ M[c].postInvalidate => M[d].postInvalidate
  <2>. SUFFICES ASSUME NEW d \in Caches \ {c}, Promises(M[c], d)
                PROVE  \E q \in BusCommands :
                         /\ Asks(M[c], d, q) /\ LateAnswer(A2[d], M[c], q, ll + w)
                         /\ q \in {"ReadReq", "ReadExReq", "SCUpgradeFailReq"}
                         /\ q = "ReadReq" <=> Reading(M[d])
                         /\ q = "ReadReq" /\ M[c].postInvalidate => M[d].postInvalidate
    OBVIOUS
  <2>1. PICK q \in BusCommands : Asks(M[c], d, q) /\ LateAnswer(A2[d], M[c], q, ll + w)
    OBVIOUS
  <2>2. /\ q \in {"ReadReq", "ReadExReq", "SCUpgradeFailReq"}
        /\ q = "ReadReq" <=> Reading(M[d])
        /\ q = "ReadReq" /\ M[c].postInvalidate => M[d].postInvalidate
    BY <2>1 DEF Coh, TargetInv
  <2>. QED  BY <2>1, <2>2
<1>9. \A d, e \in Caches \ {c} :
        Promises(M[c], d) /\ Promises(M[c], e) /\ Owning(M[d]) /\ Owning(M[e]) => d = e
  <2>1. \A d \in Caches \ {c} : Promises(M[c], d) /\ Owning(M[d]) =>
          \E q \in BusCommands : Asks(M[c], d, q) /\ q # "ReadReq"
    BY <1>8
  <2>. QED  BY <2>1
<1>10. \A d \in Caches \ {c} : Promises(M[c], d) /\ Keeping(M[d]) =>
         Newest(M[c]) /\ A2[d].shared
  BY <1>8 DEF LateAnswer
<1>11. \A d \in Caches \ {c} : Promises(M[c], d) => OnWay(A2[d]) /\ ~AtMem(A2[d])
  <2>1. "ReadRespWithInvalidate" \in Responses /\ \A q \in BusCommands : Response(q) \in Responses
    BY BusFacts DEF Responses
  <2>2. Responses \cap BusCommands = {}
    BY DEF Responses, BusCommands
  <2>. QED  BY <1>8, <2>1, <2>2 DEF LateAnswer, OnWay, AtMem
<1>12. ChainInv(M2, A2)
  <2>1. \A x, y \in Caches : Owning(M2[x]) /\ Owning(M2[y]) /\ x # y =>
          (A2[x] = NoAnswer \/ A2[y] = NoAnswer) /\ (~Newest(M2[x]) \/ ~Newest(M2[y]))
    <3>. SUFFICES ASSUME NEW x \in Caches, NEW y \in Caches, Owning(M2[x]), Owning(M2[y]), x # y
                  PROVE  (A2[x] = NoAnswer \/ A2[y] = NoAnswer) /\ (~Newest(M2[x]) \/ ~Newest(M2[y]))
      OBVIOUS
    <3>1. x # c /\ y # c /\ M2[x] = M[x] /\ M2[y] = M[y]
      BY <1>2
    <3>2. (A[x] = NoAnswer \/ A[y] = NoAnswer) /\ (~Newest(M[x]) \/ ~Newest(M[y]))
      BY <3>1 DEF Coh, ChainInv
    <3>3. Promises(M[c], x) \/ Promises(M[c], y) => A[x] = NoAnswer /\ A[y] = NoAnswer
      BY <1>4, <3>1
    <3>. QED  BY <1>9, <3>1, <3>2, <3>3
  <2>2. \A x \in Caches : Owning(M2[x]) => \E d \in Caches : Newest(M2[d])
    BY <1>2, <1>3 DEF Coh, ChainInv
  <2>3. \A x \in Caches : A2[x] # NoAnswer => Sent(M2[x]) /\ \A d \in Caches : ~Promises(M2[d], x)
    BY <1>2, <1>7 DEF Coh, ChainInv
  <2>4. \A x \in Caches : Sent(M2[x]) /\ A2[x] = NoAnswer => \E d \in Caches : Promises(M2[d], x)
    <3>. SUFFICES ASSUME NEW x \in Caches, Sent(M2[x]), A2[x] = NoAnswer
                  PROVE  \E d \in Caches : Promises(M2[d], x)
      OBVIOUS
    <3>1. x # c /\ ~Promises(M[c], x)
      BY <1>7
    <3>2. PICK d \in Caches : Promises(M[d], x)
      BY <3>1 DEF Coh, ChainInv
    <3>. QED  BY <3>1, <3>2
  <2>5. \A x, d, e \in Caches : Promises(M2[d], x) /\ Promises(M2[e], x) => d = e
    BY <1>2 DEF Coh, ChainInv
  <2>6. \A x, d \in Caches : Promises(M2[d], x) => Sent(M2[x]) /\ x # d
    BY <1>1, <1>2 DEF Coh, ChainInv
  <2>7. ASSUME NEW S \in SUBSET Caches, S # {}, \A x \in S : Sent(M2[x])
        PROVE  \E x \in S : \A d \in S : ~Promises(M2[d], x)
    <3>1. c \notin S /\ \A x \in S : Sent(M[x]) /\ M2[x] = M[x]
      BY <2>7
    <3>2. PICK x \in S : \A d \in S : ~Promises(M[d], x)
      BY <2>7, <3>1 DEF Coh, ChainInv
    <3>. QED  BY <3>1, <3>2
  <2>. QED  BY <2>1, <2>2, <2>3, <2>4, <2>5, <2>6, <2>7 DEF ChainInv
<1>13. TargetInv(M2)
  <2>. SUFFICES ASSUME NEW x \in Caches, NEW d \in Caches, NEW q \in BusCommands, Asks(M2[d], x, q)
                PROVE  /\ q \in {"ReadReq", "ReadExReq", "SCUpgradeFailReq"}
                       /\ q = "ReadReq" <=> Reading(M2[x])
                       /\ q = "ReadReq" /\ M2[d].postInvalidate => M2[x].postInvalidate
    BY DEF TargetInv
  <2>1. d # c /\ M2[d] = M[d]
    BY <1>2
  <2>2. x # c
    BY <1>1, <2>1
  <2>. QED  BY <2>1, <2>2 DEF Coh, TargetInv
<1>14. AnswerInv(B2, M2, A2)
  <2>. SUFFICES ASSUME NEW x \in Caches, A2[x] # NoAnswer
                PROVE  /\ Owning(M2[x]) => /\ A2[x].cmd \in {"ReadExReq", "SCUpgradeFailReq", "ReadExResp",
                                                            "UpgradeResp", "UpgradeFailResp"}
                                           /\ ~A2[x].shared
                       /\ Reading(M2[x]) => /\ A2[x].cmd \in {"ReadReq", "ReadResp", "ReadRespWithInvalidate"}
                                            /\ A2[x].inhibit => A2[x].shared
                       /\ A2[x].cmd = "ReadRespWithInvalidate" => M2[x].postInvalidate
                       /\ A2[x].cmd = "UpgradeResp" <=> Valid(B2[x])
    BY DEF AnswerInv
  <2>1. x # c /\ M2[x] = M[x] /\ B2[x] = B[x]
    OBVIOUS
  <2>2. CASE ~Promises(M[c], x)
    BY <2>1, <2>2 DEF Coh, AnswerInv
  <2>3. CASE Promises(M[c], x)
    <3>1. PICK q \in BusCommands :
             /\ LateAnswer(A2[x], M[c], q, ll + w)
             /\ q \in {"ReadReq", "ReadExReq", "SCUpgradeFailReq"}
             /\ q = "ReadReq" <=> Reading(M[x])
             /\ q = "ReadReq" /\ M[c].postInvalidate => M[x].postInvalidate
      BY <1>8, <2>1, <2>3
    <3>2. /\ Response("ReadReq") = "ReadResp" /\ Response("ReadExReq") = "ReadExResp"
          /\ Response("SCUpgradeFailReq") = "UpgradeFailResp"
      BY DEF Response
    <3>3. ~Valid(B[x])
      BY <1>7, <2>1, <2>3
    <3>. QED  BY <2>1, <3>1, <3>2, <3>3 DEF LateAnswer
  <2>. QED  BY <2>2, <2>3
<1>15. CopyInv(B2, M2, X2, A2)
  <2>1. \A x \in Caches : Sent(M2[x]) /\ Valid(B2[x]) => Owning(M2[x]) /\ A2[x] # NoAnswer
    BY <1>7 DEF Coh, CopyInv
  <2>2. \A x, d \in Caches : x # d /\ Owning(M2[d]) /\ Valid(B2[x]) => Owning(M2[x])
    <3>1. \A d \in Caches \ {c} : Owning(M[d]) /\ Keeping(M[c]) => A[c] = NoAnswer
      BY DEF Coh, CopyInv
    <3>2. \A d \in Caches \ {c} : Owning(M[d]) => ~Valid(B2[c])
      BY <1>1, <1>3, <3>1 DEF Settled
    <3>. QED  BY <1>2, <3>2 DEF Coh, CopyInv
  <2>3. \A x, d \in Caches : x # d /\ Owning(M2[d]) /\ Keeping(M2[x]) => A2[x] = NoAnswer
    BY <1>2, <1>3, <1>10 DEF Coh, CopyInv
  <2>4. ASSUME NEW x \in Caches, NEW d \in Caches, x # d,
               Writable(B2[x]) \/ MayWriteSoon(M2[x], A2[x])
        PROVE  ~Valid(B2[d]) /\ ~Owning(M2[d]) /\ ~Keeping(M2[d]) /\ X2[d] = NoWB
    <3>1. CASE x = c /\ Newest(M[c])
      <4>1. Writable(B2[c])
        BY <1>2, <2>4, <3>1 DEF MayWriteSoon
      <4>2. ~Promises(M[c], d)
        BY <3>1, <4>1 DEF Settled
      <4>3. ~Keeping(M[d])
        <5>1. Keeping(M[d]) => A[d] = NoAnswer /\ Sent(M[d])
          BY <1>4, <2>4, <3>1
        <5>2. Keeping(M[d]) => \E e \in Caches : Promises(M[e], d) /\ Owning(M[e])
          BY <5>1 DEF Coh, ChainInv
        <5>. QED  BY <1>3, <3>1, <4>2, <5>2
      <4>. QED  BY <1>3, <1>4, <2>4, <3>1, <4>3
    <3>2. CASE x = c /\ ~Newest(M[c])
      <4>1. Writable(B2[c])
        BY <1>2, <2>4, <3>2 DEF MayWriteSoon
      <4>2. MayWriteSoon(M[c], A[c])
        BY <1>1, <3>2, <4>1 DEF Settled
      <4>. QED  BY <1>5, <2>4, <3>2, <4>2
    <3>3. CASE x # c
      <4>1. Writable(B[x]) \/ MayWriteSoon(M[x], A[x])
        BY <1>10, <2>4, <3>3 DEF MayWriteSoon
      <4>2. ~Valid(B[d]) /\ ~Owning(M[d]) /\ ~Keeping(M[d]) /\ X[d] = NoWB
        BY <2>4, <4>1 DEF Coh, CopyInv
      <4>3. d = c => ~Valid(B2[c]) /\ X2[c] = NoWB
        BY <1>1, <4>2 DEF Settled
      <4>. QED  BY <1>2, <4>2, <4>3
    <3>. QED  BY <3>1, <3>2, <3>3
  <2>. QED  BY <2>1, <2>2, <2>3, <2>4 DEF CopyInv
<1>16. Dirty(B2[c]) \/ X2[c] # NoWB =>
         \A d \in Caches \ {c} : ~Valid(B[d]) /\ ~Owning(M[d]) /\ X[d] = NoWB
                                 /\ (Keeping(M[d]) => A[d] = NoAnswer)
  <2>1. Dirty(B2[c]) \/ X2[c] # NoWB => Newest(M[c]) \/ MayWriteSoon(M[c], A[c])
    BY <1>1 DEF Settled
  <2>. QED  BY <1>3, <1>4, <1>5, <2>1
<1>17. OwnerInv(B2, M2, X2, A2)
  <2>1. \A x, d \in Caches : X2[x] # NoWB =>
          ~Valid(B2[x]) /\ ~Owning(M2[d]) /\ ~Dirty(B2[d]) /\ (X2[d] # NoWB => x = d)
    <3>. SUFFICES ASSUME NEW x \in Caches, NEW d \in Caches, X2[x] # NoWB
                  PROVE  ~Valid(B2[x]) /\ ~Owning(M2[d]) /\ ~Dirty(B2[d]) /\ (X2[d] # NoWB => x = d)
      OBVIOUS
    <3>1. CASE x = c
      BY <1>2, <1>16, <3>1 DEF Settled
    <3>2. CASE x # c
      <4>1. X[x] # NoWB /\ ~Valid(B[x]) /\ ~Owning(M[d]) /\ ~Dirty(B[d]) /\ (X[d] # NoWB => x = d)
        BY <3>2 DEF Coh, OwnerInv
      <4>2. ~Dirty(B2[c]) /\ X2[c] = NoWB
        BY <1>16, <3>2, <4>1
      <4>. QED  BY <1>2, <3>2, <4>1, <4>2
    <3>. QED  BY <3>1, <3>2
  <2>2. \A x, d \in Caches : Dirty(B2[x]) /\ Dirty(B2[d]) => x = d
    BY <1>16 DEF Coh, OwnerInv
  <2>3. \A x \in Caches : Brings(A2[x]) => ~Dirty(B2[x])
    BY <1>7 DEF Coh, OwnerInv, Brings, OnWay
  <2>4. \A x, d \in Caches : AtMem(A2[x]) /\ Keeping(M2[x]) => ~Dirty(B2[d]) /\ X2[d] = NoWB
    <3>. SUFFICES ASSUME NEW x \in Caches, NEW d \in Caches, AtMem(A2[x]), Keeping(M2[x])
                  PROVE  ~Dirty(B2[d]) /\ X2[d] = NoWB
      OBVIOUS
    <3>1. x # c /\ A2[x] = A[x] /\ Keeping(M[x])
      BY <1>2, <1>11
    <3>2. ~Dirty(B[d]) /\ X[d] = NoWB /\ A[x] # NoAnswer
      BY <3>1 DEF Coh, OwnerInv, AtMem
    <3>. QED  BY <1>16, <3>1, <3>2
  <2>. QED  BY <2>1, <2>2, <2>3, <2>4 DEF OwnerInv
<1>18. \/ w = 0
       \/ \A d \in Caches \ {c} : ~Valid(B[d]) /\ X[d] = NoWB
            /\ (Owning(M[d]) \/ Keeping(M[d]) => A[d] = NoAnswer)
  BY <1>1, <1>4, <1>16 DEF Settled
<1>19. DataInv(B2, M2, X2, A2, mm, ll + w)
  <2>1. \A x \in Caches : Valid(B2[x]) => B2[x].data = ll + w
    <3>1. Valid(B2[c]) => B2[c].data = ll + w
      BY DEF Settled
    <3>2. \A x \in Caches \ {c} : Valid(B[x]) => B[x].data = ll + w
      BY <1>18 DEF Coh, DataInv
    <3>. QED  BY <3>1, <3>2
  <2>2. \A x \in Caches : X2[x] # NoWB => X2[x] = ll + w
    <3>1. X2[c] # NoWB => X2[c] = ll + w
      BY DEF Settled
    <3>2. \A x \in Caches \ {c} : X[x] # NoWB => X[x] = ll + w
      BY <1>18 DEF Coh, DataInv
    <3>. QED  BY <3>1, <3>2
  <2>3. \A x \in Caches : OnWay(A2[x]) /\ A2[x].cmd # "UpgradeResp" /\ (Owning(M2[x]) \/ Keeping(M2[x]))
          => A2[x].data = ll + w
    <3>. SUFFICES ASSUME NEW x \in Caches, OnWay(A2[x]), A2[x].cmd # "UpgradeResp",
                         Owning(M2[x]) \/ Keeping(M2[x])
                  PROVE  A2[x].data = ll + w
      OBVIOUS
    <3>1. x # c /\ M2[x] = M[x]
      BY <1>2
    <3>2. CASE Promises(M[c], x)
      BY <3>1, <3>2 DEF LateAnswer
    <3>3. CASE ~Promises(M[c], x)
      <4>1. A2[x] = A[x] /\ A[x] # NoAnswer /\ A[x].data = ll
        BY <3>1, <3>3 DEF Coh, DataInv, OnWay
      <4>. QED  BY <1>18, <3>1, <4>1
    <3>. QED  BY <3>2, <3>3
  <2>4. ASSUME \A x \in Caches : ~Dirty(B2[x]) /\ X2[x] = NoWB /\ ~Brings(A2[x])
        PROVE  mm = ll + w
    <3>1. ~Newest(M[c])
      BY <2>4 DEF Settled
    <3>2. ~Owning(M[c])
      <4>1. SUFFICES ASSUME Owning(M[c]) PROVE FALSE
        OBVIOUS
      <4>2. PICK d \in Caches, q \in BusCommands : Asks(M[c], d, q) /\ q # "ReadReq"
        BY <3>1, <4>1
      <4>3. d # c /\ Promises(M[c], d) /\ ~Reading(M[d])
        BY <1>1, <4>2 DEF Coh, TargetInv
      <4>4. ~A2[d].shared /\ A2[d].inhibit /\ OnWay(A2[d])
        BY <1>8, <1>11, <4>3 DEF LateAnswer
      <4>. QED  BY <2>4, <4>4 DEF Brings
    <3>3. Reading(M[c]) /\ w = 0
      BY <1>1, <2>4, <3>2 DEF Settled
    <3>4. \A x \in Caches : ~Dirty(B[x]) /\ X[x] = NoWB /\ ~Brings(A[x])
      BY <1>1, <1>6, <2>4, <3>3
    <3>. QED  BY <3>3, <3>4 DEF Coh, DataInv
  <2>5. mm <= ll + w
    <3>1. mm <= ll
      BY DEF Coh, DataInv
    <3>. QED  BY <3>1
  <2>. QED  BY <2>1, <2>2, <2>3, <2>4, <2>5 DEF DataInv
<1>. QED  BY <1>12, <1>13, <1>14, <1>15, <1>17, <1>19 DEF Coh

(* A step of one cache that leaves what the others go by. *)
LEMMA CohSame ==
  ASSUME NEW B, NEW M, NEW X, NEW A, NEW mm, NEW ll, Coh(B, M, X, A, mm, ll),
         NEW B2, NEW M2, NEW X2,
         \A d \in Caches :
           /\ Sent(M2[d]) <=> Sent(M[d])
           /\ Sent(M[d]) => /\ Owning(M2[d]) <=> Owning(M[d])
                            /\ M2[d].postInvalidate <=> M[d].postInvalidate
                            /\ M2[d].postDowngrade <=> M[d].postDowngrade
           /\ \A x \in Caches, q \in BusCommands : Asks(M2[d], x, q) <=> Asks(M[d], x, q)
           /\ Valid(B2[d]) <=> Valid(B[d])
           /\ Dirty(B2[d]) <=> Dirty(B[d])
           /\ Writable(B2[d]) => Writable(B[d])
           /\ B2[d].data = B[d].data /\ X2[d] = X[d]
  PROVE  Coh(B2, M2, X2, A, mm, ll)
<1>. USE KindFacts
<1>1. \A d \in Caches :
        /\ Sent(M2[d]) <=> Sent(M[d])
        /\ Owning(M2[d]) <=> Owning(M[d])
        /\ Reading(M2[d]) <=> Reading(M[d])
        /\ Newest(M2[d]) <=> Newest(M[d])
        /\ Keeping(M2[d]) <=> Keeping(M[d])
        /\ MayWriteSoon(M2[d], A[d]) <=> MayWriteSoon(M[d], A[d])
        /\ \A x \in Caches : Promises(M2[d], x) <=> Promises(M[d], x)
  BY DEF MayWriteSoon, Promises
<1>2. ChainInv(M2, A)
  <2>1. ChainInv(M, A)
    BY Zenon DEF Coh
  <2>2. /\ \A x, d \in Caches : Owning(M2[x]) /\ Owning(M2[d]) /\ x # d =>
              /\ A[x] = NoAnswer \/ A[d] = NoAnswer
              /\ ~Newest(M2[x]) \/ ~Newest(M2[d])
        /\ \A x \in Caches : Owning(M2[x]) => \E d \in Caches : Newest(M2[d])
    BY <1>1, <2>1, Zenon DEF ChainInv
  <2>3. \A x \in Caches : A[x] # NoAnswer => Sent(M2[x]) /\ \A d \in Caches : ~Promises(M2[d], x)
    BY <1>1, <2>1, Zenon DEF ChainInv
  <2>4. \A x \in Caches : Sent(M2[x]) /\ A[x] = NoAnswer => \E d \in Caches : Promises(M2[d], x)
    BY <1>1, <2>1, Zenon DEF ChainInv
  <2>5. /\ \A x, d, e \in Caches : Promises(M2[d], x) /\ Promises(M2[e], x) => d = e
        /\ \A x, d \in Caches : Promises(M2[d], x) => Sent(M2[x]) /\ x # d
    BY <1>1, <2>1, Zenon DEF ChainInv
  <2>6. ASSUME NEW S \in SUBSET Caches, S # {}, \A x \in S : Sent(M2[x])
        PROVE  \E x \in S : \A d \in S : ~Promises(M2[d], x)
    <3>1. PICK x \in S : \A d \in S : ~Promises(M[d], x)
      BY <1>1, <2>1, <2>6, Zenon DEF ChainInv
    <3>. QED  BY <1>1, <3>1, Zenon
  <2>. QED  BY <2>2, <2>3, <2>4, <2>5, <2>6, Zenon DEF ChainInv
<1>3. TargetInv(M2)
  BY <1>1 DEF Coh, TargetInv
<1>4. AnswerInv(B2, M2, A)
  <2>1. \A d \in Caches : A[d] # NoAnswer => Sent(M[d])
    BY DEF Coh, ChainInv
  <2>. QED  BY <1>1, <2>1 DEF Coh, AnswerInv
<1>5. CopyInv(B2, M2, X2, A)
  BY <1>1 DEF Coh, CopyInv
<1>6. OwnerInv(B2, M2, X2, A)
  BY <1>1 DEF Coh, OwnerInv
<1>7. DataInv(B2, M2, X2, A, mm, ll)
  BY <1>1 DEF Coh, DataInv
<1>. QED  BY <1>2, <1>3, <1>4, <1>5, <1>6, <1>7 DEF Coh

(* AccessHits: w writes to a block that may be written. *)
LEMMA CohHit ==
  ASSUME NEW B, NEW M, NEW X, NEW A, NEW mm \in Nat, NEW ll \in Nat, Coh(B, M, X, A, mm, ll),
         NEW B2, NEW c \in Caches, NEW w \in Nat,
         \A d \in Caches : Dirty(B[d]) => Valid(B[d]),
         ~Sent(M[c]), Writable(B[c]), Valid(B[c]),
         Valid(B2[c]), Dirty(B2[c]), B2[c].data = ll + w,
         \A d \in Caches \ {c} : B2[d] = B[d]
  PROVE  Coh(B2, M, X, A, mm, ll + w)
<1>. USE KindFacts
<1>1. A[c] = NoAnswer /\ X[c] = NoWB
  BY DEF Coh, ChainInv, OwnerInv
<1>2. \A d \in Caches \ {c} : ~Valid(B[d]) /\ ~Owning(M[d]) /\ ~Keeping(M[d]) /\ X[d] = NoWB
  BY DEF Coh, CopyInv
<1>3. \A d \in Caches : ~Owning(M[d]) /\ ~Keeping(M[d]) /\ X[d] = NoWB /\ (d # c => ~Valid(B2[d]) /\ ~Dirty(B2[d]))
  BY <1>1, <1>2
<1>4. ChainInv(M, A) /\ TargetInv(M)
  BY DEF Coh
<1>5. AnswerInv(B2, M, A)
  BY <1>1 DEF Coh, AnswerInv
<1>6. CopyInv(B2, M, X, A)
  <2>1. \A x \in Caches : ~MayWriteSoon(M[x], A[x])
    BY <1>3 DEF MayWriteSoon
  <2>2. \A x \in Caches \ {c} : ~Writable(B2[x])
    BY <1>2 DEF Coh, CopyInv
  <2>. QED  BY <1>3, <2>1, <2>2 DEF CopyInv
<1>7. OwnerInv(B2, M, X, A)
  BY <1>1, <1>3 DEF OwnerInv, Brings, OnWay
<1>8. DataInv(B2, M, X, A, mm, ll + w)
  <2>1. mm <= ll + w
    <3>1. mm <= ll
      BY DEF Coh, DataInv
    <3>. QED  BY <3>1
  <2>. QED  BY <1>3, <2>1 DEF DataInv
<1>. QED  BY <1>4, <1>5, <1>6, <1>7, <1>8 DEF Coh

(* SendWriteback. *)
LEMMA CohWriteback ==
  ASSUME NEW B, NEW M, NEW X, NEW A, NEW mm, NEW ll \in Nat, Coh(B, M, X, A, mm, ll),
         NEW X2, NEW c \in Caches, X[c] # NoWB, X2[c] = NoWB,
         \A d \in Caches \ {c} : X2[d] = X[d]
  PROVE  Coh(B, M, X2, A, X[c], ll)
<1>1. X[c] = ll /\ \A d \in Caches : X2[d] = NoWB
  BY DEF Coh, DataInv, OwnerInv
<1>2. CopyInv(B, M, X2, A)
  BY <1>1 DEF Coh, CopyInv
<1>3. OwnerInv(B, M, X2, A)
  BY <1>1 DEF Coh, OwnerInv
<1>4. DataInv(B, M, X2, A, X[c], ll)
  BY <1>1 DEF Coh, DataInv
<1>. QED  BY <1>2, <1>3, <1>4 DEF Coh

(* The memory answers with the last version a request whose copy stays.    *)
LEMMA MemoryCurrent ==
  ASSUME NEW B, NEW M, NEW X, NEW A, NEW mm, NEW ll, Coh(B, M, X, A, mm, ll),
         NEW c \in Caches, AtMem(A[c]), Owning(M[c]) \/ Keeping(M[c]),
         \A d \in Caches : Dirty(B[d]) => Valid(B[d])
  PROVE  mm = ll
<1>. USE KindFacts
<1>1. A[c] # NoAnswer /\ A[c].cmd # "UpgradeResp" /\ ~OnWay(A[c])
  BY DEF AtMem, OnWay, BusCommands, Responses
<1>2. \A d \in Caches : Brings(A[d]) => Owning(M[d]) /\ A[d] # NoAnswer
  BY DEF Coh, ChainInv, AnswerInv, Brings, OnWay
<1>3. CASE Keeping(M[c])
  <2>1. \A d \in Caches : ~Dirty(B[d]) /\ X[d] = NoWB
    BY <1>3 DEF Coh, OwnerInv
  <2>2. \A d \in Caches : ~Brings(A[d])
    BY <1>1, <1>2, <1>3 DEF Coh, CopyInv, Brings
  <2>. QED  BY <2>1, <2>2 DEF Coh, DataInv
<1>4. CASE Owning(M[c])
  <2>1. \A d \in Caches : X[d] = NoWB
    BY <1>4 DEF Coh, OwnerInv
  <2>2. \A d \in Caches : Owning(M[d]) /\ A[d] # NoAnswer => d = c
    BY <1>1, <1>4 DEF Coh, ChainInv
  <2>3. \A d \in Caches : ~Valid(B[d])
    <3>1. ~Valid(B[c])
      BY <1>1 DEF Coh, AnswerInv
    <3>. QED  BY <1>4, <2>2, <3>1 DEF Coh, CopyInv
  <2>4. \A d \in Caches : ~Brings(A[d])
    BY <1>1, <1>2, <2>2 DEF Brings
  <2>. QED  BY <2>1, <2>3, <2>4 DEF Coh, DataInv
<1>. QED  BY <1>3, <1>4

(* MemoryResponds. *)
LEMMA CohMemory ==
  ASSUME NEW B, NEW M, NEW X, NEW A, NEW mm, NEW ll, Coh(B, M, X, A, mm, ll),
         NEW A2, NEW c \in Caches, AtMem(A[c]), A2[c] # NoAnswer,
         \A d \in Caches : Dirty(B[d]) => Valid(B[d]),
         A2[c].cmd = Response(A[c].cmd), A2[c].data = mm, A2[c].shared = A[c].shared, ~A2[c].inhibit,
         \A d \in Caches \ {c} : A2[d] = A[d]
  PROVE  Coh(B, M, X, A2, mm, ll)
<1>. USE KindFacts
<1>1. A[c] # NoAnswer /\ A[c].cmd \in BusCommands /\ ~OnWay(A[c])
  BY DEF AtMem, OnWay, BusCommands, Responses
<1>2. A2[c].cmd \in Responses /\ ~AtMem(A2[c]) /\ ~Brings(A2[c]) /\ ~Brings(A[c])
  BY <1>1, BusFacts DEF AtMem, OnWay, BusCommands, Responses, Brings
<1>3. /\ Owning(M[c]) => /\ A[c].cmd \in {"ReadExReq", "SCUpgradeFailReq"} /\ ~A[c].shared
      /\ Reading(M[c]) => A[c].cmd = "ReadReq"
      /\ ~Valid(B[c]) /\ Sent(M[c])
  <2>1. /\ Owning(M[c]) => /\ A[c].cmd \in {"ReadExReq", "SCUpgradeFailReq", "ReadExResp",
                                       "UpgradeResp", "UpgradeFailResp"}
                           /\ ~A[c].shared
        /\ Reading(M[c]) => /\ A[c].cmd \in {"ReadReq", "ReadResp", "ReadRespWithInvalidate"}
        /\ A[c].cmd = "UpgradeResp" <=> Valid(B[c])
        /\ Sent(M[c])
    BY <1>1 DEF Coh, AnswerInv, ChainInv
  <2>. QED  BY <1>1, <2>1 DEF BusCommands
<1>4. ChainInv(M, A2)
  BY <1>1 DEF Coh, ChainInv
<1>5. TargetInv(M)
  BY DEF Coh
<1>6. AnswerInv(B, M, A2)
  <2>. SUFFICES ASSUME NEW x \in Caches, A2[x] # NoAnswer
                PROVE  /\ Owning(M[x]) => /\ A2[x].cmd \in {"ReadExReq", "SCUpgradeFailReq", "ReadExResp",
                                                            "UpgradeResp", "UpgradeFailResp"}
                                          /\ ~A2[x].shared
                       /\ Reading(M[x]) => /\ A2[x].cmd \in {"ReadReq", "ReadResp", "ReadRespWithInvalidate"}
                                           /\ A2[x].inhibit => A2[x].shared
                       /\ A2[x].cmd = "ReadRespWithInvalidate" => M[x].postInvalidate
                       /\ A2[x].cmd = "UpgradeResp" <=> Valid(B[x])
    BY DEF AnswerInv
  <2>1. CASE x = c
    <3>1. /\ Response("ReadReq") = "ReadResp" /\ Response("ReadExReq") = "ReadExResp"
          /\ Response("SCUpgradeFailReq") = "UpgradeFailResp"
      BY DEF Response
    <3>2. A[c].cmd \in {"ReadReq", "ReadExReq", "SCUpgradeFailReq"}
      BY <1>3
    <3>3. A2[c].cmd \in {"ReadResp", "ReadExResp", "UpgradeFailResp"}
      BY <3>1, <3>2
    <3>. QED  BY <1>3, <2>1, <3>1, <3>3
  <2>2. CASE x # c
    BY <2>2 DEF Coh, AnswerInv
  <2>. QED  BY <2>1, <2>2
<1>7. CopyInv(B, M, X, A2)
  <2>1. \A x \in Caches : MayWriteSoon(M[x], A2[x]) => MayWriteSoon(M[x], A[x])
    BY <1>1 DEF MayWriteSoon
  <2>. QED  BY <1>1, <2>1 DEF Coh, CopyInv
<1>8. OwnerInv(B, M, X, A2)
  BY <1>2 DEF Coh, OwnerInv
<1>9. DataInv(B, M, X, A2, mm, ll)
  <2>1. Owning(M[c]) \/ Keeping(M[c]) => mm = ll
    BY MemoryCurrent
  <2>. QED  BY <1>2, <2>1 DEF Coh, DataInv
<1>. QED  BY <1>4, <1>5, <1>6, <1>7, <1>8, <1>9 DEF Coh

(* A block without an MSHR is replaced, and written back if it is dirty.   *)
LEMMA CohEvict ==
  ASSUME NEW B, NEW M, NEW X, NEW A, NEW mm, NEW ll, Coh(B, M, X, A, mm, ll), ll # NoWB,
         NEW B2, NEW X2, NEW c \in Caches, Valid(B[c]), ~Sent(M[c]), B2[c] = NoBlock,
         \A d \in Caches : Dirty(B[d]) => Valid(B[d]),
         X2[c] = IF Dirty(B[c]) THEN ll ELSE NoWB,
         \A d \in Caches \ {c} : B2[d] = B[d] /\ X2[d] = X[d]
  PROVE  Coh(B2, M, X2, A, mm, ll)
<1>. USE KindFacts, BlockFacts
<1>1. A[c] = NoAnswer /\ X[c] = NoWB /\ ~Owning(M[c]) /\ ~Keeping(M[c])
  BY DEF Coh, ChainInv, OwnerInv
<1>2. \A d \in Caches : ~Owning(M[d])
  BY <1>1 DEF Coh, CopyInv
<1>3. ChainInv(M, A) /\ TargetInv(M)
  BY DEF Coh
<1>4. AnswerInv(B2, M, A)
  BY <1>1 DEF Coh, AnswerInv
<1>5. CopyInv(B2, M, X2, A)
  <2>1. \A x \in Caches \ {c} : Writable(B[x]) \/ MayWriteSoon(M[x], A[x]) => ~Valid(B[c])
    BY DEF Coh, CopyInv
  <2>2. \A x \in Caches : ~(Writable(B2[x]) \/ MayWriteSoon(M[x], A[x]))
    BY <1>1, <2>1 DEF MayWriteSoon
  <2>. QED  BY <1>2, <2>2 DEF Coh, CopyInv
<1>6. OwnerInv(B2, M, X2, A)
  <2>1. \A x, d \in Caches : X2[x] # NoWB =>
          ~Valid(B2[x]) /\ ~Owning(M[d]) /\ ~Dirty(B2[d]) /\ (X2[d] # NoWB => x = d)
    <3>1. Dirty(B[c]) => \A d \in Caches : X[d] = NoWB /\ (Dirty(B[d]) => d = c)
      BY DEF Coh, OwnerInv
    <3>2. \A x, d \in Caches : X[x] # NoWB =>
          ~Valid(B[x]) /\ ~Owning(M[d]) /\ ~Dirty(B[d]) /\ (X[d] # NoWB => x = d)
      BY DEF Coh, OwnerInv
    <3>. QED  BY <1>1, <1>2, <3>1, <3>2
  <2>2. \A x, d \in Caches : AtMem(A[x]) /\ Keeping(M[x]) => ~Dirty(B2[d]) /\ X2[d] = NoWB
    BY DEF Coh, OwnerInv
  <2>. QED  BY <2>1, <2>2 DEF Coh, OwnerInv
<1>7. DataInv(B2, M, X2, A, mm, ll)
  BY <1>1 DEF Coh, DataInv
<1>. QED  BY <1>3, <1>4, <1>5, <1>6, <1>7 DEF Coh

(* Initially nobody has anything. *)
LEMMA CohInit ==
  ASSUME NEW B, NEW M, NEW X, NEW A,
         \A d \in Caches : B[d] = NoBlock /\ M[d] = NoMSHR /\ X[d] = NoWB /\ A[d] = NoAnswer
  PROVE  Coh(B, M, X, A, 0, 0)
<1>1. \A d \in Caches : ~Valid(B[d]) /\ ~Writable(B[d]) /\ ~Dirty(B[d]) /\ ~Sent(M[d])
                        /\ ~Brings(A[d]) /\ ~OnWay(A[d]) /\ ~AtMem(A[d])
  BY BlockFacts DEF Sent, Brings, OnWay, AtMem
<1>2. \A d \in Caches : /\ ~Owning(M[d]) /\ ~Keeping(M[d]) /\ ~MayWriteSoon(M[d], A[d])
                        /\ \A x : ~Promises(M[d], x) /\ \A q : ~Asks(M[d], x, q)
  BY <1>1, KindFacts DEF MayWriteSoon
<1>3. ChainInv(M, A)
  BY <1>1, <1>2 DEF ChainInv
<1>4. TargetInv(M)
  BY <1>2 DEF TargetInv
<1>. QED  BY <1>1, <1>2, <1>3, <1>4 DEF Coh, AnswerInv, CopyInv, OwnerInv, DataInv

-----------------------------------------------------------------------------
(* The steps of the system.                                                *)

(* What the invariant says of one block of one cache. *)
Has(c, a) ==
  /\ cache[c] \in CacheType /\ LocalOK(cache[c])
  /\ cache[c].blk[a] \in BlockType /\ cache[c].mshr[a] \in MSHRType \cup {NoMSHR}
  /\ LineOK(cache[c].blk[a], cache[c].mshr[a]) /\ QueueOK(cache[c], a)
  /\ cache[c].mshr[a] # NoMSHR => cache[c].mshr[a] \in MSHRType /\ MSHROK(cache[c].mshr[a])
  /\ Dirty(cache[c].blk[a]) \/ Writable(cache[c].blk[a]) => Valid(cache[c].blk[a])
  /\ answer[c][a] # NoAnswer => answer[c][a] \in AnswerType
  /\ mem[a] \in Nat /\ latest[a] \in Nat

LEMMA Unpack ==
  ASSUME IInv, NEW c \in Caches, NEW a \in Addrs
  PROVE  Has(c, a)
<1>1. cache[c] \in CacheType /\ LocalOK(cache[c])
  BY DEF IInv, TypeOK
<1>2. cache[c].blk[a] \in BlockType /\ cache[c].mshr[a] \in MSHRType \cup {NoMSHR}
  BY <1>1 DEF CacheType
<1>3. LineOK(cache[c].blk[a], cache[c].mshr[a]) /\ QueueOK(cache[c], a)
  BY <1>1 DEF LocalOK
<1>4. cache[c].mshr[a] # NoMSHR => cache[c].mshr[a] \in MSHRType /\ MSHROK(cache[c].mshr[a])
  BY <1>2, <1>3 DEF LineOK
<1>5. Dirty(cache[c].blk[a]) \/ Writable(cache[c].blk[a]) => Valid(cache[c].blk[a])
  BY <1>3 DEF LineOK, BlockOK, Dirty, Writable, Valid
<1>6. answer[c][a] # NoAnswer => answer[c][a] \in AnswerType
  BY DEF IInv, TypeOK
<1>7. mem[a] \in Nat /\ latest[a] \in Nat
  BY DEF IInv, TypeOK
<1>. QED  BY <1>1, <1>2, <1>3, <1>4, <1>5, <1>6, <1>7 DEF Has

(* One block in all the caches. *)
LEMMA Views ==
  ASSUME NEW a, NEW d \in Caches
  PROVE  /\ Blks(a)[d] = cache[d].blk[a] /\ Msrs(a)[d] = cache[d].mshr[a]
         /\ Wbs(a)[d] = Waiting(cache[d], a) /\ Answers(a)[d] = answer[d][a]
BY DEF Blks, Msrs, Wbs, Answers, Waiting

LEMMA ViewsNext ==
  ASSUME NEW a, NEW d \in Caches
  PROVE  /\ Blks(a)'[d] = cache'[d].blk[a] /\ Msrs(a)'[d] = cache'[d].mshr[a]
         /\ Wbs(a)'[d] = Waiting(cache'[d], a) /\ Answers(a)'[d] = answer'[d][a]
BY DEF Blks, Msrs, Wbs, Answers, Waiting

(* A block about which nothing changes. *)
CohAt(a) == Coh(Blks(a), Msrs(a), Wbs(a), Answers(a), mem[a], latest[a])

LEMMA CohFrame ==
  ASSUME NEW a \in Addrs, CohAt(a), mem'[a] = mem[a], latest'[a] = latest[a],
         \A d \in Caches : /\ cache'[d].blk[a] = cache[d].blk[a]
                           /\ cache'[d].mshr[a] = cache[d].mshr[a]
                           /\ Waiting(cache'[d], a) = Waiting(cache[d], a)
                           /\ answer'[d][a] = answer[d][a]
  PROVE  CohAt(a)'
<1>1. Blks(a)' = Blks(a) /\ Msrs(a)' = Msrs(a) /\ Wbs(a)' = Wbs(a) /\ Answers(a)' = Answers(a)
  BY DEF Blks, Msrs, Wbs, Answers, Waiting
<1>. QED  BY <1>1 DEF CohAt

(* The accesses that wait for a block in one cache. *)
OpsAt(c, a) == cache[c].mshr[a] # NoMSHR => OpsOK(c, a, cache[c].mshr[a], op, latest[a])

LEMMA OpsFrame ==
  ASSUME IInv, NEW c \in Caches, NEW a \in Addrs,
         cache'[c].mshr[a] # NoMSHR =>
           /\ cache'[c].mshr[a] = cache[c].mshr[a]
           /\ \A o \in Ops : Waits(cache[c].mshr[a], o) => op'[o] = op[o],
         latest'[a] \in Nat, latest[a] <= latest'[a]
  PROVE  OpsAt(c, a)'
<1>. SUFFICES ASSUME cache'[c].mshr[a] # NoMSHR
              PROVE  OpsOK(c, a, cache'[c].mshr[a], op', latest'[a])
  BY DEF OpsAt
<1>1. PICK m : m = cache[c].mshr[a]
  OBVIOUS
<1>2. m # NoMSHR /\ cache'[c].mshr[a] = m
  BY <1>1
<1>3. m \in MSHRType /\ latest[a] \in Nat
  BY <1>1, <1>2, Unpack DEF Has
<1>4. OpsOK(c, a, m, op, latest[a]) /\ op \in [Ops -> OpType \cup {NoOp}]
  BY <1>1, <1>2 DEF IInv, OpInv, TypeOK
<1>5. \A o \in Ops : Waits(m, o) => op'[o] = op[o]
  BY <1>1
<1>6. OpsOK(c, a, m, op', latest'[a])
  BY <1>3, <1>4, <1>5, OpsKept
<1>. QED  BY <1>2, <1>6

(* What is on its way to them. *)
FloorsAt(c, a) ==
  answer[c][a] # NoAnswer =>
    \A o \in Ops : CpuOn(cache[c].mshr[a].targets, o) => FloorOK(op[o].floor, answer[c][a], mem[a])

LEMMA FloorsFrame ==
  ASSUME IInv, NEW c \in Caches, NEW a \in Addrs,
         answer'[c][a] # NoAnswer =>
           /\ answer'[c][a] = answer[c][a]
           /\ \A o \in Ops : CpuOn(cache'[c].mshr[a].targets, o) =>
                CpuOn(cache[c].mshr[a].targets, o) /\ op'[o] = op[o],
         mem'[a] = mem[a]
  PROVE  FloorsAt(c, a)'
<1>1. FloorsAt(c, a)
  BY DEF IInv, FloorInv, FloorsAt
<1>. QED  BY <1>1 DEF FloorsAt

(* The parts of the invariant. *)
LEMMA Whole ==
  ASSUME TypeOK, \A c \in Caches : LocalOK(cache[c]),
         \A a \in Addrs : CohAt(a),
         \A c \in Caches, a \in Addrs : OpsAt(c, a) /\ FloorsAt(c, a)
  PROVE  IInv
BY DEF IInv, CohInv, OpInv, FloorInv, CohAt, OpsAt, FloorsAt

LEMMA WholeNext ==
  ASSUME TypeOK', \A c \in Caches : LocalOK(cache'[c]),
         \A a \in Addrs : CohAt(a)',
         \A c \in Caches, a \in Addrs : OpsAt(c, a)' /\ FloorsAt(c, a)'
  PROVE  IInv'
BY DEF IInv, CohInv, OpInv, FloorInv, CohAt, OpsAt, FloorsAt

LEMMA Parts ==
  ASSUME IInv, NEW a \in Addrs
  PROVE  CohAt(a)
BY DEF IInv, CohInv, CohAt

(* Only one cache changes. *)
LEMMA OneCache ==
  ASSUME IInv, NEW c \in Caches, NEW k \in CacheType, LocalOK(k), cache' = [cache EXCEPT ![c] = k]
  PROVE  /\ cache' \in [Caches -> CacheType] /\ \A d \in Caches : LocalOK(cache'[d])
         /\ cache'[c] = k /\ \A d \in Caches \ {c} : cache'[d] = cache[d]
BY DEF IInv, TypeOK

LEMMA TimeStep ==
  ASSUME IInv, NEW c \in Caches, TimePasses(c)
  PROVE  IInv'
<1>1. cache[c] \in CacheType /\ LocalOK(cache[c]) /\ cache \in [Caches -> CacheType]
  BY DEF IInv, TypeOK
<1>2. PICK k : k = Ripen(cache[c])
  OBVIOUS
<1>3. cache' = [cache EXCEPT ![c] = k] /\ cache[c].unripe # << >>
      /\ op' = op /\ answer' = answer /\ mem' = mem /\ latest' = latest
  BY <1>2 DEF TimePasses
<1>4. /\ k \in CacheType /\ LocalOK(k)
      /\ k.blk = cache[c].blk /\ k.mshr = cache[c].mshr /\ k.wb = cache[c].wb
  BY <1>1, <1>2, <1>3, RipenLocal
<1>5. /\ cache' \in [Caches -> CacheType] /\ \A d \in Caches : LocalOK(cache'[d])
      /\ cache'[c] = k /\ \A d \in Caches \ {c} : cache'[d] = cache[d]
  BY <1>3, <1>4, OneCache
<1>6. \A d \in Caches : /\ cache'[d].blk = cache[d].blk /\ cache'[d].mshr = cache[d].mshr
                        /\ cache'[d].wb = cache[d].wb
  BY <1>4, <1>5
<1>7. TypeOK'
  BY <1>3, <1>5 DEF IInv, TypeOK
<1>8. ASSUME NEW a \in Addrs PROVE CohAt(a)'
  <2>1. CohAt(a)
    BY Parts
  <2>2. \A d \in Caches : /\ cache'[d].blk[a] = cache[d].blk[a]
                          /\ cache'[d].mshr[a] = cache[d].mshr[a]
                          /\ Waiting(cache'[d], a) = Waiting(cache[d], a)
                          /\ answer'[d][a] = answer[d][a]
    BY <1>3, <1>6 DEF Waiting
  <2>. QED  BY <1>3, <2>1, <2>2, CohFrame
<1>9. ASSUME NEW d \in Caches, NEW a \in Addrs PROVE OpsAt(d, a)' /\ FloorsAt(d, a)'
  <2>1. latest[a] \in Nat
    BY DEF IInv, TypeOK
  <2>2. OpsAt(d, a)'
    BY <1>3, <1>6, <2>1, OpsFrame
  <2>3. FloorsAt(d, a)'
    BY <1>3, <1>6, FloorsFrame
  <2>. QED  BY <2>2, <2>3
<1>. QED  BY <1>5, <1>7, <1>8, <1>9, WholeNext

(* What is on its way to a request that keeps its copy is the last         *)
(* version.                                                                *)
LEMMA Fresh ==
  ASSUME NEW B, NEW M, NEW X, NEW A, NEW mm \in Nat, NEW ll \in Nat, Coh(B, M, X, A, mm, ll),
         \A d \in Caches : Dirty(B[d]) => Valid(B[d]),
         NEW c \in Caches, A[c] # NoAnswer, ~M[c].postInvalidate, NEW floor \in Nat, floor <= ll
  PROVE  FloorOK(floor, A[c], mm)
<1>1. Sent(M[c])
  BY DEF Coh, ChainInv
<1>2. Owning(M[c]) \/ Keeping(M[c])
  BY <1>1, KindFacts
<1>3. AtMem(A[c]) => mm = ll
  BY <1>2, MemoryCurrent
<1>4. OnWay(A[c]) /\ A[c].cmd # "UpgradeResp" => A[c].data = ll
  BY <1>2 DEF Coh, DataInv
<1>. QED  BY <1>3, <1>4 DEF FloorOK

(* An answer is for an MSHR in service, whose accesses are known. *)
LEMMA AnswerSent ==
  ASSUME IInv, NEW c \in Caches, NEW a \in Addrs, answer[c][a] # NoAnswer
  PROVE  Sent(cache[c].mshr[a]) /\ cache[c].mshr[a] # NoMSHR
<1>1. ChainInv(Msrs(a), Answers(a))
  BY Parts DEF CohAt, Coh
<1>2. Msrs(a)[c] = cache[c].mshr[a] /\ Answers(a)[c] = answer[c][a]
  BY Views
<1>3. Sent(cache[c].mshr[a])
  BY <1>1, <1>2 DEF ChainInv
<1>. QED  BY <1>3 DEF Sent

LEMMA WaitsKnown ==
  ASSUME IInv, NEW c \in Caches, NEW a \in Addrs, cache[c].mshr[a] # NoMSHR,
         NEW o, Waits(cache[c].mshr[a], o)
  PROVE  Known(o, c, a, op, latest[a]) /\ op[o] \in OpType /\ op[o].floor \in Nat
<1>1. PICK m : m = cache[c].mshr[a]
  OBVIOUS
<1>2. m \in MSHRType /\ OpsOK(c, a, m, op, latest[a]) /\ Waits(m, o)
  BY <1>1, Unpack DEF Has, IInv, OpInv
<1>3. Known(o, c, a, op, latest[a])
  BY <1>2, OpsWait
<1>4. op[o] \in OpType
  BY <1>3 DEF Known, IInv, TypeOK
<1>. QED  BY <1>3, <1>4 DEF OpType

LEMMA MemoryStep ==
  ASSUME IInv, NEW c \in Caches, NEW a \in Addrs, MemoryResponds(c, a)
  PROVE  IInv'
<1>1. PICK r : r = answer[c][a]
  OBVIOUS
<1>2. PICK s : s = Answer(Response(r.cmd), mem[a], r.shared, FALSE)
  OBVIOUS
<1>3. /\ r # NoAnswer /\ r.cmd \in BusCommands
      /\ answer' = [answer EXCEPT ![c][a] = s]
      /\ cache' = cache /\ op' = op /\ mem' = mem /\ latest' = latest
  BY <1>1, <1>2 DEF MemoryResponds
<1>4. r \in AnswerType /\ mem[a] \in Nat /\ latest[a] \in Nat
  BY <1>1, <1>3, Unpack DEF Has
<1>5. r.shared \in BOOLEAN
  BY <1>4 DEF AnswerType
<1>6. Response(r.cmd) \in Responses
  BY <1>3, BusFacts
<1>7. s.cmd = Response(r.cmd) /\ s.data = mem[a] /\ s.shared = r.shared /\ ~s.inhibit
  BY <1>2 DEF Answer
<1>8. s \in AnswerType
  BY <1>2, <1>4, <1>5, <1>6 DEF Answer, AnswerType
<1>9. s # NoAnswer
  BY <1>8, NullAssumption
<1>10. answer \in [Caches -> [Addrs -> AnswerType \cup {NoAnswer}]]
  BY DEF IInv, TypeOK
<1>11. /\ answer' \in [Caches -> [Addrs -> AnswerType \cup {NoAnswer}]]
       /\ answer'[c][a] = s
       /\ \A d \in Caches, x \in Addrs : ~(d = c /\ x = a) => answer'[d][x] = answer[d][x]
  BY <1>3, <1>8, <1>10
<1>12. TypeOK'
  BY <1>3, <1>11 DEF IInv, TypeOK
<1>13. \A d \in Caches : LocalOK(cache'[d])
  BY <1>3 DEF IInv
<1>14. ASSUME NEW x \in Addrs PROVE CohAt(x)'
  <2>1. CohAt(x)
    BY Parts
  <2>2. CASE x # a
    <3>1. \A d \in Caches : /\ cache'[d].blk[x] = cache[d].blk[x]
                            /\ cache'[d].mshr[x] = cache[d].mshr[x]
                            /\ Waiting(cache'[d], x) = Waiting(cache[d], x)
                            /\ answer'[d][x] = answer[d][x]
      BY <1>3, <1>11, <2>2
    <3>. QED  BY <1>3, <2>1, <3>1, CohFrame
  <2>3. CASE x = a
    <3>1. PICK B, M, X, A, A2 : /\ B = Blks(a) /\ M = Msrs(a) /\ X = Wbs(a)
                                /\ A = Answers(a) /\ A2 = Answers(a)'
      OBVIOUS
    <3>2. Blks(a)' = B /\ Msrs(a)' = M /\ Wbs(a)' = X
      BY <1>3, <3>1 DEF Blks, Msrs, Wbs
    <3>3. A[c] = r /\ A2[c] = s /\ \A d \in Caches \ {c} : A2[d] = A[d]
      BY <1>1, <1>11, <3>1, Views, ViewsNext
    <3>4. \A d \in Caches : Dirty(B[d]) => Valid(B[d])
      BY <3>1, Views, Unpack DEF Has
    <3>5. AtMem(A[c])
      BY <1>3, <3>3 DEF AtMem
    <3>6. Coh(B, M, X, A, mem[a], latest[a])
      BY <2>1, <2>3, <3>1 DEF CohAt
    <3>7. Coh(B, M, X, A2, mem[a], latest[a])
      BY <1>7, <1>9, <3>3, <3>4, <3>5, <3>6, CohMemory
    <3>. QED  BY <1>3, <2>3, <3>1, <3>2, <3>7 DEF CohAt
  <2>. QED  BY <2>2, <2>3
<1>15. ASSUME NEW d \in Caches, NEW x \in Addrs PROVE OpsAt(d, x)'
  <2>1. latest[x] \in Nat
    BY DEF IInv, TypeOK
  <2>. QED  BY <1>3, <2>1, OpsFrame
<1>16. ASSUME NEW d \in Caches, NEW x \in Addrs PROVE FloorsAt(d, x)'
  <2>1. CASE ~(d = c /\ x = a)
    BY <1>3, <1>11, <2>1, FloorsFrame
  <2>2. CASE d = c /\ x = a
    <3>1. FloorsAt(c, a)
      BY DEF IInv, FloorInv, FloorsAt
    <3>2. AtMem(r) /\ ~AtMem(s)
      BY <1>3, <1>6, <1>7 DEF AtMem, Responses, BusCommands
    <3>3. ASSUME NEW o \in Ops, CpuOn(cache[c].mshr[a].targets, o)
          PROVE  FloorOK(op[o].floor, s, mem[a])
      <4>1. FloorOK(op[o].floor, r, mem[a])
        BY <1>1, <1>3, <3>1, <3>3 DEF FloorsAt
      <4>. QED  BY <1>7, <3>2, <4>1 DEF FloorOK
    <3>. QED  BY <1>3, <1>11, <2>2, <3>3 DEF FloorsAt
  <2>. QED  BY <2>1, <2>2
<1>. QED  BY <1>12, <1>13, <1>14, <1>15, <1>16, WholeNext

(* getNextMSHR(): what is sent waits to be sent. *)
LEMMA NextFacts ==
  ASSUME NEW k \in CacheType, LocalOK(k), NEW next, next = GetNextMSHR(k)
  PROVE  /\ next[1] = "miss" => next[2] \in Addrs /\ Pending(k, next[2])
         /\ next[1] = "wb" => next[2] \in Addrs /\ k.wb[next[2]] # NoWB
         /\ next[1] \in {"none", "miss", "wb"}
<1>1. k.readyMiss \in Seq(Addrs) /\ k.readyWB \in Seq(Addrs)
  BY DEF CacheType
<1>2. \A a \in Addrs : QueueOK(k, a)
  BY DEF LocalOK
<1>3. ASSUME k.readyMiss # << >>
      PROVE  Head(k.readyMiss) \in Addrs /\ Pending(k, Head(k.readyMiss))
  <2>1. Head(k.readyMiss) \in Addrs /\ On(k.readyMiss, Head(k.readyMiss))
    BY <1>1, <1>3, TailOn
  <2>. QED  BY <1>2, <2>1 DEF QueueOK, ListOK
<1>4. ASSUME k.readyWB # << >>
      PROVE  Head(k.readyWB) \in Addrs /\ k.wb[Head(k.readyWB)] # NoWB
  <2>1. Head(k.readyWB) \in Addrs /\ On(k.readyWB, Head(k.readyWB))
    BY <1>1, <1>4, TailOn
  <2>. QED  BY <1>2, <2>1 DEF QueueOK, ListOK
<1>5. PICK miss, write : miss = Head(k.readyMiss) /\ write = Head(k.readyWB)
  OBVIOUS
<1>6. next = CASE k.readyMiss = << >> /\ k.readyWB = << >> -> Token("none", NoMSHR)
       [] k.readyMiss # << >> /\ k.readyWB = << >> -> Token("miss", miss)
       [] k.readyMiss = << >> /\ k.readyWB # << >> -> Token("wb", write)
       [] OTHER ->
            IF WBFull(k)
            THEN Token(IF OlderThanWB(k, write) THEN "miss" ELSE "wb", write)
            ELSE Token(IF k.wb[miss] # NoWB THEN "wb" ELSE "miss", miss)
  BY <1>5 DEF GetNextMSHR
<1>7. \A j, a : Token(j, a)[1] = j /\ Token(j, a)[2] = a
  BY DEF Token
<1>8. OlderThanWB(k, write) => Pending(k, write)
  BY DEF OlderThanWB
<1>9. CASE k.readyMiss = << >> /\ k.readyWB = << >>
  BY <1>6, <1>7, <1>9
<1>10. CASE k.readyMiss # << >> /\ k.readyWB = << >>
  BY <1>3, <1>5, <1>6, <1>7, <1>10
<1>11. CASE k.readyMiss = << >> /\ k.readyWB # << >>
  BY <1>4, <1>5, <1>6, <1>7, <1>11
<1>12. CASE k.readyMiss # << >> /\ k.readyWB # << >>
  <2>1. next = IF WBFull(k) THEN Token(IF OlderThanWB(k, write) THEN "miss" ELSE "wb", write)
               ELSE Token(IF k.wb[miss] # NoWB THEN "wb" ELSE "miss", miss)
    BY <1>6, <1>12
  <2>. QED  BY <1>3, <1>4, <1>5, <1>7, <1>8, <1>12, <2>1
<1>. QED  BY <1>9, <1>10, <1>11, <1>12

LEMMA WritebackStep ==
  ASSUME IInv, NEW c \in Caches, SendWriteback(c)
  PROVE  IInv'
<1>1. cache[c] \in CacheType /\ LocalOK(cache[c]) /\ cache \in [Caches -> CacheType]
  BY DEF IInv, TypeOK
<1>2. PICK next : next = GetNextMSHR(cache[c])
  OBVIOUS
<1>3. next[1] = "wb"
  BY <1>2 DEF SendWriteback
<1>4. PICK a \in Addrs : a = next[2] /\ cache[c].wb[a] # NoWB
  BY <1>1, <1>2, <1>3, NextFacts
<1>5. PICK k : k = ReleaseWriteBuffer(cache[c], a)
  OBVIOUS
<1>6. /\ cache' = [cache EXCEPT ![c] = k]
      /\ mem' = [mem EXCEPT ![a] = cache[c].wb[a].data]
      /\ op' = op /\ answer' = answer /\ latest' = latest
  BY <1>2, <1>4, <1>5 DEF SendWriteback
<1>7. /\ k \in CacheType /\ LocalOK(k)
      /\ k.blk = cache[c].blk /\ k.mshr = cache[c].mshr /\ k.wb = [cache[c].wb EXCEPT ![a] = NoWB]
  BY <1>1, <1>5, ReleaseLocal
<1>8. /\ cache' \in [Caches -> CacheType] /\ \A d \in Caches : LocalOK(cache'[d])
      /\ cache'[c] = k /\ \A d \in Caches \ {c} : cache'[d] = cache[d]
  BY <1>6, <1>7, OneCache
<1>9. cache[c].wb \in [Addrs -> WBType \cup {NoWB}]
  BY <1>1 DEF CacheType
<1>10. /\ \A d \in Caches : cache'[d].blk = cache[d].blk /\ cache'[d].mshr = cache[d].mshr
       /\ cache'[c].wb[a] = NoWB
       /\ \A x \in Addrs : x # a => cache'[c].wb[x] = cache[c].wb[x]
  BY <1>7, <1>8, <1>9
<1>11. PICK v \in Nat : v = cache[c].wb[a].data /\ v = Waiting(cache[c], a) /\ v # NoWB
  BY <1>1, <1>4, WaitingFacts
<1>12. mem \in [Addrs -> Nat] /\ latest \in [Addrs -> Nat]
  BY DEF IInv, TypeOK
<1>13. mem' \in [Addrs -> Nat] /\ mem'[a] = v /\ \A x \in Addrs : x # a => mem'[x] = mem[x]
  BY <1>6, <1>11, <1>12
<1>14. TypeOK'
  BY <1>6, <1>8, <1>13 DEF IInv, TypeOK
<1>15. CohAt(a)
  BY Parts
<1>16. v = latest[a]
  <2>1. Wbs(a)[c] = v
    BY <1>11, Views
  <2>. QED  BY <1>11, <1>15, <2>1 DEF CohAt, Coh, DataInv
<1>17. ASSUME NEW x \in Addrs PROVE CohAt(x)'
  <2>1. CASE x # a
    <3>1. \A d \in Caches : /\ cache'[d].blk[x] = cache[d].blk[x]
                            /\ cache'[d].mshr[x] = cache[d].mshr[x]
                            /\ Waiting(cache'[d], x) = Waiting(cache[d], x)
                            /\ answer'[d][x] = answer[d][x]
      BY <1>6, <1>8, <1>10, <2>1 DEF Waiting
    <3>2. CohAt(x)
      BY Parts
    <3>. QED  BY <1>6, <1>13, <2>1, <3>1, <3>2, CohFrame
  <2>2. CASE x = a
    <3>1. PICK B, M, X, A, X2 : /\ B = Blks(a) /\ M = Msrs(a) /\ X = Wbs(a)
                                /\ A = Answers(a) /\ X2 = Wbs(a)'
      OBVIOUS
    <3>2. Blks(a)' = B /\ Msrs(a)' = M /\ Answers(a)' = A
      BY <1>6, <1>10, <3>1 DEF Blks, Msrs, Answers
    <3>3. X[c] = v /\ X[c] # NoWB
      BY <1>11, <3>1, Views
    <3>4. X2[c] = NoWB
      BY <1>10, <3>1, ViewsNext DEF Waiting
    <3>5. \A d \in Caches \ {c} : X2[d] = X[d]
      BY <1>8, <3>1, Views, ViewsNext
    <3>6. Coh(B, M, X, A, mem[a], latest[a]) /\ latest[a] \in Nat
      BY <1>12, <1>15, <3>1 DEF CohAt
    <3>7. Coh(B, M, X2, A, X[c], latest[a])
      BY <3>3, <3>4, <3>5, <3>6, CohWriteback
    <3>. QED  BY <1>6, <1>13, <2>2, <3>1, <3>2, <3>3, <3>7 DEF CohAt
  <2>. QED  BY <2>1, <2>2
<1>18. ASSUME NEW d \in Caches, NEW x \in Addrs PROVE OpsAt(d, x)'
  <2>1. latest[x] \in Nat
    BY <1>12
  <2>. QED  BY <1>6, <1>10, <2>1, OpsFrame
<1>19. ASSUME NEW d \in Caches, NEW x \in Addrs PROVE FloorsAt(d, x)'
  <2>1. CASE x # a
    BY <1>6, <1>10, <1>13, <2>1, FloorsFrame
  <2>2. CASE x = a
    <3>1. FloorsAt(d, a)
      BY DEF IInv, FloorInv, FloorsAt
    <3>2. ASSUME answer[d][a] # NoAnswer, NEW o \in Ops, CpuOn(cache[d].mshr[a].targets, o)
          PROVE  FloorOK(op[o].floor, answer[d][a], v)
      <4>1. FloorOK(op[o].floor, answer[d][a], mem[a])
        BY <3>1, <3>2 DEF FloorsAt
      <4>2. cache[d].mshr[a] # NoMSHR /\ Waits(cache[d].mshr[a], o)
        BY <3>2, AnswerSent DEF Waits
      <4>3. Known(o, d, a, op, latest[a])
        BY <4>2, WaitsKnown
      <4>4. op[o].floor <= v
        BY <1>16, <4>3 DEF Known
      <4>. QED  BY <4>1, <4>4 DEF FloorOK
    <3>. QED  BY <1>6, <1>10, <1>13, <2>2, <3>2 DEF FloorsAt
  <2>. QED  BY <2>1, <2>2
<1>. QED  BY <1>8, <1>14, <1>17, <1>18, <1>19, WholeNext

LEMMA HitStep ==
  ASSUME IInv, NEW o \in Ops, NEW cmd \in CpuCommands, NEW req \in Requests, NEW a \in Addrs,
         AccessHits(o, cmd, a, req)
  PROVE  IInv'
<1>1. PICK c \in Caches : c = CpuOf[o]
  BY CoherentAssumption
<1>2. cache[c] \in CacheType /\ LocalOK(cache[c]) /\ cache \in [Caches -> CacheType]
  BY DEF IInv, TypeOK
<1>3. PICK e : e = SatisfyCpuSideRequest(cache[c].blk[a], cmd, req)
  OBVIOUS
<1>4. PICK k : k = [cache[c] EXCEPT !.blk[a] = e]
  OBVIOUS
<1>5. PICK b : b = cache[c].blk[a]
  OBVIOUS
<1>6. /\ Hit(cache[c], cmd, a)
      /\ cache' = [cache EXCEPT ![c] = k]
      /\ latest' = [latest EXCEPT ![a] = latest[a] + (e.data - b.data)]
      /\ op' = op /\ answer' = answer /\ mem' = mem
  BY <1>1, <1>3, <1>4, <1>5 DEF AccessHits
<1>7. /\ k \in CacheType /\ LocalOK(k) /\ e \in BlockType
      /\ k.mshr = cache[c].mshr /\ k.wb = cache[c].wb /\ k.blk = [cache[c].blk EXCEPT ![a] = e]
      /\ cache[c].mshr[a] = NoMSHR /\ Valid(b) /\ Valid(e)
      /\ e.data = b.data \/ e.data = b.data + 1
      /\ ~NeedsExclusive(cmd) => e.status = b.status /\ e.data = b.data
      /\ NeedsExclusive(cmd) => Writable(b) /\ Dirty(e)
  <2>1. PICK q : q = cache[c]
    OBVIOUS
  <2>2. /\ q \in CacheType /\ LocalOK(q) /\ Hit(q, cmd, a)
        /\ e = SatisfyCpuSideRequest(q.blk[a], cmd, req) /\ k = [q EXCEPT !.blk[a] = e]
    BY <1>2, <1>3, <1>4, <1>6, <2>1
  <2>3. HitResult(k, q, a, e, cmd)
    BY <2>2, HitLocal
  <2>. QED  BY <1>5, <2>1, <2>3 DEF HitResult
<1>8. /\ cache' \in [Caches -> CacheType] /\ \A d \in Caches : LocalOK(cache'[d])
      /\ cache'[c] = k /\ \A d \in Caches \ {c} : cache'[d] = cache[d]
  BY <1>6, <1>7, OneCache
<1>9. cache[c].blk \in [Addrs -> BlockType] /\ b \in BlockType
  BY <1>2, <1>5 DEF CacheType
<1>10. /\ \A d \in Caches : cache'[d].mshr = cache[d].mshr /\ cache'[d].wb = cache[d].wb
       /\ cache'[c].blk[a] = e
       /\ \A x \in Addrs : x # a => cache'[c].blk[x] = cache[c].blk[x]
  BY <1>7, <1>8, <1>9
<1>11. b.data \in Nat
  BY <1>9 DEF BlockType
<1>12. PICK w \in Nat : w = e.data - b.data /\ e.data = b.data + w
  <2>1. CASE e.data = b.data
    BY <1>11, <2>1
  <2>2. CASE e.data = b.data + 1
    BY <1>11, <2>2
  <2>. QED  BY <1>7, <2>1, <2>2
<1>13. mem \in [Addrs -> Nat] /\ latest \in [Addrs -> Nat]
  BY DEF IInv, TypeOK
<1>14. /\ latest' \in [Addrs -> Nat] /\ latest'[a] = latest[a] + w
       /\ \A x \in Addrs : x # a => latest'[x] = latest[x]
  BY <1>6, <1>12, <1>13
<1>15. TypeOK'
  BY <1>6, <1>8, <1>14 DEF IInv, TypeOK
<1>16. ASSUME NEW x \in Addrs PROVE CohAt(x)'
  <2>1. CohAt(x)
    BY Parts
  <2>2. CASE x # a
    <3>1. \A d \in Caches : /\ cache'[d].blk[x] = cache[d].blk[x]
                            /\ cache'[d].mshr[x] = cache[d].mshr[x]
                            /\ Waiting(cache'[d], x) = Waiting(cache[d], x)
                            /\ answer'[d][x] = answer[d][x]
      BY <1>6, <1>8, <1>10, <2>2 DEF Waiting
    <3>. QED  BY <1>6, <1>14, <2>1, <2>2, <3>1, CohFrame
  <2>3. CASE x = a
    <3>1. PICK B, M, X, A, B2 : /\ B = Blks(a) /\ M = Msrs(a) /\ X = Wbs(a)
                                /\ A = Answers(a) /\ B2 = Blks(a)'
      OBVIOUS
    <3>2. Wbs(a)' = X /\ Msrs(a)' = M /\ Answers(a)' = A
      BY <1>6, <1>10, <3>1 DEF Wbs, Msrs, Answers
    <3>3. B[c] = b /\ B2[c] = e /\ M[c] = NoMSHR
      BY <1>5, <1>7, <1>10, <3>1, Views, ViewsNext
    <3>4. \A d \in Caches \ {c} : B2[d] = B[d]
      BY <1>8, <3>1, Views, ViewsNext
    <3>5. Coh(B, M, X, A, mem[a], latest[a]) /\ latest[a] \in Nat /\ mem[a] \in Nat
      BY <1>13, <2>1, <2>3, <3>1 DEF CohAt
    <3>6. \A d \in Caches : Dirty(B[d]) => Valid(B[d])
      BY <3>1, Views, Unpack DEF Has
    <3>7. ~Sent(M[c]) /\ b.data = latest[a]
      BY <1>7, <3>3, <3>5 DEF Sent, Coh, DataInv
    <3>8. Coh(B2, M, X, A, mem[a], latest[a] + w)
      <4>1. CASE NeedsExclusive(cmd)
        <5>1. Writable(B[c]) /\ Valid(B[c]) /\ Valid(B2[c]) /\ Dirty(B2[c]) /\ B2[c].data = latest[a] + w
          BY <1>7, <1>12, <3>3, <3>7, <4>1
        <5>. QED  BY <3>4, <3>5, <3>6, <3>7, <5>1, CohHit
      <4>2. CASE ~NeedsExclusive(cmd)
        <5>1. w = 0 /\ e.status = b.status /\ e.data = b.data
          BY <1>7, <1>11, <1>12, <4>2
        <5>2. \A d \in Caches : /\ Valid(B2[d]) <=> Valid(B[d])
                                /\ Dirty(B2[d]) <=> Dirty(B[d])
                                /\ Writable(B2[d]) <=> Writable(B[d])
                                /\ B2[d].data = B[d].data
          BY <3>3, <3>4, <5>1 DEF Valid, Dirty, Writable
        <5>3. Coh(B2, M, X, A, mem[a], latest[a])
          BY <3>5, <5>2, CohSame
        <5>4. latest[a] + w = latest[a]
          BY <3>5, <5>1
        <5>. QED  BY <5>3, <5>4
      <4>. QED  BY <4>1, <4>2
    <3>. QED  BY <1>6, <1>14, <2>3, <3>1, <3>2, <3>8 DEF CohAt
  <2>. QED  BY <2>2, <2>3
<1>17. ASSUME NEW d \in Caches, NEW x \in Addrs PROVE OpsAt(d, x)'
  <2>1. latest[x] \in Nat /\ latest'[x] \in Nat /\ latest[x] <= latest'[x]
    BY <1>13, <1>14
  <2>. QED  BY <1>6, <1>10, <2>1, OpsFrame
<1>18. ASSUME NEW d \in Caches, NEW x \in Addrs PROVE FloorsAt(d, x)'
  BY <1>6, <1>10, FloorsFrame
<1>. QED  BY <1>8, <1>15, <1>16, <1>17, <1>18, WholeNext

(* What a miss leaves as it is, and the target it adds. *)
MissResult(k, q, a, o, cmd, req) ==
  /\ k \in CacheType /\ LocalOK(k) /\ k.wb = q.wb
  /\ \A x \in Addrs : x # a => k.blk[x] = q.blk[x] /\ k.mshr[x] = q.mshr[x]
  /\ Valid(k.blk[a]) <=> Valid(q.blk[a])
  /\ Dirty(k.blk[a]) <=> Dirty(q.blk[a])
  /\ Writable(k.blk[a]) <=> Writable(q.blk[a])
  /\ k.blk[a].data = q.blk[a].data
  /\ Sent(k.mshr[a]) <=> Sent(q.mshr[a])
  /\ Sent(q.mshr[a]) => /\ Owning(k.mshr[a]) <=> Owning(q.mshr[a])
                        /\ k.mshr[a].postInvalidate <=> q.mshr[a].postInvalidate
                        /\ k.mshr[a].postDowngrade <=> q.mshr[a].postDowngrade
  /\ \A x \in Caches, r \in BusCommands : Asks(k.mshr[a], x, r) <=> Asks(q.mshr[a], x, r)
  /\ \/ q.mshr[a] = NoMSHR /\ k.mshr[a] = NewMSHR(o, cmd, req)
     \/ q.mshr[a] # NoMSHR /\ Added(k.mshr[a], q.mshr[a], o, cmd, req)

(* addTarget, as the invariant sees it. *)
AddedTo(n, m, o, cmd, req) ==
  /\ n \in MSHRType
  /\ n.inService = m.inService /\ n.pendingDirty = m.pendingDirty
  /\ n.postInvalidate = m.postInvalidate /\ n.postDowngrade = m.postDowngrade
  /\ \A x \in Caches, r \in BusCommands :
       On(n.targets, FromSnoop(x, r)) <=> On(m.targets, FromSnoop(x, r))
  /\ Added(n, m, o, cmd, req)

LEMMA AddTargetAdds ==
  ASSUME NEW b \in BlockType, NEW m \in MSHRType, LineOK(b, m), NEW o \in Ops,
         NEW cmd \in CpuCommands, NEW req \in Requests, NEW n, n = AddTarget(m, o, cmd, req)
  PROVE  AddedTo(n, m, o, cmd, req)
<1>1. /\ n \in MSHRType
      /\ n.inService = m.inService /\ n.pendingDirty = m.pendingDirty
      /\ n.postInvalidate = m.postInvalidate /\ n.postDowngrade = m.postDowngrade
  BY AddTargetLine
<1>2. \A x \in Caches, r \in BusCommands :
        On(n.targets, FromSnoop(x, r)) <=> On(m.targets, FromSnoop(x, r))
  BY AddTargetLine
<1>3. Added(n, m, o, cmd, req)
  BY AddTargetLine DEF Added
<1>. QED  BY <1>1, <1>2, <1>3, Zenon DEF AddedTo

LEMMA MissFacts ==
  ASSUME NEW q \in CacheType, LocalOK(q), NEW a \in Addrs, NEW o \in Ops,
         NEW cmd \in CpuCommands, NEW req \in Requests, ~Hit(q, cmd, a), NEW k, k = Miss(q, a, o, cmd, req)
  PROVE  MissResult(k, q, a, o, cmd, req)
<1>1. /\ q.blk \in [Addrs -> BlockType] /\ q.mshr \in [Addrs -> MSHRType \cup {NoMSHR}]
      /\ q.blk[a] \in BlockType
  BY DEF CacheType
<1>2. CASE q.mshr[a] = NoMSHR
  <2>1. k = MissAlone(q, a, o, cmd, req)
    BY <1>2 DEF Miss
  <2>2. /\ k \in CacheType /\ LocalOK(k) /\ k.wb = q.wb
        /\ k.mshr = [q.mshr EXCEPT ![a] = NewMSHR(o, cmd, req)]
        /\ k.blk = [q.blk EXCEPT ![a].status = @ \ {"R"}]
    BY <1>2, <2>1, MissAloneLocal
  <2>3. PICK n : n = NewMSHR(o, cmd, req)
    OBVIOUS
  <2>4. k.mshr[a] = n /\ \A x \in Addrs : x # a => k.mshr[x] = q.mshr[x]
    BY <1>1, <2>2, <2>3
  <2>5. /\ k.blk[a].status = q.blk[a].status \ {"R"} /\ k.blk[a].data = q.blk[a].data
        /\ \A x \in Addrs : x # a => k.blk[x] = q.blk[x]
    BY <1>1, <2>2 DEF BlockType
  <2>6. ~n.inService
    BY <2>3 DEF NewMSHR
  <2>7. ~Sent(n) /\ ~Sent(NoMSHR)
    BY <2>6 DEF Sent
  <2>8. \A x, r : ~Asks(n, x, r) /\ ~Asks(NoMSHR, x, r)
    BY <2>7 DEF Asks, Owning
  <2>9. /\ Valid(k.blk[a]) <=> Valid(q.blk[a])
        /\ Dirty(k.blk[a]) <=> Dirty(q.blk[a])
        /\ Writable(k.blk[a]) <=> Writable(q.blk[a])
    BY <2>5 DEF Valid, Dirty, Writable
  <2>. QED  BY <1>2, <2>2, <2>3, <2>4, <2>5, <2>7, <2>8, <2>9 DEF MissResult
<1>3. CASE q.mshr[a] # NoMSHR
  <2>1. k = MissToMSHR(q, a, o, cmd, req)
    BY <1>3 DEF Miss
  <2>2. PICK m, n : m = q.mshr[a] /\ n = AddTarget(m, o, cmd, req)
    OBVIOUS
  <2>3. /\ k \in CacheType /\ LocalOK(k) /\ k.wb = q.wb /\ k.blk = q.blk
        /\ k.mshr = [q.mshr EXCEPT ![a] = n]
    BY <1>3, <2>1, <2>2, MissToMSHRLocal
  <2>4. m \in MSHRType /\ LineOK(q.blk[a], m)
    BY <1>1, <1>3, <2>2 DEF LocalOK
  <2>5. AddedTo(n, m, o, cmd, req)
    BY <1>1, <2>2, <2>4, AddTargetAdds
  <2>6. /\ n \in MSHRType /\ Added(n, m, o, cmd, req)
        /\ n.inService = m.inService /\ n.pendingDirty = m.pendingDirty
        /\ n.postInvalidate = m.postInvalidate /\ n.postDowngrade = m.postDowngrade
        /\ \A x \in Caches, r \in BusCommands :
             On(n.targets, FromSnoop(x, r)) <=> On(m.targets, FromSnoop(x, r))
    BY <2>5, Zenon DEF AddedTo
  <2>7. n # NoMSHR /\ m # NoMSHR
    BY <2>4, <2>6, NullAssumption
  <2>8. (Sent(n) <=> Sent(m)) /\ (Owning(n) <=> Owning(m))
    BY <2>6, <2>7 DEF Sent, Owning
  <2>9. \A x \in Caches, r \in BusCommands : Asks(n, x, r) <=> Asks(m, x, r)
    BY <2>6, <2>8 DEF Asks
  <2>10. k.mshr[a] = n /\ \A x \in Addrs : x # a => k.mshr[x] = q.mshr[x]
    BY <1>1, <2>3
  <2>. QED  BY <2>2, <2>3, <2>6, <2>7, <2>8, <2>9, <2>10 DEF MissResult
<1>. QED  BY <1>2, <1>3

LEMMA MissStep ==
  ASSUME IInv, NEW o \in Ops, NEW cmd \in CpuCommands, NEW req \in Requests, NEW a \in Addrs,
         AccessMisses(o, cmd, a, req)
  PROVE  IInv'
<1>1. PICK c \in Caches : c = CpuOf[o]
  BY CoherentAssumption
<1>2. cache[c] \in CacheType /\ LocalOK(cache[c]) /\ cache \in [Caches -> CacheType]
  BY DEF IInv, TypeOK
<1>3. PICK q : q = cache[c]
  OBVIOUS
<1>4. PICK k : k = Miss(q, a, o, cmd, req)
  OBVIOUS
<1>5. PICK new : new = [cmd |-> cmd, addr |-> a, floor |-> latest[a]]
  OBVIOUS
<1>6. /\ op[o] = NoOp /\ ~Hit(q, cmd, a)
      /\ cache' = [cache EXCEPT ![c] = k] /\ op' = [op EXCEPT ![o] = new]
      /\ answer' = answer /\ mem' = mem /\ latest' = latest
  BY <1>1, <1>3, <1>4, <1>5 DEF AccessMisses, MayIssue
<1>7. MissResult(k, q, a, o, cmd, req)
  BY <1>2, <1>3, <1>4, <1>6, MissFacts
<1>8. k \in CacheType /\ LocalOK(k) /\ k.wb = q.wb
  BY <1>7 DEF MissResult
<1>9. /\ cache' \in [Caches -> CacheType] /\ \A d \in Caches : LocalOK(cache'[d])
      /\ cache'[c] = k /\ \A d \in Caches \ {c} : cache'[d] = cache[d]
  BY <1>6, <1>8, OneCache
<1>10. /\ op \in [Ops -> OpType \cup {NoOp}] /\ mem \in [Addrs -> Nat] /\ latest \in [Addrs -> Nat]
  BY DEF IInv, TypeOK
<1>11. new \in OpType /\ new # NoOp
  <2>1. new \in OpType
    BY <1>5, <1>10 DEF OpType
  <2>. QED  BY <2>1, NullAssumption
<1>12. /\ op' \in [Ops -> OpType \cup {NoOp}] /\ op'[o] = new
       /\ \A x \in Ops : x # o => op'[x] = op[x]
  BY <1>6, <1>10, <1>11
<1>13. TypeOK'
  BY <1>6, <1>9, <1>12 DEF IInv, TypeOK
<1>14. \A x \in Addrs : x # a => k.blk[x] = q.blk[x] /\ k.mshr[x] = q.mshr[x]
  BY <1>7 DEF MissResult
<1>15. ASSUME NEW d \in Caches, NEW x \in Addrs, cache[d].mshr[x] # NoMSHR,
              NEW p, Waits(cache[d].mshr[x], p)
       PROVE  p \in Ops /\ p # o /\ op'[p] = op[p]
  <2>1. Known(p, d, x, op, latest[x])
    BY <1>15, WaitsKnown
  <2>. QED  BY <1>6, <1>12, <2>1 DEF Known
<1>16. ASSUME NEW x \in Addrs PROVE CohAt(x)'
  <2>1. CohAt(x)
    BY Parts
  <2>2. CASE x # a
    <3>1. \A d \in Caches : /\ cache'[d].blk[x] = cache[d].blk[x]
                            /\ cache'[d].mshr[x] = cache[d].mshr[x]
                            /\ Waiting(cache'[d], x) = Waiting(cache[d], x)
                            /\ answer'[d][x] = answer[d][x]
      BY <1>3, <1>6, <1>8, <1>9, <1>14, <2>2 DEF Waiting
    <3>. QED  BY <1>6, <2>1, <3>1, CohFrame
  <2>3. CASE x = a
    <3>1. PICK B, M, X, A, B2, M2, X2 :
             /\ B = Blks(a) /\ M = Msrs(a) /\ X = Wbs(a) /\ A = Answers(a)
             /\ B2 = Blks(a)' /\ M2 = Msrs(a)' /\ X2 = Wbs(a)'
      OBVIOUS
    <3>2. Answers(a)' = A
      BY <1>6, <3>1 DEF Answers
    <3>3. /\ B[c] = q.blk[a] /\ B2[c] = k.blk[a] /\ M[c] = q.mshr[a] /\ M2[c] = k.mshr[a]
          /\ X2[c] = X[c]
      <4>1. B[c] = q.blk[a] /\ M[c] = q.mshr[a] /\ X[c] = Waiting(q, a)
        BY <1>3, <3>1, Views
      <4>2. B2[c] = k.blk[a] /\ M2[c] = k.mshr[a] /\ X2[c] = Waiting(k, a)
        BY <1>9, <3>1, ViewsNext
      <4>3. Waiting(k, a) = Waiting(q, a)
        BY <1>8 DEF Waiting
      <4>. QED  BY <4>1, <4>2, <4>3
    <3>4. \A d \in Caches \ {c} : B2[d] = B[d] /\ M2[d] = M[d] /\ X2[d] = X[d]
      BY <1>9, <3>1, Views, ViewsNext
    <3>5. Coh(B, M, X, A, mem[a], latest[a])
      BY <2>1, <2>3, <3>1 DEF CohAt
    <3>6. ASSUME NEW d \in Caches
          PROVE  /\ Sent(M2[d]) <=> Sent(M[d])
                 /\ Sent(M[d]) => /\ Owning(M2[d]) <=> Owning(M[d])
                                  /\ M2[d].postInvalidate <=> M[d].postInvalidate
                                  /\ M2[d].postDowngrade <=> M[d].postDowngrade
                 /\ \A y \in Caches, r \in BusCommands : Asks(M2[d], y, r) <=> Asks(M[d], y, r)
                 /\ Valid(B2[d]) <=> Valid(B[d])
                 /\ Dirty(B2[d]) <=> Dirty(B[d])
                 /\ Writable(B2[d]) => Writable(B[d])
                 /\ B2[d].data = B[d].data /\ X2[d] = X[d]
      <4>1. CASE d = c
        BY <1>7, <3>3, <4>1 DEF MissResult
      <4>2. CASE d # c
        BY <3>4, <4>2
      <4>. QED  BY <4>1, <4>2
    <3>7. Coh(B2, M2, X2, A, mem[a], latest[a])
      BY <3>5, <3>6, CohSame
    <3>. QED  BY <1>6, <2>3, <3>1, <3>2, <3>7 DEF CohAt
  <2>. QED  BY <2>2, <2>3
<1>17. PICK m, n : m = q.mshr[a] /\ n = k.mshr[a]
  OBVIOUS
<1>18. /\ OpsOK(c, a, n, op', latest[a])
       /\ m # NoMSHR => /\ Added(n, m, o, cmd, req)
                        /\ \A x : CpuOn(n.targets, x) => CpuOn(m.targets, x) \/ (x = o /\ ~MustDefer(m, cmd))
  <2>1. Begins(op, op', o, cmd, a, latest[a])
    BY <1>5, <1>6, <1>11, <1>12 DEF Begins
  <2>2. op'[o] = [cmd |-> cmd, addr |-> a, floor |-> latest[a]] /\ op'[o] # NoOp /\ latest[a] \in Nat
    BY <1>5, <1>10, <1>11, <1>12
  <2>3. CASE m = NoMSHR
    <3>1. n = NewMSHR(o, cmd, req)
      BY <1>7, <1>17, <2>3 DEF MissResult
    <3>2. OpsOK(c, a, NewMSHR(o, cmd, req), op', latest[a])
      BY <1>1, <2>2, OpsNew
    <3>. QED  BY <2>3, <3>1, <3>2
  <2>4. CASE m # NoMSHR
    <3>1. Added(n, m, o, cmd, req)
      BY <1>7, <1>17, <2>4 DEF MissResult
    <3>2. m \in MSHRType /\ OpsOK(c, a, m, op, latest[a])
      BY <1>3, <1>17, <2>4, Unpack DEF Has, IInv, OpInv
    <3>3. /\ OpsOK(c, a, n, op', latest[a])
          /\ \A x : CpuOn(n.targets, x) => CpuOn(m.targets, x) \/ (x = o /\ ~MustDefer(m, cmd))
      BY <1>1, <1>10, <2>1, <2>2, <3>1, <3>2, OpsAdded
    <3>. QED  BY <3>1, <3>3
  <2>. QED  BY <2>3, <2>4
<1>19. ASSUME NEW d \in Caches, NEW x \in Addrs PROVE OpsAt(d, x)'
  <2>1. latest[x] \in Nat
    BY <1>10
  <2>2. CASE d = c /\ x = a
    BY <1>6, <1>9, <1>17, <1>18, <2>2 DEF OpsAt
  <2>3. CASE ~(d = c /\ x = a)
    <3>1. cache'[d].mshr[x] = cache[d].mshr[x]
      BY <1>3, <1>9, <1>14, <2>3
    <3>2. cache'[d].mshr[x] # NoMSHR =>
            /\ cache'[d].mshr[x] = cache[d].mshr[x]
            /\ \A p \in Ops : Waits(cache[d].mshr[x], p) => op'[p] = op[p]
      BY <1>15, <3>1
    <3>3. latest'[x] \in Nat /\ latest[x] <= latest'[x]
      BY <1>6, <2>1
    <3>. QED  BY <3>2, <3>3, OpsFrame
  <2>. QED  BY <2>2, <2>3
<1>20. ASSUME NEW d \in Caches, NEW x \in Addrs PROVE FloorsAt(d, x)'
  <2>1. CASE ~(d = c /\ x = a)
    <3>1. cache'[d].mshr[x] = cache[d].mshr[x]
      BY <1>3, <1>9, <1>14, <2>1
    <3>2. ASSUME answer[d][x] # NoAnswer, NEW p \in Ops, CpuOn(cache[d].mshr[x].targets, p)
          PROVE  op'[p] = op[p]
      <4>1. cache[d].mshr[x] # NoMSHR /\ Waits(cache[d].mshr[x], p)
        BY <3>2, AnswerSent DEF Waits
      <4>. QED  BY <1>15, <4>1
    <3>3. answer'[d][x] # NoAnswer =>
            /\ answer'[d][x] = answer[d][x]
            /\ \A p \in Ops : CpuOn(cache'[d].mshr[x].targets, p) =>
                 CpuOn(cache[d].mshr[x].targets, p) /\ op'[p] = op[p]
      BY <1>6, <3>1, <3>2
    <3>. QED  BY <1>6, <3>3, FloorsFrame
  <2>2. CASE d = c /\ x = a
    <3>1. SUFFICES ASSUME answer[c][a] # NoAnswer, NEW p \in Ops, CpuOn(n.targets, p)
                   PROVE  FloorOK(op'[p].floor, answer[c][a], mem[a])
      BY <1>6, <1>9, <1>17, <2>2 DEF FloorsAt
    <3>2. Sent(m) /\ m # NoMSHR
      BY <1>3, <1>17, <3>1, AnswerSent
    <3>3. CASE CpuOn(m.targets, p)
      <4>1. Waits(cache[c].mshr[a], p)
        BY <1>3, <1>17, <3>3 DEF Waits
      <4>2. op'[p] = op[p]
        BY <1>3, <1>15, <1>17, <3>2, <4>1
      <4>3. FloorsAt(c, a)
        BY DEF IInv, FloorInv, FloorsAt
      <4>. QED  BY <1>3, <1>17, <3>1, <3>3, <4>2, <4>3 DEF FloorsAt
    <3>4. CASE p = o /\ ~MustDefer(m, cmd)
      <4>1. ~m.postInvalidate
        BY <3>2, <3>4 DEF MustDefer, Sent
      <4>2. op'[p].floor = latest[a] /\ latest[a] \in Nat /\ mem[a] \in Nat /\ latest[a] <= latest[a]
        BY <1>5, <1>10, <1>12, <3>4
      <4>3. PICK B, M, X, A : B = Blks(a) /\ M = Msrs(a) /\ X = Wbs(a) /\ A = Answers(a)
        OBVIOUS
      <4>4. Coh(B, M, X, A, mem[a], latest[a])
        BY <4>3, Parts DEF CohAt
      <4>5. M[c] = m /\ A[c] = answer[c][a]
        BY <1>3, <1>17, <4>3, Views
      <4>6. \A y \in Caches : Dirty(B[y]) => Valid(B[y])
        BY <4>3, Views, Unpack DEF Has
      <4>7. FloorOK(latest[a], A[c], mem[a])
        BY <3>1, <4>1, <4>2, <4>4, <4>5, <4>6, Fresh
      <4>. QED  BY <4>2, <4>5, <4>7
    <3>. QED  BY <1>18, <3>1, <3>2, <3>3, <3>4
  <2>. QED  BY <2>1, <2>2
<1>. QED  BY <1>9, <1>13, <1>16, <1>19, <1>20, WholeNext

(* What a cache makes of the request of another; ll is the last version. *)
SnoopedAs(s, k, a, c, cmd, ll) ==
  /\ s.k \in CacheType /\ LocalOK(s.k)
  /\ \A x \in Addrs : x # a => /\ s.k.blk[x] = k.blk[x] /\ s.k.mshr[x] = k.mshr[x]
                               /\ Waiting(s.k, x) = Waiting(k, x)
  /\ s.k.mshr[a] = SnoopedMSHR(k.mshr[a], c, cmd)
  /\ s.k.blk[a] = SnoopedBlk(k.blk[a], k.mshr[a], cmd)
  /\ Waiting(s.k, a) = IF ~Sent(k.mshr[a]) /\ cmd # "ReadReq" THEN NoWB ELSE Waiting(k, a)
  /\ s.inhibit <=> Inhibits(k.blk[a], k.mshr[a], Waiting(k, a))
  /\ s.shared <=> Shares(k.blk[a], k.mshr[a], Waiting(k, a), cmd)
  /\ s.answers = IF Supplies(k.blk[a], k.mshr[a], Waiting(k, a))
                 THEN {Answer(Response(cmd), ll, cmd = "ReadReq", TRUE)} ELSE {}

LEMMA SnoopOther ==
  ASSUME IInv, NEW c \in Caches, NEW d \in Caches, NEW a \in Addrs, NEW cmd \in BusCommands,
         NEW s, s = RecvTimingSnoopReq(cache[d], a, c, cmd)
  PROVE  SnoopedAs(s, cache[d], a, c, cmd, latest[a])
<1>1. PICK k : k = cache[d]
  OBVIOUS
<1>2. k \in CacheType /\ LocalOK(k)
  BY <1>1, Unpack DEF Has
<1>3. /\ k.blk \in [Addrs -> BlockType] /\ k.mshr \in [Addrs -> MSHRType \cup {NoMSHR}]
      /\ k.wb \in [Addrs -> WBType \cup {NoWB}]
  BY <1>2 DEF CacheType
<1>4. s = RecvTimingSnoopReq(k, a, c, cmd)
  BY <1>1
<1>5. /\ Waiting(k, a) # NoWB <=> k.wb[a] # NoWB
      /\ Waiting(k, a) # NoWB => Waiting(k, a) = k.wb[a].data
  BY <1>2, WaitingFacts
<1>6. /\ Valid(k.blk[a]) => k.wb[a] = NoWB /\ k.blk[a].data = latest[a]
      /\ k.wb[a] # NoWB => k.wb[a].data = latest[a]
      /\ Dirty(k.blk[a]) => Valid(k.blk[a])
  <2>1. Blks(a)[d] = k.blk[a] /\ Wbs(a)[d] = Waiting(k, a)
    BY <1>1, Views
  <2>2. OwnerInv(Blks(a), Msrs(a), Wbs(a), Answers(a))
        /\ DataInv(Blks(a), Msrs(a), Wbs(a), Answers(a), mem[a], latest[a])
    BY Parts DEF CohAt, Coh
  <2>3. Dirty(k.blk[a]) => Valid(k.blk[a])
    BY <1>1, Unpack DEF Has
  <2>. QED  BY <1>5, <2>1, <2>2, <2>3 DEF OwnerInv, DataInv
<1>7. CASE Sent(k.mshr[a])
  <2>1. /\ s.k \in CacheType /\ LocalOK(s.k)
        /\ s.k.mshr = [k.mshr EXCEPT ![a] = SnoopedMSHR(k.mshr[a], c, cmd)]
        /\ s.k.blk = [k.blk EXCEPT ![a] = SnoopedBlk(k.blk[a], k.mshr[a], cmd)]
        /\ s.k.wb = k.wb
        /\ s.inhibit <=> Newest(k.mshr[a])
        /\ s.shared <=> cmd = "ReadReq" /\ ~k.mshr[a].postInvalidate
        /\ s.answers = {}
    <3>1. SnoopSentResult(s, k, a, c, cmd)
      BY <1>2, <1>4, <1>7, SnoopSentLocal
    <3>. QED  BY <3>1, Zenon DEF SnoopSentResult
  <2>2. /\ \A x \in Addrs : x # a => s.k.blk[x] = k.blk[x] /\ s.k.mshr[x] = k.mshr[x]
        /\ s.k.mshr[a] = SnoopedMSHR(k.mshr[a], c, cmd)
        /\ s.k.blk[a] = SnoopedBlk(k.blk[a], k.mshr[a], cmd)
    BY <1>3, <2>1
  <2>3. \A x \in Addrs : Waiting(s.k, x) = Waiting(k, x)
    BY <2>1 DEF Waiting
  <2>4. /\ ~Supplies(k.blk[a], k.mshr[a], Waiting(k, a))
        /\ s.inhibit <=> Inhibits(k.blk[a], k.mshr[a], Waiting(k, a))
        /\ s.shared <=> Shares(k.blk[a], k.mshr[a], Waiting(k, a), cmd)
    BY <1>7, <2>1 DEF Supplies, Inhibits, Shares
  <2>. QED  BY <1>1, <1>7, <2>1, <2>2, <2>3, <2>4 DEF SnoopedAs
<1>8. CASE ~Sent(k.mshr[a])
  <2>1. /\ s.k \in CacheType /\ LocalOK(s.k)
        /\ s.k.mshr = [k.mshr EXCEPT ![a] = SnoopedMSHR(k.mshr[a], c, cmd)]
        /\ s.k.blk = [k.blk EXCEPT ![a] = SnoopedBlk(k.blk[a], k.mshr[a], cmd)]
        /\ s.k.wb = IF cmd # "ReadReq" THEN [k.wb EXCEPT ![a] = NoWB] ELSE k.wb
        /\ s.inhibit <=> Dirty(k.blk[a]) \/ k.wb[a] # NoWB
        /\ s.shared <=> cmd = "ReadReq" /\ (Valid(k.blk[a]) \/ k.wb[a] # NoWB)
        /\ s.answers = IF Dirty(k.blk[a]) \/ k.wb[a] # NoWB
                       THEN {Answer(Response(cmd),
                                    IF Dirty(k.blk[a]) THEN k.blk[a].data ELSE k.wb[a].data,
                                    cmd = "ReadReq", TRUE)}
                       ELSE {}
    <3>1. SnoopNowResult(s, k, a, c, cmd)
      BY <1>2, <1>4, <1>6, <1>8, SnoopNowLocal
    <3>. QED  BY <3>1 DEF SnoopNowResult
  <2>2. /\ \A x \in Addrs : x # a => s.k.blk[x] = k.blk[x] /\ s.k.mshr[x] = k.mshr[x]
        /\ s.k.mshr[a] = SnoopedMSHR(k.mshr[a], c, cmd)
        /\ s.k.blk[a] = SnoopedBlk(k.blk[a], k.mshr[a], cmd)
    BY <1>3, <2>1
  <2>3. /\ \A x \in Addrs : x # a => s.k.wb[x] = k.wb[x]
        /\ s.k.wb[a] = IF cmd # "ReadReq" THEN NoWB ELSE k.wb[a]
    BY <1>3, <2>1
  <2>4. /\ \A x \in Addrs : x # a => Waiting(s.k, x) = Waiting(k, x)
        /\ Waiting(s.k, a) = IF cmd # "ReadReq" THEN NoWB ELSE Waiting(k, a)
    BY <2>3 DEF Waiting
  <2>5. ~Newest(k.mshr[a])
    BY <1>8, KindFacts
  <2>6. /\ Supplies(k.blk[a], k.mshr[a], Waiting(k, a)) <=> Dirty(k.blk[a]) \/ k.wb[a] # NoWB
        /\ s.inhibit <=> Inhibits(k.blk[a], k.mshr[a], Waiting(k, a))
        /\ s.shared <=> Shares(k.blk[a], k.mshr[a], Waiting(k, a), cmd)
    BY <1>5, <1>8, <2>1, <2>5 DEF Supplies, Inhibits, Shares
  <2>7. Dirty(k.blk[a]) \/ k.wb[a] # NoWB =>
          (IF Dirty(k.blk[a]) THEN k.blk[a].data ELSE k.wb[a].data) = latest[a]
    BY <1>6
  <2>8. s.answers = IF Supplies(k.blk[a], k.mshr[a], Waiting(k, a))
                    THEN {Answer(Response(cmd), latest[a], cmd = "ReadReq", TRUE)} ELSE {}
    BY <2>1, <2>6, <2>7
  <2>. QED  BY <1>1, <1>8, <2>1, <2>2, <2>4, <2>6, <2>8 DEF SnoopedAs
<1>. QED  BY <1>7, <1>8

(* The block, its MSHR and its accesses. *)
LEMMA SnoopSeen ==
  ASSUME IInv, NEW c \in Caches, NEW d \in Caches, NEW a \in Addrs, NEW cmd \in BusCommands,
         NEW s, SnoopedAs(s, cache[d], a, c, cmd, latest[a])
  PROVE  /\ SeesSnoop(cache[d].blk[a], cache[d].mshr[a], s.k.blk[a], s.k.mshr[a], c, cmd)
         /\ s.k.mshr[a] # NoMSHR =>
              /\ cache[d].mshr[a] # NoMSHR
              /\ OpsOK(d, a, s.k.mshr[a], op, latest[a])
              /\ \A o : CpuOn(s.k.mshr[a].targets, o) => CpuOn(cache[d].mshr[a].targets, o)
<1>1. PICK b, m : b = cache[d].blk[a] /\ m = cache[d].mshr[a]
  OBVIOUS
<1>2. PICK e, n : e = s.k.blk[a] /\ n = s.k.mshr[a]
  OBVIOUS
<1>3. n = SnoopedMSHR(m, c, cmd) /\ e = SnoopedBlk(b, m, cmd)
  BY <1>1, <1>2 DEF SnoopedAs
<1>4. b \in BlockType /\ m \in MSHRType \cup {NoMSHR} /\ LineOK(b, m)
      /\ (m # NoMSHR => m \in MSHRType /\ MSHROK(m))
  BY <1>1, Unpack DEF Has
<1>5. /\ n = NoMSHR <=> m = NoMSHR
      /\ Sent(n) <=> Sent(m)
      /\ Owning(n) <=> Owning(m)
      /\ Newest(n) <=> Newest(m) /\ cmd = "ReadReq"
      /\ Reading(n) <=> Reading(m)
      /\ Keeping(n) <=> Keeping(m) /\ cmd = "ReadReq"
      /\ Keeping(n) => n.postDowngrade
      /\ Sent(n) => (n.postInvalidate <=> m.postInvalidate \/ cmd # "ReadReq")
      /\ \A x \in Caches, q \in BusCommands :
           Asks(n, x, q) <=> Asks(m, x, q) \/ (Newest(m) /\ x = c /\ q = cmd)
      /\ Sent(m) => e = b
      /\ ~Sent(m) /\ cmd # "ReadReq" => e = NoBlock
      /\ ~Writable(e)
      /\ cmd = "ReadReq" => /\ Valid(e) <=> Valid(b)
                            /\ Dirty(e) <=> Dirty(b)
                            /\ e.data = b.data
  BY <1>3, <1>4, SnoopLine
<1>6. SeesSnoop(b, m, e, n, c, cmd)
  BY <1>5 DEF SeesSnoop
<1>7. ASSUME n # NoMSHR
      PROVE  /\ m # NoMSHR /\ OpsOK(d, a, n, op, latest[a])
             /\ \A o : CpuOn(n.targets, o) => CpuOn(m.targets, o)
  <2>1. m # NoMSHR /\ m \in MSHRType /\ MSHROK(m)
    BY <1>4, <1>5, <1>7
  <2>2. OpsOK(d, a, m, op, latest[a]) /\ op \in [Ops -> OpType \cup {NoOp}]
    BY <1>1, <2>1 DEF IInv, OpInv, TypeOK
  <2>. QED  BY <1>3, <2>1, <2>2, OpsSnooped
<1>. QED  BY <1>1, <1>2, <1>6, <1>7

(* getBusPacket(). *)
LEMMA PacketFacts ==
  ASSUME NEW k \in CacheType, LocalOK(k), NEW a \in Addrs, Pending(k, a), NEW cmd, cmd = GetBusPacket(k, a)
  PROVE  /\ cmd \in BusCommands
         /\ cmd = "ReadReq" <=> ~ListNeedsExclusive(k.mshr[a].targets)
         /\ cmd \in {"UpgradeReq", "SCUpgradeReq"} <=> Valid(k.blk[a])
         /\ ~Writable(k.blk[a])
<1>1. PICK m, b : m = k.mshr[a] /\ b = k.blk[a]
  OBVIOUS
<1>2. m # NoMSHR /\ ~m.inService
  BY <1>1 DEF Pending
<1>3. LineOK(b, m) /\ m \in MSHRType /\ b \in BlockType
  BY <1>1, <1>2 DEF LocalOK, CacheType
<1>4. MSHROK(m) /\ "R" \notin b.status /\ (Valid(b) => ListNeedsExclusive(m.targets)) /\ BlockOK(b)
  BY <1>2, <1>3 DEF LineOK, Valid
<1>5. ~Writable(b)
  BY <1>4 DEF BlockOK, Writable
<1>6. PICK t : t = Head(m.targets)
  OBVIOUS
<1>7. m.targets \in Seq(TargetType) /\ m.targets # << >> /\ Cpu(m.targets[1])
  BY <1>3, <1>4 DEF MSHRType, MSHROK
<1>8. t = m.targets[1] /\ 1 \in DOMAIN m.targets
  BY <1>6, <1>7
<1>9. t.cmd = "StoreCondFailReq" => ListNeedsExclusive(m.targets)
  BY <1>7, <1>8 DEF ListNeedsExclusive, NeedsExclusive, Cpu
<1>10. a \in ValidIn(k) <=> Valid(b)
  BY <1>1 DEF ValidIn, Valid
<1>11. CASE Valid(b)
  <2>1. cmd = IF IsLLSC(t.cmd) THEN "SCUpgradeReq" ELSE "UpgradeReq"
    BY <1>1, <1>6, <1>10, <1>11 DEF GetBusPacket
  <2>. QED  BY <1>1, <1>4, <1>5, <1>11, <2>1 DEF BusCommands
<1>12. CASE ~Valid(b) /\ t.cmd = "StoreCondFailReq"
  <2>1. cmd = "SCUpgradeFailReq"
    BY <1>1, <1>6, <1>10, <1>12 DEF GetBusPacket
  <2>. QED  BY <1>1, <1>5, <1>9, <1>12, <2>1 DEF BusCommands
<1>13. CASE ~Valid(b) /\ t.cmd # "StoreCondFailReq"
  <2>1. cmd = IF ListNeedsExclusive(m.targets) THEN "ReadExReq" ELSE "ReadReq"
    BY <1>1, <1>6, <1>10, <1>13 DEF GetBusPacket
  <2>. QED  BY <1>1, <1>5, <1>13, <2>1 DEF BusCommands
<1>. QED  BY <1>11, <1>12, <1>13

(* The request of cache c on the crossbar. *)
OnBus(sn, c, a, cmd) ==
  /\ \A d \in Caches \ {c} : SnoopedAs(sn[d], cache[d], a, c, cmd, latest[a])
  /\ Shared(sn) <=> \E d \in Caches \ {c} : Shares(Blks(a)[d], Msrs(a)[d], Wbs(a)[d], cmd)
  /\ Inhibited(sn) <=> \E d \in Caches \ {c} : Inhibits(Blks(a)[d], Msrs(a)[d], Wbs(a)[d])
  /\ Answered(Blks(a), Msrs(a), Wbs(a), c, cmd, FirstAnswer(sn, cmd), latest[a])
  /\ FirstAnswer(sn, cmd) \in AnswerType \cup {NoAnswer}
  /\ cmd = "ReadReq" /\ Inhibited(sn) => Shared(sn)

LEMMA BusStep ==
  ASSUME IInv, NEW c \in Caches, NEW a \in Addrs, NEW cmd \in BusCommands,
         NEW sn, sn = Snooped(c, a, cmd)
  PROVE  OnBus(sn, c, a, cmd)
<1>1. PICK B, M, X : B = Blks(a) /\ M = Msrs(a) /\ X = Wbs(a)
  OBVIOUS
<1>2. \A d \in Caches : B[d] = cache[d].blk[a] /\ M[d] = cache[d].mshr[a] /\ X[d] = Waiting(cache[d], a)
  BY <1>1, Views
<1>3. DOMAIN sn = Caches \ {c} /\ \A d \in Caches \ {c} : sn[d] = RecvTimingSnoopReq(cache[d], a, c, cmd)
  BY DEF Snooped
<1>4. \A d \in Caches \ {c} : SnoopedAs(sn[d], cache[d], a, c, cmd, latest[a])
  BY <1>3, SnoopOther
<1>5. PICK v : v = Answer(Response(cmd), latest[a], cmd = "ReadReq", TRUE)
  OBVIOUS
<1>6. \A d \in Caches \ {c} :
        /\ sn[d].shared <=> Shares(B[d], M[d], X[d], cmd)
        /\ sn[d].inhibit <=> Inhibits(B[d], M[d], X[d])
        /\ sn[d].answers = IF Supplies(B[d], M[d], X[d]) THEN {v} ELSE {}
  BY <1>2, <1>4, <1>5 DEF SnoopedAs
<1>7. Shared(sn) <=> \E d \in Caches \ {c} : Shares(B[d], M[d], X[d], cmd)
  BY <1>3, <1>6 DEF Shared
<1>8. Inhibited(sn) <=> \E d \in Caches \ {c} : Inhibits(B[d], M[d], X[d])
  BY <1>3, <1>6 DEF Inhibited
<1>9. PICK S : S = SnoopAnswers(sn)
  OBVIOUS
<1>10. \A r : r \in S <=> \E d \in Caches \ {c} : r \in sn[d].answers
  BY <1>3, <1>9 DEF SnoopAnswers
<1>11. (\E d \in Caches \ {c} : Supplies(B[d], M[d], X[d])) => S = {v}
  BY <1>6, <1>10
<1>12. (\A d \in Caches \ {c} : ~Supplies(B[d], M[d], X[d])) => S = {}
  BY <1>6, <1>10
<1>13. \A d \in Caches \ {c} : Dirty(B[d]) => Valid(B[d])
  BY <1>2, Unpack DEF Has
<1>14. cmd = "ReadReq" /\ Inhibited(sn) => Shared(sn)
  <2>. SUFFICES ASSUME cmd = "ReadReq", NEW d \in Caches \ {c}, Inhibits(B[d], M[d], X[d])
                PROVE  Shares(B[d], M[d], X[d], cmd)
    BY <1>7, <1>8
  <2>1. CASE Newest(M[d])
    BY <2>1, KindFacts DEF Shares
  <2>2. CASE Supplies(B[d], M[d], X[d])
    BY <1>13, <2>2 DEF Shares, Supplies
  <2>. QED  BY <2>1, <2>2 DEF Inhibits
<1>15. PICK r : r = FirstAnswer(sn, cmd)
  OBVIOUS
<1>16. latest[a] \in Nat /\ Response(cmd) \in Responses
  BY BusFacts, Unpack DEF Has
<1>17. (cmd = "ReadReq") \in BOOLEAN /\ Shared(sn) \in BOOLEAN
  BY DEF Shared
<1>18. v \in AnswerType /\ v.cmd = Response(cmd) /\ v.data = latest[a] /\ v.inhibit
       /\ (v.shared <=> cmd = "ReadReq")
  BY <1>5, <1>16, <1>17 DEF Answer, AnswerType
<1>19. CASE \E d \in Caches \ {c} : Supplies(B[d], M[d], X[d])
  <2>1. S = {v} /\ S # {}
    BY <1>11, <1>19
  <2>2. r = CHOOSE x \in S : TRUE
    BY <1>9, <1>15, <2>1 DEF FirstAnswer
  <2>3. r = v
    BY <2>1, <2>2
  <2>4. r \in AnswerType /\ r # NoAnswer
    BY <1>18, <2>3, NullAssumption
  <2>5. Answered(B, M, X, c, cmd, r, latest[a])
    BY <1>18, <1>19, <2>3, <2>4 DEF Answered
  <2>. QED  BY <1>1, <1>4, <1>7, <1>8, <1>14, <1>15, <2>4, <2>5 DEF OnBus
<1>20. CASE \A d \in Caches \ {c} : ~Supplies(B[d], M[d], X[d])
  <2>1. S = {}
    BY <1>12, <1>20
  <2>2. Inhibited(sn) <=> \E d \in Caches \ {c} : Newest(M[d])
    BY <1>8, <1>20 DEF Inhibits
  <2>3. CASE Inhibited(sn)
    <3>1. r = NoAnswer
      BY <1>9, <1>15, <2>1, <2>3 DEF FirstAnswer
    <3>2. Answered(B, M, X, c, cmd, r, latest[a])
      BY <1>20, <2>2, <2>3, <3>1 DEF Answered
    <3>. QED  BY <1>1, <1>4, <1>7, <1>8, <1>14, <1>15, <3>1, <3>2 DEF OnBus
  <2>4. CASE ~Inhibited(sn)
    <3>1. PICK q : q = IF IsRead(cmd) THEN cmd ELSE Response(cmd)
      OBVIOUS
    <3>2. r = Answer(q, 0, Shared(sn), FALSE)
      BY <1>9, <1>15, <2>1, <2>4, <3>1 DEF FirstAnswer, AtMemory
    <3>3. q \in BusCommands \cup Responses
      BY <1>16, <3>1
    <3>4. r \in AnswerType /\ r.cmd = q /\ (r.shared <=> Shared(sn)) /\ ~r.inhibit
      BY <1>17, <3>2, <3>3 DEF Answer, AnswerType
    <3>5. r # NoAnswer
      BY <3>4, NullAssumption
    <3>6. Answered(B, M, X, c, cmd, r, latest[a])
      BY <1>7, <1>20, <2>2, <2>4, <3>1, <3>4, <3>5 DEF Answered
    <3>. QED  BY <1>1, <1>4, <1>7, <1>8, <1>14, <1>15, <3>4, <3>6 DEF OnBus
  <2>. QED  BY <2>3, <2>4
<1>. QED  BY <1>19, <1>20

(* A request goes over the crossbar: what that means for the caches other  *)
(* than c, which sent it.                                                  *)
OthersSnoop(C, c, a, cmd) ==
  \A d \in Caches \ {c} : \E s : C[d] = s.k /\ SnoopedAs(s, cache[d], a, c, cmd, latest[a])

LEMMA OthersFacts ==
  ASSUME IInv, NEW c \in Caches, NEW a \in Addrs, NEW cmd \in BusCommands,
         NEW C, OthersSnoop(C, c, a, cmd), NEW d \in Caches \ {c}
  PROVE  /\ C[d] \in CacheType /\ LocalOK(C[d])
         /\ \A x \in Addrs : x # a => /\ C[d].blk[x] = cache[d].blk[x] /\ C[d].mshr[x] = cache[d].mshr[x]
                                      /\ Waiting(C[d], x) = Waiting(cache[d], x)
         /\ SeesSnoop(cache[d].blk[a], cache[d].mshr[a], C[d].blk[a], C[d].mshr[a], c, cmd)
         /\ Waiting(C[d], a) = IF ~Sent(cache[d].mshr[a]) /\ cmd # "ReadReq" THEN NoWB
                               ELSE Waiting(cache[d], a)
         /\ C[d].mshr[a] # NoMSHR =>
              /\ cache[d].mshr[a] # NoMSHR
              /\ OpsOK(d, a, C[d].mshr[a], op, latest[a])
              /\ \A o : CpuOn(C[d].mshr[a].targets, o) => CpuOn(cache[d].mshr[a].targets, o)
<1>1. PICK s : C[d] = s.k /\ SnoopedAs(s, cache[d], a, c, cmd, latest[a])
  BY DEF OthersSnoop
<1>2. /\ SeesSnoop(cache[d].blk[a], cache[d].mshr[a], s.k.blk[a], s.k.mshr[a], c, cmd)
      /\ s.k.mshr[a] # NoMSHR =>
           /\ cache[d].mshr[a] # NoMSHR
           /\ OpsOK(d, a, s.k.mshr[a], op, latest[a])
           /\ \A o : CpuOn(s.k.mshr[a].targets, o) => CpuOn(cache[d].mshr[a].targets, o)
  BY <1>1, SnoopSeen
<1>3. /\ s.k \in CacheType /\ LocalOK(s.k)
      /\ \A x \in Addrs : x # a => /\ s.k.blk[x] = cache[d].blk[x] /\ s.k.mshr[x] = cache[d].mshr[x]
                                   /\ Waiting(s.k, x) = Waiting(cache[d], x)
      /\ Waiting(s.k, a) = IF ~Sent(cache[d].mshr[a]) /\ cmd # "ReadReq" THEN NoWB
                           ELSE Waiting(cache[d], a)
  BY <1>1 DEF SnoopedAs
<1>. QED  BY <1>1, <1>2, <1>3

(* The accesses in the caches, and what is on its way to them, when the    *)
(* request of cache c has been snooped.                                    *)
LEMMA SnoopFloors ==
  ASSUME IInv, NEW c \in Caches, NEW a \in Addrs, NEW cmd \in BusCommands,
         OthersSnoop(cache', c, a, cmd), op' = op, mem' = mem, latest' = latest,
         \A d \in Caches \ {c} : answer'[d] = answer[d],
         NEW d \in Caches \ {c}, NEW x \in Addrs
  PROVE  OpsAt(d, x)' /\ FloorsAt(d, x)'
<1>1. latest[x] \in Nat /\ answer'[d] = answer[d] /\ d \in Caches
  BY DEF IInv, TypeOK
<1>2. CASE x # a
  <2>1. cache'[d].mshr[x] = cache[d].mshr[x]
    BY <1>2, OthersFacts
  <2>2. OpsAt(d, x)'
    BY <1>1, <2>1, OpsFrame
  <2>3. FloorsAt(d, x)'
    BY <1>1, <2>1, FloorsFrame
  <2>. QED  BY <2>2, <2>3
<1>3. CASE x = a
  <2>1. cache'[d].mshr[a] # NoMSHR =>
          /\ cache[d].mshr[a] # NoMSHR
          /\ OpsOK(d, a, cache'[d].mshr[a], op, latest[a])
          /\ \A o : CpuOn(cache'[d].mshr[a].targets, o) => CpuOn(cache[d].mshr[a].targets, o)
    BY OthersFacts
  <2>2. OpsAt(d, a)'
    BY <2>1 DEF OpsAt
  <2>3. ASSUME answer[d][a] # NoAnswer PROVE cache'[d].mshr[a] # NoMSHR
    <3>1. Sent(cache[d].mshr[a])
      BY <1>1, <2>3, AnswerSent
    <3>2. SeesSnoop(cache[d].blk[a], cache[d].mshr[a], cache'[d].blk[a], cache'[d].mshr[a], c, cmd)
      BY OthersFacts
    <3>3. Sent(cache'[d].mshr[a])
      BY <3>1, <3>2 DEF SeesSnoop
    <3>. QED  BY <3>3 DEF Sent
  <2>4. answer'[d][a] # NoAnswer =>
          /\ answer'[d][a] = answer[d][a]
          /\ \A o \in Ops : CpuOn(cache'[d].mshr[a].targets, o) =>
               CpuOn(cache[d].mshr[a].targets, o) /\ op'[o] = op[o]
    BY <1>1, <2>1, <2>3
  <2>5. FloorsAt(d, a)'
    BY <1>1, <2>4, FloorsFrame
  <2>. QED  BY <1>3, <2>2, <2>5
<1>. QED  BY <1>2, <1>3

(* The blocks of the other caches. *)
LEMMA SnoopViews ==
  ASSUME IInv, NEW c \in Caches, NEW a \in Addrs, NEW cmd \in BusCommands,
         OthersSnoop(cache', c, a, cmd), NEW B, NEW M, NEW X, NEW B2, NEW M2, NEW X2,
         B = Blks(a), M = Msrs(a), X = Wbs(a), B2 = Blks(a)', M2 = Msrs(a)', X2 = Wbs(a)'
  PROVE  SnoopsSeen(B, M, X, B2, M2, X2, c, cmd)
<1>. SUFFICES ASSUME NEW d \in Caches \ {c}
              PROVE  /\ SeesSnoop(B[d], M[d], B2[d], M2[d], c, cmd)
                     /\ X2[d] = IF ~Sent(M[d]) /\ cmd # "ReadReq" THEN NoWB ELSE X[d]
  BY DEF SnoopsSeen
<1>1. d \in Caches
  OBVIOUS
<1>2. B[d] = cache[d].blk[a] /\ M[d] = cache[d].mshr[a] /\ X[d] = Waiting(cache[d], a)
  BY <1>1, Views
<1>3. B2[d] = cache'[d].blk[a] /\ M2[d] = cache'[d].mshr[a] /\ X2[d] = Waiting(cache'[d], a)
  BY <1>1, ViewsNext
<1>4. /\ SeesSnoop(cache[d].blk[a], cache[d].mshr[a], cache'[d].blk[a], cache'[d].mshr[a], c, cmd)
      /\ Waiting(cache'[d], a) = IF ~Sent(cache[d].mshr[a]) /\ cmd # "ReadReq" THEN NoWB
                                 ELSE Waiting(cache[d], a)
  BY OthersFacts
<1>. QED  BY <1>2, <1>3, <1>4

(* No request is in service while the writeback of its block waits. *)
LEMMA FirstWriteback ==
  ASSUME IInv, WritebackFirst, NEW a \in Addrs, NEW d \in Caches, Sent(Msrs(a)[d])
  PROVE  Wbs(a)[d] = NoWB /\ cache[d].wb[a] = NoWB
<1>1. Msrs(a)[d] = cache[d].mshr[a] /\ Wbs(a)[d] = Waiting(cache[d], a)
  BY Views
<1>2. cache[d].wb[a] = NoWB
  BY <1>1 DEF WritebackFirst, InService, Sent
<1>. QED  BY <1>1, <1>2 DEF Waiting

LEMMA RefusedStep ==
  ASSUME IInv, WritebackFirst, NEW c \in Caches, SendRefused(c)
  PROVE  IInv'
<1>1. cache[c] \in CacheType /\ LocalOK(cache[c]) /\ cache \in [Caches -> CacheType]
  BY DEF IInv, TypeOK
<1>2. PICK next : next = GetNextMSHR(cache[c])
  OBVIOUS
<1>3. next[1] = "miss"
  BY <1>2 DEF SendRefused
<1>4. PICK a \in Addrs : a = next[2] /\ Pending(cache[c], a)
  BY <1>1, <1>2, <1>3, NextFacts
<1>5. PICK cmd : cmd = GetBusPacket(cache[c], a)
  OBVIOUS
<1>6. cmd \in BusCommands /\ ~Writable(cache[c].blk[a])
  BY <1>1, <1>4, <1>5, PacketFacts
<1>7. PICK sn : sn = Snooped(c, a, cmd)
  OBVIOUS
<1>8. /\ ~Inhibited(sn)
      /\ cache' = [d \in Caches |-> IF d = c THEN cache[c] ELSE sn[d].k]
      /\ op' = op /\ answer' = answer /\ mem' = mem /\ latest' = latest
  BY <1>2, <1>4, <1>5, <1>7 DEF SendRefused
<1>9. OnBus(sn, c, a, cmd)
  BY <1>6, <1>7, BusStep
<1>10. cache'[c] = cache[c] /\ \A d \in Caches \ {c} : cache'[d] = sn[d].k
  BY <1>8
<1>11. OthersSnoop(cache', c, a, cmd)
  BY <1>9, <1>10 DEF OthersSnoop, OnBus
<1>12. ASSUME NEW d \in Caches PROVE cache'[d] \in CacheType /\ LocalOK(cache'[d])
  <2>1. CASE d = c
    BY <1>1, <1>10, <2>1
  <2>2. CASE d # c
    BY <1>6, <1>11, <2>2, OthersFacts
  <2>. QED  BY <2>1, <2>2
<1>13. TypeOK'
  BY <1>8, <1>12 DEF IInv, TypeOK
<1>14. ASSUME NEW x \in Addrs PROVE CohAt(x)'
  <2>1. CohAt(x)
    BY Parts
  <2>2. CASE x # a
    <3>1. ASSUME NEW d \in Caches
          PROVE  /\ cache'[d].blk[x] = cache[d].blk[x]
                 /\ cache'[d].mshr[x] = cache[d].mshr[x]
                 /\ Waiting(cache'[d], x) = Waiting(cache[d], x)
                 /\ answer'[d][x] = answer[d][x]
      <4>1. CASE d = c
        BY <1>8, <1>10, <4>1
      <4>2. CASE d # c
        BY <1>6, <1>8, <1>11, <2>2, <4>2, OthersFacts
      <4>. QED  BY <4>1, <4>2
    <3>. QED  BY <1>8, <2>1, <3>1, CohFrame
  <2>3. CASE x = a
    <3>1. PICK B, M, X, A, B2, M2, X2 :
             /\ B = Blks(a) /\ M = Msrs(a) /\ X = Wbs(a) /\ A = Answers(a)
             /\ B2 = Blks(a)' /\ M2 = Msrs(a)' /\ X2 = Wbs(a)'
      OBVIOUS
    <3>2. Answers(a)' = A
      BY <1>8, <3>1 DEF Answers
    <3>3. SnoopsSeen(B, M, X, B2, M2, X2, c, cmd)
      BY <1>6, <1>11, <3>1, SnoopViews
    <3>4. B[c] = cache[c].blk[a] /\ M[c] = cache[c].mshr[a] /\ B2[c] = B[c] /\ M2[c] = M[c] /\ X2[c] = X[c]
      BY <1>10, <3>1, Views, ViewsNext
    <3>5. ~Sent(M[c]) /\ ~Writable(B[c])
      BY <1>4, <1>6, <3>4 DEF Sent, Pending
    <3>6. \A d \in Caches : Sent(M[d]) => X[d] = NoWB
      BY <3>1, FirstWriteback
    <3>7. \A d \in Caches : Dirty(B[d]) => Valid(B[d])
      BY <3>1, Views, Unpack DEF Has
    <3>8. \A d \in Caches \ {c} : ~Inhibits(B[d], M[d], X[d])
      BY <1>8, <1>9, <3>1 DEF OnBus
    <3>9. Coh(B, M, X, A, mem[a], latest[a])
      BY <2>1, <2>3, <3>1 DEF CohAt
    <3>10. Coh(B2, M2, X2, A, mem[a], latest[a])
      BY <1>6, <3>3, <3>4, <3>5, <3>6, <3>7, <3>8, <3>9, CohRefused
    <3>. QED  BY <1>8, <2>3, <3>1, <3>2, <3>10 DEF CohAt
  <2>. QED  BY <2>2, <2>3
<1>15. ASSUME NEW d \in Caches, NEW x \in Addrs PROVE OpsAt(d, x)' /\ FloorsAt(d, x)'
  <2>1. CASE d # c
    BY <1>6, <1>8, <1>11, <2>1, SnoopFloors
  <2>2. CASE d = c
    <3>1. latest[x] \in Nat /\ latest[x] <= latest'[x] /\ latest'[x] \in Nat
      BY <1>8 DEF IInv, TypeOK
    <3>2. OpsAt(d, x)'
      BY <1>8, <1>10, <2>2, <3>1, OpsFrame
    <3>3. FloorsAt(d, x)'
      BY <1>8, <1>10, <2>2, FloorsFrame
    <3>. QED  BY <3>2, <3>3
  <2>. QED  BY <2>1, <2>2
<1>. QED  BY <1>12, <1>13, <1>14, <1>15, WholeNext

LEMMA MissSentStep ==
  ASSUME IInv, WritebackFirst, WritebackFirst', NEW c \in Caches, SendMiss(c)
  PROVE  IInv'
<1>1. cache[c] \in CacheType /\ LocalOK(cache[c]) /\ cache \in [Caches -> CacheType]
  BY DEF IInv, TypeOK
<1>2. PICK next : next = GetNextMSHR(cache[c])
  OBVIOUS
<1>3. next[1] = "miss"
  BY <1>2 DEF SendMiss
<1>4. PICK a \in Addrs : a = next[2] /\ Pending(cache[c], a)
  BY <1>1, <1>2, <1>3, NextFacts
<1>5. PICK cmd : cmd = GetBusPacket(cache[c], a)
  OBVIOUS
<1>6. /\ cmd \in BusCommands
      /\ cmd = "ReadReq" <=> ~ListNeedsExclusive(cache[c].mshr[a].targets)
      /\ cmd \in {"UpgradeReq", "SCUpgradeReq"} <=> Valid(cache[c].blk[a])
      /\ ~Writable(cache[c].blk[a])
  BY <1>1, <1>4, <1>5, PacketFacts
<1>7. PICK sn : sn = Snooped(c, a, cmd)
  OBVIOUS
<1>8. PICK r, k : r = FirstAnswer(sn, cmd) /\ k = MarkInService(cache[c], a, Shared(sn), Inhibited(sn))
  OBVIOUS
<1>9. /\ cache' = [d \in Caches |-> IF d = c THEN k ELSE sn[d].k]
      /\ answer' = [answer EXCEPT ![c][a] = r]
      /\ op' = op /\ mem' = mem /\ latest' = latest
  BY <1>2, <1>4, <1>5, <1>7, <1>8 DEF SendMiss
<1>10. OnBus(sn, c, a, cmd)
  BY <1>6, <1>7, BusStep
<1>11. cache'[c] = k /\ \A d \in Caches \ {c} : cache'[d] = sn[d].k
  BY <1>9
<1>12. OthersSnoop(cache', c, a, cmd)
  BY <1>10, <1>11 DEF OthersSnoop, OnBus
<1>13. /\ r \in AnswerType \cup {NoAnswer}
       /\ Answered(Blks(a), Msrs(a), Wbs(a), c, cmd, r, latest[a])
       /\ ~Shared(sn) /\ Inhibited(sn) => ListNeedsExclusive(cache[c].mshr[a].targets)
  BY <1>6, <1>8, <1>10 DEF OnBus
<1>14. /\ k \in CacheType /\ LocalOK(k) /\ k.blk = cache[c].blk /\ k.wb = cache[c].wb
       /\ \A x \in Addrs : x # a => k.mshr[x] = cache[c].mshr[x]
       /\ k.mshr[a].targets = cache[c].mshr[a].targets /\ k.mshr[a].deferred = cache[c].mshr[a].deferred
       /\ Sent(k.mshr[a]) /\ ~k.mshr[a].postInvalidate
       /\ Owning(k.mshr[a]) <=> ListNeedsExclusive(cache[c].mshr[a].targets)
       /\ \A x, q : ~Asks(k.mshr[a], x, q)
  <2>1. PICK sh \in BOOLEAN : sh = Shared(sn)
    BY DEF Shared
  <2>2. PICK ih \in BOOLEAN : ih = Inhibited(sn)
    BY DEF Inhibited
  <2>3. PICK q : q = cache[c]
    OBVIOUS
  <2>4. /\ k = MarkInService(q, a, sh, ih) /\ q \in CacheType /\ LocalOK(q) /\ Pending(q, a)
        /\ ~sh /\ ih => ListNeedsExclusive(q.mshr[a].targets)
    BY <1>1, <1>4, <1>8, <1>13, <2>1, <2>2, <2>3
  <2>5. /\ k \in CacheType /\ LocalOK(k) /\ k.blk = q.blk /\ k.wb = q.wb
        /\ \A x \in Addrs : x # a => k.mshr[x] = q.mshr[x]
        /\ k.mshr[a].targets = q.mshr[a].targets /\ k.mshr[a].deferred = q.mshr[a].deferred
        /\ Sent(k.mshr[a]) /\ ~k.mshr[a].postInvalidate
        /\ Owning(k.mshr[a]) <=> ListNeedsExclusive(q.mshr[a].targets)
        /\ \A x, y : ~Asks(k.mshr[a], x, y)
    BY <2>4, MarkLocal
  <2>. QED  BY <2>3, <2>5
<1>15. ASSUME NEW d \in Caches PROVE cache'[d] \in CacheType /\ LocalOK(cache'[d])
  <2>1. CASE d = c
    BY <1>11, <1>14, <2>1
  <2>2. CASE d # c
    BY <1>6, <1>12, <2>2, OthersFacts
  <2>. QED  BY <2>1, <2>2
<1>16. answer \in [Caches -> [Addrs -> AnswerType \cup {NoAnswer}]]
  BY DEF IInv, TypeOK
<1>17. /\ answer' \in [Caches -> [Addrs -> AnswerType \cup {NoAnswer}]]
       /\ answer'[c][a] = r /\ \A x \in Addrs : x # a => answer'[c][x] = answer[c][x]
       /\ \A d \in Caches \ {c} : answer'[d] = answer[d]
  BY <1>9, <1>13, <1>16
<1>18. TypeOK'
  BY <1>9, <1>15, <1>17 DEF IInv, TypeOK
<1>19. cache[c].wb[a] = NoWB
  <2>1. InService(c, a)'
    BY <1>11, <1>14 DEF InService, Sent
  <2>2. cache'[c].wb[a] = NoWB
    BY <2>1 DEF WritebackFirst
  <2>. QED  BY <1>11, <1>14, <2>2
<1>20. latest[a] \in Nat /\ mem[a] \in Nat
  BY Unpack DEF Has
<1>21. CohAt(a)'
  <2>1. PICK B, M, X, A, B2, M2, X2, A2 :
             /\ B = Blks(a) /\ M = Msrs(a) /\ X = Wbs(a) /\ A = Answers(a)
             /\ B2 = Blks(a)' /\ M2 = Msrs(a)' /\ X2 = Wbs(a)' /\ A2 = Answers(a)'
    OBVIOUS
  <2>2. SnoopsSeen(B, M, X, B2, M2, X2, c, cmd)
    BY <1>6, <1>12, <2>1, SnoopViews
  <2>3. B[c] = cache[c].blk[a] /\ M[c] = cache[c].mshr[a] /\ B2[c] = B[c] /\ M2[c] = k.mshr[a]
    BY <1>11, <1>14, <2>1, Views, ViewsNext
  <2>4. X[c] = NoWB /\ X2[c] = NoWB
    BY <1>11, <1>14, <1>19, <2>1, Views, ViewsNext DEF Waiting
  <2>5. A2[c] = r /\ \A d \in Caches \ {c} : A2[d] = A[d]
    BY <1>17, <2>1, Views, ViewsNext
  <2>6. ~Sent(M[c]) /\ ~Writable(B[c])
    BY <1>4, <1>6, <2>3 DEF Sent, Pending
  <2>7. \A d \in Caches : Sent(M[d]) => X[d] = NoWB
    BY <2>1, FirstWriteback
  <2>8. \A d \in Caches : Dirty(B[d]) => Valid(B[d])
    BY <2>1, Views, Unpack DEF Has
  <2>9. Coh(B, M, X, A, mem[a], latest[a])
    BY <2>1, Parts DEF CohAt
  <2>10. Answered(B, M, X, c, cmd, A2[c], latest[a])
    BY <1>13, <2>1, <2>5
  <2>11. cmd \in {"UpgradeReq", "SCUpgradeReq"} <=> Valid(B[c])
    BY <1>6, <2>3
  <2>12. CASE cmd = "ReadReq"
    <3>1. Keeping(M2[c]) /\ ~Valid(B[c])
      BY <1>6, <1>14, <2>3, <2>11, <2>12, KindFacts
    <3>2. Coh(B2, M2, X2, A2, mem[a], latest[a])
      BY <1>6, <2>2, <2>3, <2>4, <2>5, <2>6, <2>7, <2>8, <2>9, <2>10, <2>12, <3>1, CohSendRead
    <3>. QED  BY <1>9, <2>1, <3>2 DEF CohAt
  <2>13. CASE cmd # "ReadReq"
    <3>1. Newest(M2[c]) /\ \A x \in Caches : ~Promises(M2[c], x)
      BY <1>6, <1>14, <2>3, <2>13, KindFacts DEF Promises
    <3>2. Coh(B2, M2, X2, A2, mem[a], latest[a])
      <4>1. SendsExclusive(B, M, X, A, B2, M2, X2, A2, c, cmd, latest[a])
        BY <1>6, <2>2, <2>3, <2>4, <2>5, <2>6, <2>7, <2>8, <2>10, <2>11, <2>13, <3>1
           DEF SendsExclusive
      <4>. QED  BY <2>9, <4>1, CohSendExclusive
    <3>. QED  BY <1>9, <2>1, <3>2 DEF CohAt
  <2>. QED  BY <2>12, <2>13
<1>22. ASSUME NEW x \in Addrs, x # a PROVE CohAt(x)'
  <2>1. CohAt(x)
    BY Parts
  <2>2. ASSUME NEW d \in Caches
        PROVE  /\ cache'[d].blk[x] = cache[d].blk[x]
               /\ cache'[d].mshr[x] = cache[d].mshr[x]
               /\ Waiting(cache'[d], x) = Waiting(cache[d], x)
               /\ answer'[d][x] = answer[d][x]
    <3>1. CASE d = c
      BY <1>11, <1>14, <1>17, <1>22, <3>1 DEF Waiting
    <3>2. CASE d # c
      BY <1>6, <1>12, <1>17, <1>22, <3>2, OthersFacts
    <3>. QED  BY <3>1, <3>2
  <2>. QED  BY <1>9, <2>1, <2>2, CohFrame
<1>23. ASSUME NEW x \in Addrs PROVE OpsAt(c, x)' /\ FloorsAt(c, x)'
  <2>1. latest[x] \in Nat /\ latest[x] <= latest'[x] /\ latest'[x] \in Nat
    BY <1>9 DEF IInv, TypeOK
  <2>2. CASE x # a
    <3>1. cache'[c].mshr[x] = cache[c].mshr[x] /\ answer'[c][x] = answer[c][x]
      BY <1>11, <1>14, <1>17, <2>2
    <3>2. OpsAt(c, x)'
      BY <1>9, <2>1, <3>1, OpsFrame
    <3>3. FloorsAt(c, x)'
      BY <1>9, <3>1, FloorsFrame
    <3>. QED  BY <3>2, <3>3
  <2>3. CASE x = a
    <3>1. PICK m, n : m = cache[c].mshr[a] /\ n = k.mshr[a]
      OBVIOUS
    <3>2. m # NoMSHR /\ n.targets = m.targets /\ n.deferred = m.deferred
      BY <1>4, <1>14, <3>1 DEF Pending
    <3>3. OpsOK(c, a, m, op, latest[a])
      BY <3>1, <3>2 DEF IInv, OpInv
    <3>4. OpsOK(c, a, n, op, latest[a])
      BY <3>2, <3>3 DEF OpsOK
    <3>5. OpsAt(c, a)'
      BY <1>9, <1>11, <3>1, <3>4 DEF OpsAt
    <3>6. ASSUME r # NoAnswer, NEW o \in Ops, CpuOn(n.targets, o)
          PROVE  FloorOK(op[o].floor, r, mem[a])
      <4>1. Waits(cache[c].mshr[a], o)
        BY <3>1, <3>2, <3>6 DEF Waits
      <4>2. op[o].floor \in Nat /\ op[o].floor <= latest[a]
        BY <3>1, <3>2, <4>1, WaitsKnown DEF Known
      <4>3. PICK B, M, X, A : B = Blks(a)' /\ M = Msrs(a)' /\ X = Wbs(a)' /\ A = Answers(a)'
        OBVIOUS
      <4>4. Coh(B, M, X, A, mem[a], latest[a])
        BY <1>9, <1>21, <4>3 DEF CohAt
      <4>5. M[c] = n /\ A[c] = r
        BY <1>11, <1>17, <3>1, <4>3, ViewsNext
      <4>6. ASSUME NEW d \in Caches PROVE Dirty(B[d]) => Valid(B[d])
        <5>1. B[d] = cache'[d].blk[a]
          BY <4>3, ViewsNext
        <5>2. LineOK(cache'[d].blk[a], cache'[d].mshr[a])
          BY <1>15 DEF LocalOK
        <5>. QED  BY <5>1, <5>2 DEF LineOK, BlockOK, Dirty, Valid
      <4>7. FloorOK(op[o].floor, A[c], mem[a])
        BY <1>14, <1>20, <3>1, <3>6, <4>2, <4>4, <4>5, <4>6, Fresh
      <4>. QED  BY <4>5, <4>7
    <3>7. FloorsAt(c, a)'
      BY <1>9, <1>11, <1>17, <3>1, <3>6 DEF FloorsAt
    <3>. QED  BY <2>3, <3>5, <3>7
  <2>. QED  BY <2>2, <2>3
<1>24. ASSUME NEW d \in Caches, NEW x \in Addrs PROVE OpsAt(d, x)' /\ FloorsAt(d, x)'
  <2>1. CASE d # c
    BY <1>6, <1>9, <1>12, <1>17, <2>1, SnoopFloors
  <2>2. CASE d = c
    BY <1>23, <2>2
  <2>. QED  BY <2>1, <2>2
<1>25. \A x \in Addrs : CohAt(x)'
  BY <1>21, <1>22
<1>. QED  BY <1>15, <1>18, <1>24, <1>25, WholeNext
(* A response arrives: it fits, and the cache can take it in. *)
Ready(c, a) ==
  LET q == cache[c] IN
  /\ q \in CacheType /\ LocalOK(q) /\ latest[a] \in Nat /\ answer[c][a] \in AnswerType
  /\ q.blk[a] \in BlockType /\ q.mshr[a] \in MSHRType /\ LineOK(q.blk[a], q.mshr[a])
  /\ Sent(q.mshr[a]) /\ MSHROK(q.mshr[a]) /\ q.mshr[a].inService
  /\ Arrives(q.blk[a], q.mshr[a], answer[c][a], latest[a])
  /\ q.wb[a] = NoWB
  /\ \A x \in Addrs : Valid(q.blk[x]) => q.wb[x] = NoWB
  /\ \A x \in Addrs : Sent(q.mshr[x]) /\ Valid(q.blk[x]) => Owning(q.mshr[x])

LEMMA RespReady ==
  ASSUME IInv, WritebackFirst, NEW c \in Caches, NEW a \in Addrs, Responded(c, a)
  PROVE  Ready(c, a)
<1>1. answer[c][a] # NoAnswer /\ answer[c][a].cmd \in Responses
  BY DEF Responded
<1>2. Sent(cache[c].mshr[a]) /\ cache[c].mshr[a] # NoMSHR
  BY <1>1, AnswerSent
<1>3. Has(c, a)
  BY Unpack
<1>4. cache[c].mshr[a].inService /\ answer[c][a] \in AnswerType
  BY <1>1, <1>2, <1>3 DEF Sent, Has
<1>5. cache[c].wb[a] = NoWB
  BY <1>2, Views, FirstWriteback
<1>6. ASSUME NEW x \in Addrs
      PROVE  /\ Valid(cache[c].blk[x]) => cache[c].wb[x] = NoWB
             /\ Sent(cache[c].mshr[x]) /\ Valid(cache[c].blk[x]) => Owning(cache[c].mshr[x])
  <2>1. PICK B, M, X, A, mm, ll : /\ B = Blks(x) /\ M = Msrs(x) /\ X = Wbs(x) /\ A = Answers(x)
                                  /\ mm = mem[x] /\ ll = latest[x]
    OBVIOUS
  <2>2. Coh(B, M, X, A, mm, ll)
    BY <2>1, Parts DEF CohAt
  <2>3. /\ X[c] # NoWB => ~Valid(B[c])
        /\ Sent(M[c]) /\ Valid(B[c]) => Owning(M[c])
    BY <2>2 DEF Coh, OwnerInv, CopyInv
  <2>4. Waiting(cache[c], x) # NoWB <=> cache[c].wb[x] # NoWB
    BY <1>3, WaitingFacts DEF Has
  <2>. QED  BY <2>1, <2>3, <2>4, Views
<1>7. Arrives(cache[c].blk[a], cache[c].mshr[a], answer[c][a], latest[a])
  <2>1. PICK B, M, X, A, mm, ll : /\ B = Blks(a) /\ M = Msrs(a) /\ X = Wbs(a) /\ A = Answers(a)
                                  /\ mm = mem[a] /\ ll = latest[a]
    OBVIOUS
  <2>2. Coh(B, M, X, A, mm, ll)
    BY <2>1, Parts DEF CohAt
  <2>3. PICK b, m, r : b = B[c] /\ m = M[c] /\ r = A[c]
    OBVIOUS
  <2>4. b = cache[c].blk[a] /\ m = cache[c].mshr[a] /\ r = answer[c][a]
    BY <2>1, <2>3, Views
  <2>5. r \in AnswerType /\ r # NoAnswer /\ r.cmd \in Responses /\ m.inService /\ Sent(m) /\ OnWay(r)
    BY <1>1, <1>2, <1>4, <2>4 DEF OnWay
  <2>6. /\ Owning(m) <=> m.pendingDirty
        /\ Reading(m) <=> ~m.pendingDirty
        /\ Keeping(m) <=> ~m.pendingDirty /\ ~m.postInvalidate
    BY <2>5 DEF Owning, Reading, Keeping
  <2>7. /\ Owning(m) => ~r.shared
        /\ Reading(m) /\ r.inhibit => r.shared
        /\ r.cmd = "ReadRespWithInvalidate" => m.postInvalidate
        /\ r.cmd = "UpgradeResp" <=> Valid(b)
    BY <2>2, <2>3, <2>5 DEF Coh, AnswerInv
  <2>8. Sent(m) /\ Valid(b) => Owning(m)
    BY <2>2, <2>3 DEF Coh, CopyInv
  <2>9. /\ Valid(b) => b.data = ll
        /\ r.cmd # "UpgradeResp" /\ (Owning(m) \/ Keeping(m)) => r.data = ll
    BY <2>2, <2>3, <2>5 DEF Coh, DataInv
  <2>10. Arrives(b, m, r, ll)
    BY <2>5, <2>6, <2>7, <2>8, <2>9 DEF Arrives
  <2>. QED  BY <2>1, <2>4, <2>10
<1>. QED  BY <1>2, <1>3, <1>4, <1>5, <1>6, <1>7 DEF Ready, Has

(* What recvTimingResp() returns. *)
RespSeen(res, c, a, victim, n, w, e, temp) ==
  /\ n = MSHRHandleFill(cache[c].mshr[a], answer[c][a])
  /\ w = ServeTargets(Filled(cache[c].blk[a], answer[c][a]), n)
  /\ e = AfterTargets(w.blk, n, answer[c][a])
  /\ temp \in BOOLEAN /\ (temp <=> victim # a /\ cache[c].mshr[victim] # NoMSHR)
  /\ RespResult(res.k, res, cache[c], a, answer[c][a], victim, n, w, e, temp)
  /\ LocalOK(res.k) /\ res.asserts

LEMMA RespTaken ==
  ASSUME NEW c, NEW a \in Addrs, Ready(c, a), NEW victim \in Victims(cache[c], a),
         NEW res, res = RecvTimingResp(cache[c], a, answer[c][a], victim)
  PROVE  \E n, w, e, temp : RespSeen(res, c, a, victim, n, w, e, temp)
<1>1. PICK k, r, ll : k = cache[c] /\ r = answer[c][a] /\ ll = latest[a]
  OBVIOUS
<1>2. PICK n : n = MSHRHandleFill(k.mshr[a], r)
  OBVIOUS
<1>3. PICK w : w = ServeTargets(Filled(k.blk[a], r), n)
  OBVIOUS
<1>4. PICK e : e = AfterTargets(w.blk, n, r)
  OBVIOUS
<1>5. PICK temp \in BOOLEAN : temp <=> victim # a /\ k.mshr[victim] # NoMSHR
  OBVIOUS
<1>6. /\ k \in CacheType /\ LocalOK(k) /\ ll \in Nat /\ victim \in Victims(k, a) /\ Sent(k.mshr[a])
      /\ Arrives(k.blk[a], k.mshr[a], r, ll) /\ k.wb[a] = NoWB
      /\ \A x \in Addrs : Valid(k.blk[x]) => k.wb[x] = NoWB
      /\ \A x \in Addrs : Sent(k.mshr[x]) /\ Valid(k.blk[x]) => Owning(k.mshr[x])
      /\ res = RecvTimingResp(k, a, r, victim)
  BY <1>1 DEF Ready
<1>7. RespResult(res.k, res, k, a, r, victim, n, w, e, temp)
  BY <1>2, <1>3, <1>4, <1>5, <1>6, RespFields
<1>8. LocalOK(res.k) /\ res.asserts
  BY <1>2, <1>3, <1>4, <1>6, RespLocal
<1>. QED  BY <1>1, <1>2, <1>3, <1>4, <1>5, <1>7, <1>8 DEF RespSeen
(* What the response leaves: the block, its data and the MSHR. *)
LEMMA RespSettles ==
  ASSUME NEW c, NEW a \in Addrs, Ready(c, a), NEW res, NEW victim, NEW n, NEW w, NEW e, NEW temp,
         RespSeen(res, c, a, victim, n, w, e, temp)
  PROVE  /\ w.writes \in Nat /\ ~Sent(Promoted(n))
         /\ Settled(res.k.blk[a], cache[c].mshr[a], Waiting(res.k, a), answer[c][a], w.writes,
                    latest[a] + w.writes)
<1>1. PICK b, m, r, ll, l2, g, x :
           /\ b = cache[c].blk[a] /\ m = cache[c].mshr[a] /\ r = answer[c][a] /\ ll = latest[a]
           /\ l2 = ll + w.writes /\ g = res.k.blk[a] /\ x = Waiting(res.k, a)
  OBVIOUS
<1>2. /\ b \in BlockType /\ m \in MSHRType /\ LineOK(b, m) /\ ll \in Nat /\ Arrives(b, m, r, ll)
      /\ r \in AnswerType /\ Sent(m)
  BY <1>1, ZenonT(40) DEF Ready
<1>3. /\ n = MSHRHandleFill(m, r) /\ w = ServeTargets(Filled(b, r), n) /\ e = AfterTargets(w.blk, n, r)
      /\ temp \in BOOLEAN /\ g = Unread(IF temp THEN NoBlock ELSE e, n)
      /\ x = IF temp /\ Dirty(e) THEN e.data ELSE NoWB
  BY <1>1, ZenonT(40) DEF RespSeen, RespResult
<1>4. /\ e \in BlockType /\ BlockOK(e) /\ w.writes \in Nat
      /\ m.postInvalidate => e = NoBlock /\ w.blk = NoBlock
      /\ ~m.postInvalidate => "R" \in e.status /\ Valid(e) /\ e.data = ll + w.writes
      /\ m.pendingDirty /\ ~m.postInvalidate => Dirty(e)
      /\ m.pendingDirty /\ Writable(e) => \A d \in Caches : ~Promises(m, d)
      /\ ~m.pendingDirty /\ (Dirty(e) \/ Writable(e)) => ~r.shared /\ ~m.postDowngrade
      /\ ~m.pendingDirty /\ m.postInvalidate => w.writes = 0
      /\ ~m.pendingDirty /\ w.writes # 0 => Dirty(e)
  BY <1>2, <1>3, RespLine
<1>5. /\ Valid(g) => ~temp /\ Valid(e)
      /\ Dirty(g) <=> ~temp /\ Dirty(e)
      /\ Writable(g) <=> ~temp /\ Writable(e)
      /\ Valid(g) <=> ~temp /\ Valid(e)
      /\ ~temp => g.data = e.data
  BY <1>3, <1>4 DEF Unread, NoBlock, BlockType, Valid, Dirty, Writable
<1>6. e.data \in Nat /\ e.data # NoWB
  BY <1>4, NullAssumption DEF BlockType
<1>7. Dirty(e) \/ Writable(e) => Valid(e)
  BY <1>4 DEF BlockOK, Dirty, Writable, Valid
<1>8. x # NoWB <=> temp /\ Dirty(e)
  BY <1>3, <1>6
<1>9. ~Valid(NoBlock) /\ ~Dirty(NoBlock) /\ ~Writable(NoBlock)
  BY BlockFacts
<1>10. r # NoAnswer
  BY <1>2, NullAssumption
<1>11. Settled(g, m, x, r, w.writes, l2)
  <2>1. /\ Valid(g) => g.data = l2 /\ x = NoWB
        /\ Dirty(g) \/ Writable(g) => Valid(g)
        /\ x # NoWB => x = l2
    BY <1>1, <1>3, <1>4, <1>5, <1>7, <1>8, <1>9, ZenonT(60)
  <2>2. Newest(m) => Dirty(g) \/ x # NoWB
    BY <1>3, <1>4, <1>5, <1>8 DEF Newest, Owning
  <2>3. m.postInvalidate => ~Valid(g) /\ x = NoWB /\ (Reading(m) => w.writes = 0)
    BY <1>4, <1>5, <1>8, <1>9 DEF Reading
  <2>4. Keeping(m) => /\ Dirty(g) \/ Writable(g) \/ x # NoWB => MayWriteSoon(m, r)
                      /\ w.writes # 0 => Dirty(g) \/ x # NoWB
    BY <1>3, <1>4, <1>5, <1>8, <1>10 DEF MayWriteSoon, Keeping, Reading
  <2>5. Newest(m) /\ Writable(g) => \A d \in Caches : ~Promises(m, d)
    BY <1>4, <1>5 DEF Newest, Owning
  <2>. QED  BY <2>1, <2>2, <2>3, <2>4, <2>5, SMTT(60) DEF Settled
<1>12. ~Sent(Promoted(n))
  <2>1. n \in MSHRType
    BY <1>2, <1>3, HandleFillFacts DEF Ready, LineOK, Sent
  <2>. QED  BY <2>1 DEF Promoted, Sent, MSHRType
<1>. QED  BY <1>1, <1>4, <1>11, <1>12

(* The answers to the snoops that were deferred. *)
AnswersTo(S, m, d, l2) ==
  /\ Promises(m, d) => S # {}
  /\ ~Promises(m, d) => S = {}
  /\ \A r \in S : /\ r \in AnswerType /\ OnWay(r)
                  /\ \E q \in BusCommands : Asks(m, d, q) /\ LateAnswer(r, m, q, l2)

LEMMA RespAnswers ==
  ASSUME NEW c, NEW a \in Addrs, Ready(c, a), NEW res, NEW victim, NEW n, NEW w, NEW e, NEW temp,
         RespSeen(res, c, a, victim, n, w, e, temp), NEW d \in Caches,
         NEW S, S = {x.answer : x \in {y \in res.answers : y.to = d}},
         NEW m, m = cache[c].mshr[a], NEW l2, l2 = latest[a] + w.writes
  PROVE  AnswersTo(S, m, d, l2)
<1>1. PICK b, r, ll : b = cache[c].blk[a] /\ r = answer[c][a] /\ ll = latest[a]
  OBVIOUS
<1>2. b \in BlockType /\ m \in MSHRType /\ LineOK(b, m) /\ ll \in Nat /\ Arrives(b, m, r, ll)
  BY <1>1, ZenonT(40) DEF Ready
<1>3. /\ n = MSHRHandleFill(m, r) /\ w = ServeTargets(Filled(b, r), n) /\ e = AfterTargets(w.blk, n, r)
      /\ res.answers = w.answers
  BY <1>1, ZenonT(40) DEF RespSeen, RespResult
<1>4. /\ w.writes \in Nat
      /\ \A x \in w.answers : \E i \in Caches, q \in BusCommands :
           Asks(m, i, q) /\ x = [to |-> i, answer |-> LateResp(m, q, ll + w.writes)]
      /\ \A i \in Caches : Promises(m, i) => \E x \in w.answers : x.to = i
  BY <1>2, <1>3, RespLine
<1>5. l2 \in Nat /\ l2 = ll + w.writes
  BY <1>1, <1>2, <1>4
<1>6. ASSUME NEW s \in S
      PROVE  \E q \in BusCommands : Asks(m, d, q) /\ s = LateResp(m, q, l2)
  <2>1. PICK x \in w.answers : x.to = d /\ s = x.answer
    BY <1>3
  <2>2. PICK i \in Caches, q \in BusCommands :
          Asks(m, i, q) /\ x = [to |-> i, answer |-> LateResp(m, q, l2)]
    BY <1>4, <1>5
  <2>. QED  BY <2>1, <2>2
<1>7. ASSUME NEW q \in BusCommands, NEW s, s = LateResp(m, q, l2)
      PROVE  s \in AnswerType /\ OnWay(s) /\ LateAnswer(s, m, q, l2)
  <2>1. PICK y : y = IF m.postInvalidate /\ q = "ReadReq" THEN "ReadRespWithInvalidate" ELSE Response(q)
    OBVIOUS
  <2>2. y \in Responses
    BY <2>1, BusFacts DEF Responses
  <2>3. PICK yes \in BOOLEAN : yes = TRUE
    OBVIOUS
  <2>4. PICK sh \in BOOLEAN : sh <=> q = "ReadReq"
    OBVIOUS
  <2>5. s = [cmd |-> y, data |-> l2, shared |-> sh, inhibit |-> yes]
    BY <1>7, <2>1, <2>3, <2>4 DEF LateResp, Answer
  <2>6. s \in AnswerType
    BY <1>5, <2>2, <2>5 DEF AnswerType
  <2>7. s # NoAnswer
    BY <2>6, NullAssumption
  <2>8. s.cmd = y /\ s.data = l2 /\ s.shared = sh /\ s.inhibit = yes
    BY <2>5
  <2>. QED  BY <2>1, <2>2, <2>3, <2>4, <2>6, <2>7, <2>8 DEF OnWay, LateAnswer
<1>8. Promises(m, d) => S # {}
  BY <1>3, <1>4
<1>9. ~Promises(m, d) => S = {}
  BY <1>6 DEF Promises
<1>. QED  BY <1>6, <1>7, <1>8, <1>9 DEF AnswersTo

(* The accesses that are over. *)
LEMMA RespOver ==
  ASSUME IInv, NEW c \in Caches, NEW a \in Addrs, Ready(c, a), NEW res, NEW victim, NEW n, NEW w, NEW e,
         NEW temp, RespSeen(res, c, a, victim, n, w, e, temp), NEW d \in res.done
  PROVE  \E t : /\ ServedBy(d, t, cache[c].mshr[a], n, Filled(cache[c].blk[a], answer[c][a]))
                /\ OpAt(c, a, t, op, latest[a]) /\ Waits(cache[c].mshr[a], d.op)
                /\ CpuOn(cache[c].mshr[a].targets, d.op) \/ n # cache[c].mshr[a]
<1>1. PICK b, m, r, ll : /\ b = cache[c].blk[a] /\ m = cache[c].mshr[a] /\ r = answer[c][a]
                         /\ ll = latest[a]
  OBVIOUS
<1>2. b \in BlockType /\ m \in MSHRType /\ LineOK(b, m) /\ ll \in Nat /\ Arrives(b, m, r, ll)
  BY <1>1, ZenonT(40) DEF Ready
<1>3. n = MSHRHandleFill(m, r) /\ w = ServeTargets(Filled(b, r), n) /\ res.done = w.done
  BY <1>1 DEF RespSeen, RespResult
<1>4. PICK f : f = Filled(b, r)
  OBVIOUS
<1>5. PICK t : ServedBy(d, t, m, n, f)
  BY <1>2, <1>3, <1>4, RespDone
<1>6. OpsOK(c, a, m, op, ll)
  BY <1>1, <1>2, NullAssumption, ZenonT(40) DEF IInv, OpInv
<1>7. CASE On(m.targets, t)
  BY <1>1, <1>4, <1>5, <1>6, <1>7, ZenonT(40) DEF ServedBy, On, OpsOK, Waits, CpuOn
<1>8. CASE n # m /\ On(m.deferred, t)
  BY <1>1, <1>4, <1>5, <1>6, <1>8, ZenonT(40) DEF ServedBy, On, OpsOK, Waits, CpuOn
<1>. QED  BY <1>5, <1>7, <1>8 DEF ServedBy
(* RecvResp, taken apart. *)
RespMade(c, a, victim, res, n, w, e, temp) ==
  /\ Ready(c, a) /\ RespSeen(res, c, a, victim, n, w, e, temp)
  /\ cache' \in [Caches -> CacheType] /\ \A d \in Caches : LocalOK(cache'[d])
  /\ cache'[c] = res.k /\ \A d \in Caches \ {c} : cache'[d] = cache[d]
  /\ mem' = mem /\ latest' \in [Addrs -> Nat]
  /\ w.writes \in Nat /\ latest'[a] = latest[a] + w.writes /\ latest[a] <= latest'[a]
  /\ \A x \in Addrs : x # a => latest'[x] = latest[x]
  /\ op' \in [Ops -> OpType \cup {NoOp}]
  /\ \A o \in Ops : op'[o] # op[o] => \E d \in res.done : d.op = o
  /\ answer' \in [Caches -> [Addrs -> AnswerType \cup {NoAnswer}]]
  /\ \A d \in Caches, x \in Addrs : x # a => answer'[d][x] = answer[d][x]
  /\ answer'[c][a] = NoAnswer
  /\ \A d \in Caches \ {c} :
       IF Promises(cache[c].mshr[a], d)
       THEN /\ OnWay(answer'[d][a])
            /\ \E q \in BusCommands : /\ Asks(cache[c].mshr[a], d, q)
                                      /\ LateAnswer(answer'[d][a], cache[c].mshr[a], q, latest'[a])
       ELSE answer'[d][a] = answer[d][a]

LEMMA RespMakes ==
  ASSUME IInv, WritebackFirst, NEW c \in Caches, NEW a \in Addrs, NEW victim \in Victims(cache[c], a),
         RecvResp(c, a, victim)
  PROVE  \E res, n, w, e, temp : RespMade(c, a, victim, res, n, w, e, temp)
<1>1. PICK res : res = RecvTimingResp(cache[c], a, answer[c][a], victim)
  OBVIOUS
<1>2. Responded(c, a) /\ cache' = [cache EXCEPT ![c] = res.k] /\ mem' = mem
  BY <1>1 DEF RecvResp
<1>3. op' = [o \in Ops |-> IF o \in {d.op : d \in res.done} THEN NoOp ELSE op[o]]
  BY <1>1 DEF RecvResp
<1>4. latest' = [latest EXCEPT ![a] = @ + res.writes]
  BY <1>1 DEF RecvResp
<1>5. Ready(c, a)
  BY <1>2, RespReady
<1>6. PICK n, w, e, temp : RespSeen(res, c, a, victim, n, w, e, temp)
  BY <1>1, <1>5, RespTaken, ZenonT(40)
<1>7. res.k \in CacheType /\ LocalOK(res.k) /\ res.writes = w.writes
  BY <1>6 DEF RespSeen, RespResult
<1>8. /\ cache' \in [Caches -> CacheType] /\ \A d \in Caches : LocalOK(cache'[d])
      /\ cache'[c] = res.k /\ \A d \in Caches \ {c} : cache'[d] = cache[d]
  BY <1>2, <1>7, OneCache
<1>9. w.writes \in Nat /\ latest[a] \in Nat
  BY <1>5, <1>6, RespSettles DEF Ready
<1>10. /\ latest' \in [Addrs -> Nat] /\ latest'[a] = latest[a] + w.writes /\ latest[a] <= latest'[a]
       /\ \A x \in Addrs : x # a => latest'[x] = latest[x]
  BY <1>4, <1>7, <1>9 DEF IInv, TypeOK
<1>11. /\ op' \in [Ops -> OpType \cup {NoOp}]
       /\ \A o \in Ops : op'[o] # op[o] => \E d \in res.done : d.op = o
  BY <1>3 DEF IInv, TypeOK
<1>12. ASSUME NEW d \in Caches
       PROVE  /\ answer'[d] \in [Addrs -> AnswerType \cup {NoAnswer}]
              /\ \A x \in Addrs : x # a => answer'[d][x] = answer[d][x]
              /\ d = c => answer'[d][a] = NoAnswer
              /\ d # c =>
                   IF Promises(cache[c].mshr[a], d)
                   THEN /\ OnWay(answer'[d][a])
                        /\ \E q \in BusCommands :
                             /\ Asks(cache[c].mshr[a], d, q)
                             /\ LateAnswer(answer'[d][a], cache[c].mshr[a], q, latest'[a])
                   ELSE answer'[d][a] = answer[d][a]
  <2>1. PICK S : S = {x.answer : x \in {y \in res.answers : y.to = d}}
    OBVIOUS
  <2>2. answer'[d] = [answer[d] EXCEPT ![a] = CASE d = c -> NoAnswer
                                                [] d # c /\ S # {} -> CHOOSE r \in S : TRUE
                                                [] OTHER -> @]
    BY <1>1, <2>1 DEF RecvResp
  <2>3. PICK m, l2 : m = cache[c].mshr[a] /\ l2 = latest[a] + w.writes
    OBVIOUS
  <2>4. AnswersTo(S, m, d, l2)
    BY <1>5, <1>6, <2>1, <2>3, RespAnswers
  <2>5. PICK z : z = CHOOSE r \in S : TRUE
    OBVIOUS
  <2>6. S # {} => z \in S
    BY <2>5
  <2>7. answer[d] \in [Addrs -> AnswerType \cup {NoAnswer}]
    BY DEF IInv, TypeOK
  <2>8. CASE d = c
    <3>1. answer'[d] = [answer[d] EXCEPT ![a] = NoAnswer]
      BY <2>2, <2>8
    <3>. QED  BY <2>7, <2>8, <3>1
  <2>9. CASE d # c /\ S # {}
    <3>1. answer'[d] = [answer[d] EXCEPT ![a] = z]
      BY <2>2, <2>5, <2>9
    <3>2. /\ z \in AnswerType /\ OnWay(z) /\ Promises(m, d)
          /\ \E q \in BusCommands : Asks(m, d, q) /\ LateAnswer(z, m, q, l2)
      BY <2>4, <2>6, <2>9 DEF AnswersTo
    <3>. QED  BY <1>10, <2>3, <2>7, <2>9, <3>1, <3>2
  <2>10. CASE d # c /\ S = {}
    <3>1. answer'[d] = [answer[d] EXCEPT ![a] = @]
      BY <2>2, <2>10
    <3>2. ~Promises(m, d)
      BY <2>4, <2>10 DEF AnswersTo
    <3>. QED  BY <2>3, <2>7, <2>10, <3>1, <3>2
  <2>. QED  BY <2>8, <2>9, <2>10
<1>13. answer' \in [Caches -> [Addrs -> AnswerType \cup {NoAnswer}]]
  <2>1. answer' = [d \in Caches |-> answer'[d]]
    BY DEF RecvResp
  <2>. QED  BY <1>12, <2>1
<1>. QED  BY <1>2, <1>5, <1>6, <1>8, <1>9, <1>10, <1>11, <1>12, <1>13 DEF RespMade
(* The block that has come, and the one that has left for it. *)
LEMMA RespCoh ==
  ASSUME IInv, WritebackFirst, NEW c \in Caches, NEW a \in Addrs, NEW victim, NEW res, NEW n, NEW w, NEW e,
         NEW temp, RespMade(c, a, victim, res, n, w, e, temp)
  PROVE  \A x \in Addrs : CohAt(x)'
<1>1. /\ Ready(c, a) /\ RespSeen(res, c, a, victim, n, w, e, temp) /\ mem' = mem
      /\ cache'[c] = res.k /\ \A d \in Caches \ {c} : cache'[d] = cache[d]
      /\ w.writes \in Nat /\ latest'[a] = latest[a] + w.writes
      /\ \A x \in Addrs : x # a => latest'[x] = latest[x]
      /\ \A d \in Caches, x \in Addrs : x # a => answer'[d][x] = answer[d][x]
  BY ZenonT(40) DEF RespMade
<1>2. /\ victim \in Addrs /\ temp \in BOOLEAN
      /\ victim # a => Valid(cache[c].blk[victim])
      /\ temp <=> victim # a /\ cache[c].mshr[victim] # NoMSHR
      /\ res.k.mshr[a] = Promoted(n)
      /\ \A x \in Addrs : x # a =>
           /\ res.k.mshr[x] = cache[c].mshr[x]
           /\ res.k.blk[x] = IF ~temp /\ x = victim THEN NoBlock ELSE cache[c].blk[x]
           /\ Waiting(res.k, x) = IF ~temp /\ x = victim /\ Dirty(cache[c].blk[x])
                                  THEN cache[c].blk[x].data ELSE Waiting(cache[c], x)
  BY <1>1, ZenonT(40) DEF RespSeen, RespResult
<1>3. CohAt(a)'
  <2>1. PICK B, M, X, A, B2, M2, X2, A2, mm, ll, wr :
             /\ B = Blks(a) /\ M = Msrs(a) /\ X = Wbs(a) /\ A = Answers(a)
             /\ B2 = Blks(a)' /\ M2 = Msrs(a)' /\ X2 = Wbs(a)' /\ A2 = Answers(a)'
             /\ mm = mem[a] /\ ll = latest[a] /\ wr = w.writes
    OBVIOUS
  <2>2. Coh(B, M, X, A, mm, ll) /\ mm \in Nat /\ ll \in Nat /\ wr \in Nat
    BY <1>1, <2>1, Parts, Unpack DEF CohAt, Has
  <2>3. /\ B[c] = cache[c].blk[a] /\ M[c] = cache[c].mshr[a] /\ A[c] = answer[c][a]
        /\ B2[c] = res.k.blk[a] /\ M2[c] = Promoted(n) /\ X2[c] = Waiting(res.k, a)
        /\ A2[c] = NoAnswer
    BY <1>1, <1>2, <2>1, Views, ViewsNext DEF RespMade
  <2>4. \A d \in Caches : Sent(M[d]) => X[d] = NoWB
    BY <2>1, FirstWriteback
  <2>5. \A d \in Caches : Dirty(B[d]) => Valid(B[d])
    BY <2>1, Views, Unpack DEF Has
  <2>6. OnWay(A[c]) /\ ~Sent(M2[c])
    BY <1>1, <2>3, RespSettles, NullAssumption DEF OnWay, Ready, Arrives
  <2>7. \A d \in Caches \ {c} : B2[d] = B[d] /\ M2[d] = M[d] /\ X2[d] = X[d]
    BY <1>1, <2>1, Views, ViewsNext
  <2>8. M[c] \in MSHRType /\ MSHROK(M[c]) /\ M[c].inService
    BY <1>1, <2>3 DEF Ready
  <2>9. /\ \A d \in Caches, q \in BusCommands : Asks(M[c], d, q) /\ q # "ReadReq" => M[c].postInvalidate
        /\ \A d, i \in Caches, q, s \in BusCommands :
             Asks(M[c], d, q) /\ Asks(M[c], i, s) /\ q # "ReadReq" /\ s # "ReadReq" => d = i
        /\ Owning(M[c]) /\ M[c].postInvalidate =>
             \E d \in Caches, q \in BusCommands : Asks(M[c], d, q) /\ q # "ReadReq"
    BY <2>8, SentFacts
  <2>10. Settled(B2[c], M[c], X2[c], A[c], wr, ll + wr)
    BY <1>1, <2>1, <2>3, RespSettles
  <2>11. ASSUME NEW d \in Caches \ {c}
         PROVE  /\ Promises(M[c], d) =>
                     \E q \in BusCommands : Asks(M[c], d, q) /\ LateAnswer(A2[d], M[c], q, ll + wr)
                /\ ~Promises(M[c], d) => A2[d] = A[d]
    <3>1. /\ A2[d] = answer'[d][a] /\ A[d] = answer[d][a] /\ latest'[a] = ll + wr
      BY <1>1, <2>1, Views, ViewsNext
    <3>. QED  BY <2>3, <3>1 DEF RespMade
  <2>12. Responds(B, M, X, A, B2, M2, X2, A2, c, wr, ll)
    BY <2>3, <2>4, <2>5, <2>6, <2>7, <2>9, <2>10, <2>11 DEF Responds
  <2>13. Coh(B2, M2, X2, A2, mm, ll + wr)
    BY <2>2, <2>12, CohResp
  <2>. QED  BY <1>1, <2>1, <2>13 DEF CohAt
<1>4. ASSUME NEW x \in Addrs, x # a, ~temp, x = victim PROVE CohAt(x)'
  <2>1. PICK B, M, X, A, B2, X2, mm, ll :
             /\ B = Blks(x) /\ M = Msrs(x) /\ X = Wbs(x) /\ A = Answers(x)
             /\ B2 = Blks(x)' /\ X2 = Wbs(x)' /\ mm = mem[x] /\ ll = latest[x]
    OBVIOUS
  <2>2. Coh(B, M, X, A, mm, ll) /\ ll \in Nat
    BY <2>1, Parts, Unpack DEF CohAt, Has
  <2>3. Msrs(x)' = M /\ Answers(x)' = A
    BY <1>1, <1>2, <1>4, <2>1 DEF Msrs, Answers
  <2>4. /\ B[c] = cache[c].blk[x] /\ M[c] = NoMSHR /\ X[c] = Waiting(cache[c], x)
        /\ B2[c] = NoBlock /\ Valid(B[c])
        /\ X2[c] = IF Dirty(cache[c].blk[x]) THEN cache[c].blk[x].data ELSE Waiting(cache[c], x)
    BY <1>1, <1>2, <1>4, <2>1, Views, ViewsNext
  <2>5. B[c].data = ll /\ X[c] = NoWB
    BY <2>2, <2>4 DEF Coh, DataInv, OwnerInv
  <2>6. X2[c] = (IF Dirty(B[c]) THEN ll ELSE NoWB) /\ ~Sent(M[c]) /\ ll # NoWB
    BY <2>2, <2>4, <2>5, NullAssumption DEF Sent
  <2>7. \A d \in Caches : Dirty(B[d]) => Valid(B[d])
    BY <2>1, Views, Unpack DEF Has
  <2>8. \A d \in Caches \ {c} : B2[d] = B[d] /\ X2[d] = X[d]
    BY <1>1, <2>1, Views, ViewsNext
  <2>9. Coh(B2, M, X2, A, mm, ll)
    BY <2>2, <2>4, <2>6, <2>7, <2>8, CohEvict
  <2>. QED  BY <1>1, <1>4, <2>1, <2>3, <2>9 DEF CohAt
<1>5. ASSUME NEW x \in Addrs, x # a, temp \/ x # victim PROVE CohAt(x)'
  <2>1. CohAt(x)
    BY Parts
  <2>2. ASSUME NEW d \in Caches
        PROVE  /\ cache'[d].blk[x] = cache[d].blk[x]
               /\ cache'[d].mshr[x] = cache[d].mshr[x]
               /\ Waiting(cache'[d], x) = Waiting(cache[d], x)
               /\ answer'[d][x] = answer[d][x]
    BY <1>1, <1>2, <1>5
  <2>. QED  BY <1>1, <1>5, <2>1, <2>2, CohFrame
<1>. QED  BY <1>2, <1>3, <1>4, <1>5

(* The accesses that still wait, and what is on its way to them. *)
LEMMA RespOps ==
  ASSUME IInv, WritebackFirst, NEW c \in Caches, NEW a \in Addrs, NEW victim, NEW res, NEW n, NEW w, NEW e,
         NEW temp, RespMade(c, a, victim, res, n, w, e, temp), NEW d \in Caches, NEW x \in Addrs
  PROVE  OpsAt(d, x)' /\ FloorsAt(d, x)'
<1>1. /\ Ready(c, a) /\ RespSeen(res, c, a, victim, n, w, e, temp) /\ mem' = mem
      /\ cache'[c] = res.k /\ \A i \in Caches \ {c} : cache'[i] = cache[i]
      /\ latest' \in [Addrs -> Nat] /\ latest[a] <= latest'[a]
      /\ \A y \in Addrs : y # a => latest'[y] = latest[y]
      /\ \A i \in Caches, y \in Addrs : y # a => answer'[i][y] = answer[i][y]
      /\ \A o \in Ops : op'[o] # op[o] => \E i \in res.done : i.op = o
      /\ answer'[c][a] = NoAnswer
  BY DEF RespMade
<1>2. latest[x] \in Nat /\ latest'[x] \in Nat /\ latest[x] <= latest'[x]
  BY <1>1, Unpack DEF Has
<1>3. PICK m : m = cache[c].mshr[a]
  OBVIOUS
<1>4. m \in MSHRType /\ MSHROK(m) /\ m.inService /\ m # NoMSHR
  BY <1>1, <1>3, NullAssumption DEF Ready
<1>5. ASSUME NEW o \in Ops, op'[o] # op[o]
      PROVE  Waits(m, o) /\ Known(o, c, a, op, latest[a]) /\ (CpuOn(m.targets, o) \/ n # m)
  <2>1. PICK i \in res.done : i.op = o
    BY <1>1, <1>5
  <2>2. Waits(m, o) /\ (CpuOn(m.targets, o) \/ n # m)
    BY <1>1, <1>3, <2>1, RespOver
  <2>. QED  BY <1>3, <1>4, <2>2, WaitsKnown
<1>6. CASE d # c \/ x # a
  <2>1. cache'[d].mshr[x] = cache[d].mshr[x]
    <3>1. \A y \in Addrs : y # a => res.k.mshr[y] = cache[c].mshr[y]
      BY <1>1, ZenonT(60) DEF RespSeen, RespResult
    <3>2. CASE d # c
      BY <1>1, <3>2
    <3>3. CASE d = c /\ x # a
      BY <1>1, <3>1, <3>3
    <3>. QED  BY <1>6, <3>2, <3>3, SMTT(60)
  <2>2. ASSUME NEW o \in Ops, cache[d].mshr[x] # NoMSHR, Waits(cache[d].mshr[x], o)
        PROVE  op'[o] = op[o] /\ op[o].floor \in Nat /\ op[o].floor <= latest[x]
    <3>1. Known(o, d, x, op, latest[x]) /\ op[o].floor \in Nat
      BY <2>2, WaitsKnown
    <3>. QED  BY <1>5, <1>6, <3>1 DEF Known
  <2>3. OpsAt(d, x)'
    BY <1>2, <2>1, <2>2, OpsFrame
  <2>4. CASE answer'[d][x] = answer[d][x]
    <3>1. ASSUME answer'[d][x] # NoAnswer, NEW o \in Ops, CpuOn(cache'[d].mshr[x].targets, o)
          PROVE  CpuOn(cache[d].mshr[x].targets, o) /\ op'[o] = op[o]
      <4>1. cache[d].mshr[x] # NoMSHR
        BY <2>4, <3>1, AnswerSent
      <4>. QED  BY <2>1, <2>2, <3>1, <4>1 DEF Waits
    <3>2. FloorsAt(d, x)'
      BY <1>1, <2>4, <3>1, FloorsFrame
    <3>. QED  BY <2>3, <3>2
  <2>5. CASE answer'[d][x] # answer[d][x]
    <3>1. x = a /\ d \in Caches \ {c} /\ Promises(m, d)
      BY <1>1, <1>3, <1>6, <2>5 DEF RespMade
    <3>2. PICK r : r = answer'[d][a]
      OBVIOUS
    <3>3. OnWay(r) /\ r.data = latest'[a]
      BY <1>3, <3>1, <3>2 DEF RespMade, LateAnswer
    <3>4. ~AtMem(r)
      BY <3>3 DEF OnWay, AtMem, Responses, BusCommands
    <3>5. cache[d].mshr[a] # NoMSHR
      <4>1. PICK M, A : M = Msrs(a) /\ A = Answers(a)
        OBVIOUS
      <4>2. ChainInv(M, A)
        BY <4>1, Parts DEF CohAt, Coh
      <4>3. Promises(M[c], d)
        BY <1>3, <3>1, <4>1, Views
      <4>4. Sent(M[d])
        BY <3>1, <4>2, <4>3 DEF ChainInv
      <4>. QED  BY <4>1, <4>4, Views DEF Sent
    <3>6. ASSUME NEW o \in Ops, CpuOn(cache'[d].mshr[a].targets, o)
          PROVE  FloorOK(op'[o].floor, r, mem'[a])
      <4>1. Waits(cache[d].mshr[x], o)
        BY <2>1, <3>1, <3>6 DEF Waits
      <4>2. op'[o] = op[o] /\ op[o].floor \in Nat /\ op[o].floor <= latest[x]
        BY <2>2, <3>1, <3>5, <4>1
      <4>3. op'[o].floor <= latest'[a]
        BY <1>2, <3>1, <4>2
      <4>. QED  BY <3>3, <3>4, <4>3 DEF FloorOK
    <3>7. FloorsAt(d, x)'
      BY <3>1, <3>2, <3>6 DEF FloorsAt
    <3>. QED  BY <2>3, <3>7
  <2>. QED  BY <2>4, <2>5
<1>7. CASE d = c /\ x = a
  <2>1. FloorsAt(c, a)'
    BY <1>1, SMTT(60) DEF FloorsAt
  <2>2. cache'[c].mshr[a] = Promoted(n)
    BY <1>1, ZenonT(60) DEF RespSeen, RespResult
  <2>3. CASE n.deferred = << >>
    BY <1>7, <2>1, <2>2, <2>3 DEF OpsAt, Promoted
  <2>4. CASE n.deferred # << >>
    <3>1. n = MSHRHandleFill(m, answer[c][a])
      BY <1>1, <1>3 DEF RespSeen
    <3>2. n = m
      BY <1>4, <2>4, <3>1, HandleFillFacts
    <3>3. OpsOK(c, a, m, op, latest[a])
      BY <1>3, <1>4 DEF IInv, OpInv
    <3>4. PICK p : p = Promoted(m)
      OBVIOUS
    <3>5. OpsOK(c, a, p, op, latest[a]) /\ \A o : Waits(p, o) => CpuOn(m.deferred, o)
      BY <1>4, <2>4, <3>2, <3>3, <3>4, OpsPromoted
    <3>6. p \in MSHRType
      <4>1. PICK no \in BOOLEAN : no = FALSE
        OBVIOUS
      <4>2. PICK none : none = << >>
        OBVIOUS
      <4>3. p = [m EXCEPT !.targets = m.deferred, !.deferred = none, !.inService = no]
        BY <2>4, <3>2, <3>4, <4>1, <4>2 DEF Promoted
      <4>4. none \in Seq(TargetType)
        BY <4>2
      <4>. QED  BY <1>4, <4>1, <4>3, <4>4 DEF MSHRType
    <3>7. \A o \in Ops : Waits(p, o) => op'[o] = op[o]
      BY <1>5, <3>2, <3>3, <3>5 DEF OpsOK
    <3>8. op \in [Ops -> OpType \cup {NoOp}]
      BY DEF IInv, TypeOK
    <3>9. PICK P, Q, l1, l2 : P = op /\ Q = op' /\ l1 = latest[a] /\ l2 = latest'[a]
      OBVIOUS
    <3>10. OpsOK(c, a, p, Q, l2)
      BY <1>2, <1>7, <3>5, <3>6, <3>7, <3>8, <3>9, OpsKept
    <3>11. OpsAt(c, a)'
      BY <2>2, <3>2, <3>4, <3>9, <3>10 DEF OpsAt
    <3>. QED  BY <1>7, <2>1, <3>11, ZenonT(40)
  <2>. QED  BY <2>3, <2>4
<1>. QED  BY <1>6, <1>7

LEMMA RespStep ==
  ASSUME IInv, WritebackFirst, NEW c \in Caches, NEW a \in Addrs, NEW victim \in Victims(cache[c], a),
         RecvResp(c, a, victim)
  PROVE  IInv'
<1>1. PICK res, n, w, e, temp : RespMade(c, a, victim, res, n, w, e, temp)
  BY RespMakes
<1>2. TypeOK' /\ \A d \in Caches : LocalOK(cache'[d])
  BY <1>1 DEF RespMade, IInv, TypeOK
<1>3. \A x \in Addrs : CohAt(x)'
  BY <1>1, RespCoh
<1>4. \A d \in Caches, x \in Addrs : OpsAt(d, x)' /\ FloorsAt(d, x)'
  BY <1>1, RespOps
<1>. QED  BY <1>2, <1>3, <1>4, WholeNext
-----------------------------------------------------------------------------
(* The invariant holds.                                                    *)

(* Caches without blocks, requests and writebacks. *)
LEMMA NewFacts ==
  ASSUME NEW w \in Nat \ {0}, NEW k, k = NewCache(w)
  PROVE  /\ k \in CacheType /\ LocalOK(k)
         /\ \A a \in Addrs : k.blk[a] = NoBlock /\ k.mshr[a] = NoMSHR /\ k.wb[a] = NoWB
<1>1. PICK none, no : none = << >> /\ no = {}
  OBVIOUS
<1>2. k = [blk |-> [a \in Addrs |-> NoBlock], lines |-> [pcm |-> 0, dram |-> 0],
           mshr |-> [a \in Addrs |-> NoMSHR], wb |-> [a \in Addrs |-> NoWB],
           writeBuffers |-> w, unripe |-> none, readyMiss |-> none,
           readyWB |-> none, blocked |-> no, noTargetMSHR |-> NoMSHR]
  BY <1>1 DEF NewCache
<1>3. /\ NoBlock \in BlockType /\ no \in SUBSET {"NoMSHRs", "NoWBBuffers", "NoTargets"}
      /\ [pcm |-> 0, dram |-> 0] \in [pcm : Int, dram : Int]
  BY <1>1 DEF NoBlock, BlockType
<1>4. none \in Seq(Addrs) /\ none \in Seq({"miss", "wb", "deferred"} \X Addrs) /\ Len(none) = 0
  BY <1>1
<1>5. /\ [a \in Addrs |-> NoBlock] \in [Addrs -> BlockType]
      /\ [a \in Addrs |-> NoMSHR] \in [Addrs -> MSHRType \cup {NoMSHR}]
      /\ [a \in Addrs |-> NoWB] \in [Addrs -> WBType \cup {NoWB}]
  BY <1>3
<1>6. k \in CacheType
  BY <1>2, <1>3, <1>4, <1>5 DEF CacheType
<1>7. /\ k.lines.pcm = 0 /\ k.lines.dram = 0
      /\ k.unripe = none /\ k.readyMiss = none /\ k.readyWB = none /\ k.blocked = no
      /\ \A a \in Addrs : k.blk[a] = NoBlock /\ k.mshr[a] = NoMSHR /\ k.wb[a] = NoWB
  BY <1>2
<1>8. ASSUME NEW a \in Addrs PROVE LineOK(k.blk[a], k.mshr[a]) /\ QueueOK(k, a)
  <2>1. BlockOK(NoBlock) /\ "V" \notin NoBlock.status
    BY DEF BlockOK, NoBlock
  <2>2. LineOK(k.blk[a], k.mshr[a])
    BY <1>7, <2>1 DEF LineOK
  <2>3. \A x : ~On(none, x) /\ Once(none, x)
    BY <1>4 DEF On, Once
  <2>. QED  BY <1>7, <2>2, <2>3 DEF QueueOK, ListOK, Pending
<1>9. LinesOK(k)
  <2>1. ValidIn(k) \cap Pcm = {} /\ ValidIn(k) \ Pcm = {}
    BY <1>7, BlockFacts DEF ValidIn, Valid
  <2>. QED  BY <1>7, <2>1, FS_EmptySet DEF LinesOK
<1>10. CauseOK(k)
  BY <1>1, <1>7 DEF CauseOK
<1>. QED  BY <1>6, <1>7, <1>8, <1>9, <1>10 DEF LocalOK

LEMMA InitStep ==
  ASSUME Init
  PROVE  IInv
<1>1. ASSUME NEW c \in Caches
      PROVE  /\ cache[c] \in CacheType /\ LocalOK(cache[c])
             /\ \A a \in Addrs : /\ cache[c].blk[a] = NoBlock /\ cache[c].mshr[a] = NoMSHR
                                 /\ cache[c].wb[a] = NoWB /\ answer[c][a] = NoAnswer
  <2>1. WriteBuffers[c] \in Nat \ {0} /\ cache[c] = NewCache(WriteBuffers[c])
    BY CoherentAssumption DEF Init
  <2>2. \A a \in Addrs : answer[c][a] = NoAnswer
    BY DEF Init
  <2>. QED  BY <2>1, <2>2, NewFacts
<1>2. TypeOK
  BY <1>1 DEF Init, TypeOK
<1>3. ASSUME NEW a \in Addrs PROVE CohAt(a)
  <2>1. PICK B, M, X, A : B = Blks(a) /\ M = Msrs(a) /\ X = Wbs(a) /\ A = Answers(a)
    OBVIOUS
  <2>2. \A d \in Caches : B[d] = NoBlock /\ M[d] = NoMSHR /\ X[d] = NoWB /\ A[d] = NoAnswer
    BY <1>1, <2>1, Views DEF Waiting
  <2>3. Coh(B, M, X, A, 0, 0)
    BY <2>2, CohInit
  <2>4. mem[a] = 0 /\ latest[a] = 0
    BY DEF Init
  <2>. QED  BY <2>1, <2>3, <2>4 DEF CohAt
<1>4. \A c \in Caches, a \in Addrs : OpsAt(c, a) /\ FloorsAt(c, a)
  BY <1>1 DEF OpsAt, FloorsAt
<1>. QED  BY <1>1, <1>2, <1>3, <1>4, Whole

LEMMA NextStep ==
  ASSUME IInv, WritebackFirst, WritebackFirst', [Next]_vars
  PROVE  IInv'
<1>1. CASE \E x \in Accesses : AccessHits(x[1], x[2], x[3], x[4]) \/ AccessMisses(x[1], x[2], x[3], x[4])
  <2>1. PICK x \in Accesses : AccessHits(x[1], x[2], x[3], x[4]) \/ AccessMisses(x[1], x[2], x[3], x[4])
    BY <1>1
  <2>2. x[1] \in Ops /\ x[2] \in CpuCommands /\ x[3] \in Addrs /\ x[4] \in Requests
    BY CoherentAssumption
  <2>. QED  BY <2>1, <2>2, HitStep, MissStep
<1>2. CASE \E c \in Caches : TimePasses(c) \/ SendMiss(c) \/ SendRefused(c) \/ SendWriteback(c)
  BY <1>2, TimeStep, MissSentStep, RefusedStep, WritebackStep
<1>3. CASE \E c \in Caches, a \in Addrs : MemoryResponds(c, a)
  BY <1>3, MemoryStep
<1>4. CASE \E c \in Caches, a \in Addrs : \E victim \in Victims(cache[c], a) : RecvResp(c, a, victim)
  BY <1>4, RespStep
<1>5. CASE UNCHANGED vars
  <2>1. cache' = cache /\ op' = op /\ answer' = answer /\ mem' = mem /\ latest' = latest
    BY <1>5 DEF vars
  <2>2. TypeOK' /\ \A c \in Caches : LocalOK(cache'[c])
    BY <2>1 DEF IInv, TypeOK
  <2>3. \A a \in Addrs : CohAt(a)'
    BY <2>1, Parts, CohFrame
  <2>4. \A c \in Caches, a \in Addrs : OpsAt(c, a)' /\ FloorsAt(c, a)'
    BY <2>1 DEF IInv, OpInv, FloorInv, OpsAt, FloorsAt
  <2>. QED  BY <2>2, <2>3, <2>4, WholeNext
<1>. QED  BY <1>1, <1>2, <1>3, <1>4, <1>5 DEF Next

(* The whole invariant holds as long as no request is in service for a     *)
(* block whose writeback waits.                                            *)
THEOREM InvariantHolds == Spec /\ []WritebackFirst => []IInv
<1>1. Init => IInv
  BY InitStep
<1>2. IInv /\ WritebackFirst /\ WritebackFirst' /\ [Next]_vars => IInv'
  BY NextStep
<1>. QED  BY <1>1, <1>2, PTL DEF Spec
-----------------------------------------------------------------------------
(* What the invariant means.                                               *)

LEMMA AtMostOne ==
  ASSUME NEW S, \A x, y \in S : x = y
  PROVE  Cardinality(S) = IF S = {} THEN 0 ELSE 1
<1>1. CASE S = {}
  BY <1>1, FS_EmptySet
<1>2. CASE S # {}
  <2>1. PICK x : S = {x}
    BY <1>2
  <2>. QED  BY <1>2, <2>1, FS_Singleton
<1>. QED  BY <1>1, <1>2

LEMMA OnceCount ==
  ASSUME NEW S, NEW s \in Seq(S), NEW x, Once(s, x)
  PROVE  Cardinality({i \in DOMAIN s : s[i] = x}) = IF On(s, x) THEN 1 ELSE 0
<1>1. PICK T : T = {i \in DOMAIN s : s[i] = x}
  OBVIOUS
<1>2. DOMAIN s = 1 .. Len(s)
  OBVIOUS
<1>3. (\A i, j \in T : i = j) /\ (T = {} <=> ~On(s, x))
  BY <1>1, <1>2 DEF Once, On
<1>. QED  BY <1>1, <1>3, AtMostOne

(* One block in all the caches, in the words of the invariant. *)
CohState(a, B, M, X, A) ==
  /\ Coh(B, M, X, A, mem[a], latest[a])
  /\ \A d \in Caches :
       /\ Dirty(B[d]) \/ Writable(B[d]) => Valid(B[d])
       /\ B[d] = cache[d].blk[a] /\ M[d] = cache[d].mshr[a] /\ A[d] = answer[d][a]
       /\ X[d] = Waiting(cache[d], a) /\ (X[d] # NoWB <=> cache[d].wb[a] # NoWB)

LEMMA CohStates ==
  ASSUME IInv, NEW a \in Addrs
  PROVE  \E B, M, X, A : CohState(a, B, M, X, A)
<1>1. PICK B, M, X, A : B = Blks(a) /\ M = Msrs(a) /\ X = Wbs(a) /\ A = Answers(a)
  OBVIOUS
<1>2. Coh(B, M, X, A, mem[a], latest[a])
  BY <1>1, Parts DEF CohAt
<1>3. ASSUME NEW d \in Caches
      PROVE  /\ Dirty(B[d]) \/ Writable(B[d]) => Valid(B[d])
             /\ B[d] = cache[d].blk[a] /\ M[d] = cache[d].mshr[a] /\ A[d] = answer[d][a]
             /\ X[d] = Waiting(cache[d], a) /\ (X[d] # NoWB <=> cache[d].wb[a] # NoWB)
  <2>1. Has(d, a)
    BY Unpack
  <2>. QED  BY <1>1, <2>1, Views, WaitingFacts DEF Has
<1>. QED  BY <1>2, <1>3 DEF CohState

(* A cache that answers at once, or has promised to, is the only one. *)
LEMMA OneSupplier ==
  ASSUME NEW a, NEW B, NEW M, NEW X, NEW A, CohState(a, B, M, X, A),
         NEW c \in Caches, NEW d \in Caches, Inhibits(B[c], M[c], X[c]), Inhibits(B[d], M[d], X[d])
  PROVE  c = d
<1>1. \A i \in Caches : Owning(M[i]) => Sent(M[i])
  BY DEF Owning
<1>2. \A i \in Caches : Newest(M[i]) => Owning(M[i])
  BY DEF Newest
<1>3. ASSUME NEW i \in Caches, NEW j \in Caches, Newest(M[i]), Supplies(B[j], M[j], X[j]) PROVE FALSE
  BY <1>1, <1>2, <1>3 DEF CohState, Coh, CopyInv, OwnerInv, Supplies
<1>4. Newest(M[c]) /\ Newest(M[d]) => c = d
  BY <1>2 DEF CohState, Coh, ChainInv
<1>5. Supplies(B[c], M[c], X[c]) /\ Supplies(B[d], M[d], X[d]) => c = d
  BY DEF CohState, Coh, OwnerInv, Supplies
<1>. QED  BY <1>3, <1>4, <1>5 DEF Inhibits

(* A dirty response is for the one owner to come with an answer, and no    *)
(* data are dirty elsewhere.                                               *)
LEMMA OneBringer ==
  ASSUME NEW a, NEW B, NEW M, NEW X, NEW A, CohState(a, B, M, X, A), NEW c \in Caches, Brings(A[c])
  PROVE  \A d \in Caches : (Brings(A[d]) => d = c) /\ ~Dirty(B[d]) /\ X[d] = NoWB
<1>1. \A d \in Caches : Brings(A[d]) => A[d] # NoAnswer /\ Owning(M[d])
  <2>1. \A d \in Caches : Brings(A[d]) => A[d] # NoAnswer /\ Sent(M[d])
    BY DEF CohState, Coh, ChainInv, Brings, OnWay
  <2>. QED  BY <2>1, KindFacts DEF CohState, Coh, AnswerInv, Brings
<1>2. \A d \in Caches : Owning(M[d]) /\ A[d] # NoAnswer => d = c
  BY <1>1 DEF CohState, Coh, ChainInv
<1>3. \A d \in Caches : Valid(B[d]) => d = c
  BY <1>1, <1>2, KindFacts DEF CohState, Coh, CopyInv
<1>. QED  BY <1>1, <1>2, <1>3 DEF CohState, Coh, OwnerInv

LEMMA OwnerHolds ==
  ASSUME IInv
  PROVE  OneOwner
<1>1. ASSUME NEW a \in Addrs
      PROVE  /\ Cardinality(Owners(a)) <= 1
             /\ Owners(a) = {} => mem[a] = latest[a]
             /\ \A c, d \in Caches :
                  "W" \in cache[c].blk[a].status /\ d # c => "V" \notin cache[d].blk[a].status
  <2>1. PICK B, M, X, A : CohState(a, B, M, X, A)
    BY CohStates
  <2>2. \A c \in Caches :
          /\ "D" \in cache[c].blk[a].status <=> Dirty(B[c])
          /\ cache[c].wb[a] # NoWB <=> X[c] # NoWB
          /\ Responded(c, a) /\ answer[c][a].inhibit /\ ~answer[c][a].shared <=> Brings(A[c])
    BY <2>1 DEF CohState, Dirty, Responded, Brings, OnWay
  <2>3. \A z : z \in Owners(a) <=>
          \E c \in Caches : \/ z = <<c, "block">> /\ Dirty(B[c])
                            \/ z = <<c, "writeback">> /\ X[c] # NoWB
                            \/ z = <<c, "response">> /\ Brings(A[c])
    BY <2>2 DEF Owners
  <2>4. \A c, d \in Caches :
          /\ X[c] # NoWB => ~Dirty(B[d]) /\ (X[d] # NoWB => c = d)
          /\ Dirty(B[c]) /\ Dirty(B[d]) => c = d
    BY <2>1 DEF CohState, Coh, OwnerInv
  <2>5. \A y, z \in Owners(a) : y = z
    <3>1. \A c, d \in Caches :
            Brings(A[c]) => (Brings(A[d]) => d = c) /\ ~Dirty(B[d]) /\ X[d] = NoWB
      BY <2>1, OneBringer
    <3>. QED  BY <2>3, <2>4, <3>1
  <2>6. Cardinality(Owners(a)) <= 1
    BY <2>5, AtMostOne
  <2>7. Owners(a) = {} => \A c \in Caches : ~Dirty(B[c]) /\ X[c] = NoWB /\ ~Brings(A[c])
    BY <2>3
  <2>8. Owners(a) = {} => mem[a] = latest[a]
    BY <2>1, <2>7 DEF CohState, Coh, DataInv
  <2>9. \A c, d \in Caches : Writable(B[c]) /\ c # d => ~Valid(B[d])
    BY <2>1 DEF CohState, Coh, CopyInv
  <2>. QED  BY <2>1, <2>6, <2>8, <2>9 DEF CohState, Writable, Valid
<1>. QED  BY <1>1 DEF OneOwner

LEMMA CopiesHold ==
  ASSUME IInv
  PROVE  CopiesCurrent
<1>1. ASSUME NEW c \in Caches, NEW a \in Addrs, Valid(cache[c].blk[a])
      PROVE  cache[c].blk[a].data = latest[a]
  <2>1. PICK B, M, X, A : CohState(a, B, M, X, A)
    BY CohStates
  <2>. QED  BY <1>1, <2>1 DEF CohState, Coh, DataInv
<1>. QED  BY <1>1 DEF CopiesCurrent, ValidIn, Valid

(* The parts that each cache makes sure of alone. *)
LEMMA LocalHolds ==
  ASSUME IInv
  PROVE  TypeOK /\ LocksHold /\ BlockedHasCause /\ LinesCounted
<1>1. LocksHold
  <2>1. \A c \in Caches, a \in Addrs : BlockOK(cache[c].blk[a])
    BY DEF IInv, LocalOK, LineOK
  <2>2. \A c \in Caches, a \in Addrs : Valid(cache[c].blk[a]) => cache[c].blk[a].data = latest[a]
    BY CopiesHold DEF CopiesCurrent, ValidIn, Valid
  <2>. QED  BY <2>1, <2>2 DEF LocksHold, BlockOK, Valid, NoBlock
<1>2. BlockedHasCause
  BY DEF IInv, LocalOK, CauseOK, BlockedHasCause
<1>3. LinesCounted
  BY DEF IInv, LocalOK, LinesOK, LinesCounted
<1>. QED  BY <1>1, <1>2, <1>3 DEF IInv

(* The snoops on a list of targets. *)
LEMMA PromisedAs ==
  ASSUME IInv, NEW a \in Addrs, NEW c \in Caches, NEW d \in Caches
  PROVE  d \in Promised(c, a) <=> d # c /\ Promises(cache[d].mshr[a], c)
<1>1. PICK m : m = cache[d].mshr[a]
  OBVIOUS
<1>2. m # NoMSHR => m \in MSHRType /\ MSHROK(m)
  BY <1>1, Unpack DEF Has
<1>3. d \in Promised(c, a) <=>
        /\ d # c /\ m # NoMSHR /\ m.pendingDirty
        /\ \E t \in Range(m.targets) : t.source = "snoop" /\ t.who = c
  BY <1>1 DEF Promised
<1>4. CASE m = NoMSHR
  BY <1>1, <1>3, <1>4 DEF Promises, Asks, Owning, Sent
<1>5. CASE m # NoMSHR
  <2>1. m.targets \in Seq(TargetType) /\ DOMAIN m.targets = 1 .. Len(m.targets)
    BY <1>2, <1>5 DEF MSHRType
  <2>2. \A i \in 1 .. Len(m.targets) : m.targets[i] \in TargetType
    BY <2>1
  <2>3. \A t \in TargetType : t.source = "snoop" => t.cmd \in BusCommands /\ t = FromSnoop(t.who, t.cmd)
    BY DEF TargetType, FromSnoop
  <2>4. \A q \in BusCommands : /\ FromSnoop(c, q).source = "snoop" /\ FromSnoop(c, q).who = c
    BY TargetFacts
  <2>5. (\E t \in Range(m.targets) : t.source = "snoop" /\ t.who = c)
          <=> \E q \in BusCommands : On(m.targets, FromSnoop(c, q))
    BY <2>1, <2>2, <2>3, <2>4 DEF Range, On
  <2>6. (\E q \in BusCommands : On(m.targets, FromSnoop(c, q))) => m.inService
    BY <1>2, <1>5, <2>4 DEF MSHROK, On, Cpu
  <2>. QED  BY <1>1, <1>3, <1>5, <2>5, <2>6 DEF Promises, Asks, Owning, Sent
<1>. QED  BY <1>4, <1>5

LEMMA AnswerHolds ==
  ASSUME IInv
  PROVE  OneAnswer
<1>1. ASSUME NEW c \in Caches, NEW a \in Addrs
      PROVE  Queued(c, a) = IF Pending(cache[c], a) THEN 1 ELSE 0
  <2>1. PICK k : k = cache[c]
    OBVIOUS
  <2>2. k \in CacheType /\ ListOK(k.unripe, k.readyMiss, "miss", a, Pending(k, a))
    BY <2>1, Unpack DEF Has, QueueOK
  <2>3. k.unripe \in Seq(Tokens) /\ k.readyMiss \in Seq(Addrs)
    BY <2>2, ListTypes
  <2>4. PICK u, v : /\ u = Cardinality({i \in DOMAIN k.unripe : k.unripe[i] = Token("miss", a)})
                    /\ v = Cardinality({i \in DOMAIN k.readyMiss : k.readyMiss[i] = a})
    OBVIOUS
  <2>5. /\ u = IF On(k.unripe, Token("miss", a)) THEN 1 ELSE 0
        /\ v = IF On(k.readyMiss, a) THEN 1 ELSE 0
    BY <2>2, <2>3, <2>4, OnceCount DEF ListOK
  <2>6. Queued(c, a) = u + v
    BY <2>1, <2>4 DEF Queued
  <2>. QED  BY <2>1, <2>2, <2>5, <2>6 DEF ListOK
<1>2. ASSUME NEW a \in Addrs
      PROVE  /\ \A c \in Caches :
                  (IF answer[c][a] # NoAnswer THEN 1 ELSE 0) + Cardinality(Promised(c, a))
                    = IF InService(c, a) THEN 1 ELSE 0
             /\ \A S \in SUBSET {c \in Caches : InService(c, a)} :
                  S # {} => \E c \in S : Promised(c, a) \cap S = {}
  <2>1. PICK B, M, X, A : CohState(a, B, M, X, A)
    BY CohStates
  <2>2. ChainInv(M, A) /\ \A c \in Caches : M[c] = cache[c].mshr[a] /\ A[c] = answer[c][a]
    BY <2>1 DEF CohState, Coh
  <2>3. \A c \in Caches : InService(c, a) <=> Sent(M[c])
    BY <2>2 DEF InService, Sent
  <2>4. \A c, d \in Caches : d \in Promised(c, a) <=> Promises(M[d], c)
    BY <2>2, PromisedAs DEF ChainInv
  <2>5. ASSUME NEW c \in Caches
        PROVE  (IF answer[c][a] # NoAnswer THEN 1 ELSE 0) + Cardinality(Promised(c, a))
                 = IF InService(c, a) THEN 1 ELSE 0
    <3>1. PICK S : S = Promised(c, a) /\ S \subseteq Caches
      BY DEF Promised
    <3>2. \A x, y \in S : x = y
      BY <2>2, <2>4, <3>1 DEF ChainInv
    <3>3. PICK n : n = Cardinality(S) /\ n = IF S = {} THEN 0 ELSE 1
      BY <3>2, AtMostOne
    <3>4. /\ A[c] # NoAnswer => Sent(M[c]) /\ S = {}
          /\ Sent(M[c]) /\ A[c] = NoAnswer => S # {}
          /\ S # {} => Sent(M[c])
      BY <2>2, <2>4, <3>1 DEF ChainInv
    <3>. QED  BY <2>2, <2>3, <3>1, <3>3, <3>4
  <2>6. ASSUME NEW S \in SUBSET {c \in Caches : InService(c, a)}, S # {}
        PROVE  \E c \in S : Promised(c, a) \cap S = {}
    <3>1. S \in SUBSET Caches /\ \A c \in S : Sent(M[c])
      BY <2>3
    <3>2. PICK c \in S : \A d \in S : ~Promises(M[d], c)
      BY <2>2, <2>6, <3>1 DEF ChainInv
    <3>. QED  BY <2>4, <3>1, <3>2
  <2>. QED  BY <2>5, <2>6
<1>. QED  BY <1>1, <1>2 DEF OneAnswer

LEMMA StaleHolds ==
  ASSUME IInv, WritebackFirst
  PROVE  NoStaleAccess
<1>1. ASSUME NEW c \in Caches, NEW a \in Addrs, Responded(c, a), NEW result \in Outcomes(c, a),
             NEW d \in result.done, NEW o, o = op[d.op]
      PROVE  IF o.cmd = "WriteReq" THEN d.version > o.floor ELSE d.version >= o.floor
  <2>1. PICK victim \in Victims(cache[c], a) : result = RecvTimingResp(cache[c], a, answer[c][a], victim)
    BY DEF Outcomes
  <2>2. Ready(c, a)
    BY <1>1, RespReady
  <2>3. PICK n, w, e, temp : RespSeen(result, c, a, victim, n, w, e, temp)
    BY <2>1, <2>2, RespTaken
  <2>4. PICK b, m, r, ll, f : /\ b = cache[c].blk[a] /\ m = cache[c].mshr[a] /\ r = answer[c][a]
                              /\ ll = latest[a] /\ f = Filled(b, r)
    OBVIOUS
  <2>5. PICK t : /\ ServedBy(d, t, m, n, f) /\ OpAt(c, a, t, op, ll) /\ Waits(m, d.op)
                 /\ CpuOn(m.targets, d.op) \/ n # m
    BY <2>2, <2>3, <2>4, RespOver
  <2>6. /\ b \in BlockType /\ m \in MSHRType /\ LineOK(b, m) /\ ll \in Nat /\ Arrives(b, m, r, ll)
        /\ MSHROK(m) /\ m.inService /\ m # NoMSHR /\ r \in AnswerType
    BY <2>2, <2>4, NullAssumption DEF Ready
  <2>7. /\ f.data \in Nat /\ f.data = (IF r.cmd = "UpgradeResp" THEN b.data ELSE r.data)
        /\ m.pendingDirty \/ ~m.postInvalidate => f.data = ll
    BY <2>4, <2>6, FilledFacts DEF BlockType
  <2>8. d.op \in Ops /\ o.floor \in Nat /\ o.floor <= ll
    BY <1>1, <2>4, <2>5, <2>6, WaitsKnown DEF Known
  <2>9. o.floor <= f.data
    <3>1. CASE m.pendingDirty \/ ~m.postInvalidate
      BY <2>7, <2>8, <3>1
    <3>2. CASE ~m.pendingDirty /\ m.postInvalidate
      <4>1. n = m
        BY <2>3, <2>4, <2>6, <3>2, HandleFillFacts DEF RespSeen
      <4>2. r.cmd # "UpgradeResp" /\ OnWay(r) /\ r # NoAnswer
        BY <2>6, <3>2, NullAssumption DEF Arrives, OnWay
      <4>3. FloorOK(o.floor, r, mem[a])
        BY <1>1, <2>4, <2>5, <2>8, <4>1, <4>2 DEF IInv, FloorInv
      <4>. QED  BY <2>7, <4>2, <4>3, ZenonT(40) DEF FloorOK
    <3>. QED  BY <3>1, <3>2
  <2>10. o.cmd = "WriteReq" => t.cmd = "WriteReq"
    BY <1>1, <2>5 DEF ServedBy, OpAt, Stands
  <2>. QED  BY <2>5, <2>7, <2>8, <2>9, <2>10 DEF ServedBy
<1>. QED  BY <1>1 DEF NoStaleAccess

LEMMA AssertsHold ==
  ASSUME IInv, WritebackFirst
  PROVE  AssertionsHold
<1>1. ASSUME NEW c \in Caches, NEW next, next = GetNextMSHR(cache[c]),
             NEW snooped, snooped = Snooped(c, next[2], GetBusPacket(cache[c], next[2]))
      PROVE  /\ SendAsserts(cache[c], next)
             /\ next[1] = "miss" => Cardinality({d \in DOMAIN snooped : snooped[d].inhibit}) <= 1
  <2>1. PICK k, a : k = cache[c] /\ a = next[2]
    OBVIOUS
  <2>2. k \in CacheType /\ LocalOK(k)
    BY <2>1 DEF IInv, TypeOK
  <2>3. /\ next[1] = "miss" => a \in Addrs /\ Pending(k, a)
        /\ next[1] = "wb" => a \in Addrs /\ k.wb[a] # NoWB
        /\ next[1] \in {"none", "miss", "wb"}
    BY <1>1, <2>1, <2>2, NextFacts
  <2>4. CASE next[1] = "none"
    BY <2>4 DEF SendAsserts
  <2>5. CASE next[1] = "wb"
    <3>1. PICK B, M, X, A : CohState(a, B, M, X, A)
      BY <2>3, <2>5, CohStates
    <3>2. ~Valid(k.blk[a])
      BY <2>1, <2>3, <2>5, <3>1 DEF CohState, Coh, OwnerInv
    <3>. QED  BY <2>1, <2>5, <3>2 DEF SendAsserts, ValidIn, Valid
  <2>6. CASE next[1] = "miss"
    <3>1. PICK cmd : cmd = GetBusPacket(k, a)
      OBVIOUS
    <3>2. cmd \in BusCommands /\ ~Writable(k.blk[a])
      BY <2>2, <2>3, <2>6, <3>1, PacketFacts
    <3>3. Valid(k.blk[a]) => ListNeedsExclusive(k.mshr[a].targets)
      BY <2>2, <2>3, <2>6 DEF LocalOK, LineOK, Pending, Valid
    <3>4. SendAsserts(cache[c], next)
      BY <2>1, <2>6, <3>2, <3>3 DEF SendAsserts, ValidIn, Valid, Writable
    <3>5. PICK B, M, X, A : CohState(a, B, M, X, A)
      BY <2>3, <2>6, CohStates
    <3>6. ASSUME NEW d \in DOMAIN snooped
          PROVE  d \in Caches /\ (snooped[d].inhibit => Inhibits(B[d], M[d], X[d]))
      <4>1. d \in Caches /\ snooped[d] = RecvTimingSnoopReq(cache[d], a, c, cmd)
        BY <1>1, <2>1, <3>1, <3>6 DEF Snooped
      <4>2. SnoopedAs(snooped[d], cache[d], a, c, cmd, latest[a])
        BY <2>3, <2>6, <3>2, <4>1, SnoopOther
      <4>. QED  BY <3>5, <4>1, <4>2 DEF SnoopedAs, CohState
    <3>7. \A x, y \in {d \in DOMAIN snooped : snooped[d].inhibit} : x = y
      BY <3>5, <3>6, OneSupplier
    <3>. QED  BY <3>4, <3>7, AtMostOne
  <2>. QED  BY <2>3, <2>4, <2>5, <2>6
<1>2. \A c \in Caches : \A a \in ValidIn(cache[c]) :
        "R" \notin cache[c].blk[a].status => cache[c].mshr[a] # NoMSHR
  BY DEF IInv, LocalOK, LineOK, ValidIn
<1>3. \A c \in Caches, a \in Addrs :
        Responded(c, a) => \A result \in Outcomes(c, a) : result.asserts
  BY RespReady, RespTaken DEF Outcomes, RespSeen
<1>. QED  BY <1>1, <1>2, <1>3 DEF AssertionsHold
-----------------------------------------------------------------------------
(* The properties, while no request is in service for a block whose        *)
(* writeback waits.                                                        *)

(* The state of every cache, every access and every answer under way keeps *)
(* its type.                                                               *)
THEOREM TypeCorrect == Spec /\ []WritebackFirst => []TypeOK
<1>1. IInv /\ WritebackFirst => TypeOK
  BY LocalHolds
<1>. QED  BY <1>1, InvariantHolds, PTL

(* Responses, writebacks and dirty blocks: one place at most owns a block, *)
(* the memory is up to date when none does, and a copy that may be written *)
(* is the only one (handleSnoop(), handleFill(), writebackBlk()).          *)
THEOREM OwnerIsOne == Spec /\ []WritebackFirst => []OneOwner
<1>1. IInv /\ WritebackFirst => OneOwner
  BY OwnerHolds
<1>. QED  BY <1>1, InvariantHolds, PTL

(* Every valid copy contains every write that was ever done, however       *)
(* fills, snoops and deferred snoops interleave.                           *)
THEOREM CopiesAreCurrent == Spec /\ []WritebackFirst => []CopiesCurrent
<1>1. IInv /\ WritebackFirst => CopiesCurrent
  BY CopiesHold
<1>. QED  BY <1>1, InvariantHolds, PTL

(* recvTimingResp() serves an access that waited with data at least as new *)
(* as when it was issued, and a write comes on top of them.                *)
THEOREM NoAccessIsStale == Spec /\ []WritebackFirst => []NoStaleAccess
<1>1. IInv /\ WritebackFirst => NoStaleAccess
  BY StaleHolds
<1>. QED  BY <1>1, InvariantHolds, PTL

(* The bytes of a lock (trackLoadLocked()) are as the load locked saw      *)
(* them: stores that overlap it erase it (clearLoadLocks()), and those of  *)
(* other processors take the block away.                                   *)
THEOREM LocksAreHeld == Spec /\ []WritebackFirst => []LocksHold
<1>1. IInv /\ WritebackFirst => LocksHold
  BY LocalHolds
<1>. QED  BY <1>1, InvariantHolds, PTL

(* A request waits to be sent once, or is answered once: by the memory, a  *)
(* response under way or the one cache that deferred its snoop; deferred   *)
(* snoops form no circle (MSHR::handleSnoop(), recvTimingResp()).          *)
THEOREM AnswerIsOne == Spec /\ []WritebackFirst => []OneAnswer
<1>1. IInv /\ WritebackFirst => OneAnswer
  BY AnswerHolds
<1>. QED  BY <1>1, InvariantHolds, PTL

(* The processor is shut out only for a reason that still holds            *)
(* (setBlocked(), clearBlocked()).                                         *)
THEOREM BlockedForCause == Spec /\ []WritebackFirst => []BlockedHasCause
<1>1. IInv /\ WritebackFirst => BlockedHasCause
  BY LocalHolds
<1>. QED  BY <1>1, InvariantHolds, PTL

(* incSetLine() and decSetLine() count the valid lines of each memory.     *)
THEOREM LinesAreCounted == Spec /\ []WritebackFirst => []LinesCounted
<1>1. IInv /\ WritebackFirst => LinesCounted
  BY LocalHolds
<1>. QED  BY <1>1, InvariantHolds, PTL

(* No assertion of the cache or the crossbar fails.                        *)
THEOREM AssertionsAreTrue == Spec /\ []WritebackFirst => []AssertionsHold
<1>1. IInv /\ WritebackFirst => AssertionsHold
  BY AssertsHold
<1>. QED  BY <1>1, InvariantHolds, PTL

-----------------------------------------------------------------------------
(* The writeback of a block goes before a request for it.                  *)

(* A miss without an MSHR for the block, or with one. *)
LEMMA MissAloneOrder ==
  ASSUME NEW k \in CacheType, NEW a \in Addrs, NEW o, NEW cmd, NEW req, NEW kk, kk = MissAlone(k, a, o, cmd, req),
         NEW x \in Addrs
  PROVE  OrderKept(kk, k, x)
<1>1. PICK n : n = [k EXCEPT !.blk[a].status = @ \ {"R"}, !.mshr[a] = NewMSHR(o, cmd, req),
                             !.unripe = Append(@, Token("miss", a))]
  OBVIOUS
<1>2. n.unripe = Append(k.unripe, Token("miss", a)) /\ n.wb = k.wb /\ n.readyMiss = k.readyMiss
  BY <1>1 DEF CacheType
<1>3. kk = n \/ kk = [n EXCEPT !.blocked = @ \cup {"NoMSHRs"}]
  BY <1>1, Zenon DEF MissAlone
<1>4. kk.unripe = n.unripe /\ kk.wb = n.wb /\ kk.readyMiss = n.readyMiss
  BY <1>1, <1>3 DEF CacheType
<1>5. Token("miss", a) # Token("wb", x)
  BY TokenFacts
<1>. QED  BY <1>2, <1>4, <1>5, KeptAppend

(* A miss of a block that has an MSHR keeps every list as it is ordered. *)
LEMMA MissToMSHROrder ==
  ASSUME NEW k \in CacheType, NEW a \in Addrs, NEW o, NEW cmd, NEW req, NEW kk, kk = MissToMSHR(k, a, o, cmd, req),
         NEW x \in Addrs
  PROVE  OrderKept(kk, k, x)
<1>1. PICK n : n = AllocateTarget(k, a, o, cmd, req)
  OBVIOUS
<1>2. /\ n.wb = k.wb /\ n.readyMiss = k.readyMiss /\ DOMAIN n = DOMAIN k
      /\ n.unripe = k.unripe \/ n.unripe = Append(k.unripe, Token("deferred", a))
  <2>1. CASE MustDefer(k.mshr[a], cmd)
    <3>1. PICK u, d : n = [k EXCEPT !.mshr[a].deferred = d, !.unripe = u]
                      /\ (u = k.unripe \/ u = Append(k.unripe, Token("deferred", a)))
      BY <1>1, <2>1 DEF AllocateTarget
    <3>. QED  BY <3>1 DEF CacheType
  <2>2. CASE ~MustDefer(k.mshr[a], cmd)
    <3>1. PICK d : n = [k EXCEPT !.mshr[a].targets = d]
      BY <1>1, <2>2 DEF AllocateTarget
    <3>. QED  BY <3>1 DEF CacheType
  <2>. QED  BY <2>1, <2>2
<1>3. kk = n \/ kk = [n EXCEPT !.noTargetMSHR = a, !.blocked = @ \cup {"NoTargets"}]
  BY <1>1, Zenon DEF MissToMSHR
<1>4. kk.unripe = n.unripe /\ kk.wb = n.wb /\ kk.readyMiss = n.readyMiss
  BY <1>2, <1>3 DEF CacheType
<1>5. Token("deferred", a) # Token("wb", x)
  BY TokenFacts
<1>6. CASE n.unripe = k.unripe
  BY <1>2, <1>4, <1>6, KeptSame
<1>7. CASE n.unripe = Append(k.unripe, Token("deferred", a))
  BY <1>2, <1>4, <1>5, <1>7, KeptAppend
<1>. QED  BY <1>2, <1>6, <1>7

(* A miss, either way. *)
LEMMA MissOrder ==
  ASSUME NEW k \in CacheType, NEW a \in Addrs, NEW o, NEW cmd, NEW req, NEW kk, kk = Miss(k, a, o, cmd, req),
         NEW x \in Addrs
  PROVE  OrderKept(kk, k, x)
BY MissAloneOrder, MissToMSHROrder DEF Miss

(* A request is sent. *)
LEMMA MarkOrder ==
  ASSUME NEW k \in CacheType, NEW a \in Addrs, NEW shared, NEW inhibit,
         NEW kk, kk = MarkInService(k, a, shared, inhibit)
  PROVE  /\ kk.wb = k.wb
         /\ \A x \in Addrs : x # a => OrderKept(kk, k, x) /\ kk.mshr[x] = k.mshr[x]
<1>1. PICK s : s = Unqueue(k, "miss", a)
  OBVIOUS
<1>2. /\ s \in CacheType /\ s.wb = k.wb /\ s.mshr = k.mshr
      /\ s.unripe = RemoveFirst(k.unripe, Token("miss", a))
      /\ s.readyMiss = RemoveFirst(k.readyMiss, a)
  BY <1>1, UnqueueFacts
<1>3. PICK yes, d, no : kk = [s EXCEPT !.mshr[a].inService = yes, !.mshr[a].pendingDirty = d,
                                       !.mshr[a].postInvalidate = no, !.mshr[a].postDowngrade = no]
  BY <1>1, Zenon DEF MarkInService
<1>4. /\ kk.unripe = s.unripe /\ kk.wb = s.wb /\ kk.readyMiss = s.readyMiss
  BY <1>2, <1>3 DEF CacheType
<1>5. \A x \in Addrs : x # a => kk.mshr[x] = k.mshr[x]
  BY <1>2, <1>3 DEF CacheType
<1>6. ASSUME NEW x \in Addrs, x # a PROVE OrderKept(kk, k, x) /\ kk.mshr[x] = k.mshr[x]
  <2>1. Token("miss", a) # Token("wb", x)
    BY TokenFacts
  <2>2. On(s.readyMiss, x) => On(k.readyMiss, x)
    BY <1>2, <1>6, ListTypes, RemoveFirstFacts
  <2>3. OrderKept(kk, k, x)
    BY <1>2, <1>4, <2>1, <2>2, KeptRemove
  <2>4. kk.mshr[x] = k.mshr[x]
    BY <1>4, <1>5, <1>6
  <2>. QED  BY <2>3, <2>4
<1>. QED  BY <1>2, <1>4, <1>6

(* A writeback is sent or dropped. *)
LEMMA ReleaseOrder ==
  ASSUME NEW k \in CacheType, NEW a \in Addrs, NEW kk, kk = ReleaseWriteBuffer(k, a), NEW x \in Addrs
  PROVE  OrderKept(kk, k, x)
<1>1. /\ kk.wb = [k.wb EXCEPT ![a] = NoWB] /\ kk.readyMiss = k.readyMiss
      /\ kk.unripe = RemoveFirst(k.unripe, Token("wb", a))
  BY ReleaseFacts
<1>2. k.wb \in [Addrs -> WBType \cup {NoWB}]
  BY DEF CacheType
<1>3. CASE x = a
  BY <1>1, <1>2, <1>3 DEF OrderKept
<1>4. CASE x # a
  <2>1. kk.wb[x] = k.wb[x] /\ Token("wb", a) # Token("wb", x)
    BY <1>1, <1>2, <1>4, TokenFacts
  <2>. QED  BY <1>1, <2>1, KeptRemove
<1>. QED  BY <1>3, <1>4

(* A snoop takes the writeback of its block away, or nothing. *)
LEMMA SnoopOrder ==
  ASSUME NEW k \in CacheType, LocalOK(k), NEW a \in Addrs, NEW c \in Caches, NEW cmd \in BusCommands,
         Valid(k.blk[a]) => k.wb[a] = NoWB,
         NEW s, s = RecvTimingSnoopReq(k, a, c, cmd), NEW x \in Addrs
  PROVE  OrderKept(s.k, k, x)
<1>1. CASE Sent(k.mshr[a])
  <2>1. s.k = [k EXCEPT !.mshr[a] = MSHRHandleSnoop(k.mshr[a], c, cmd)]
    BY <1>1 DEF RecvTimingSnoopReq, SnoopMSHR, Sent
  <2>2. s.k.wb = k.wb /\ s.k.unripe = k.unripe /\ s.k.readyMiss = k.readyMiss
    BY <2>1 DEF CacheType
  <2>. QED  BY <2>2, KeptSame
<1>2. CASE ~Sent(k.mshr[a])
  <2>1. /\ s.k.wb = IF cmd # "ReadReq" THEN [k.wb EXCEPT ![a] = NoWB] ELSE k.wb
        /\ s.k.readyMiss = k.readyMiss
        /\ s.k.unripe = IF k.wb[a] # NoWB /\ cmd # "ReadReq"
                        THEN RemoveFirst(k.unripe, Token("wb", a)) ELSE k.unripe
    <3>1. SnoopNowResult(s, k, a, c, cmd)
      BY <1>2, SnoopNowLocal
    <3>. QED  BY <3>1, Zenon DEF SnoopNowResult
  <2>2. k.wb \in [Addrs -> WBType \cup {NoWB}]
    BY DEF CacheType
  <2>3. CASE x = a /\ cmd # "ReadReq"
    <3>1. s.k.wb[x] = NoWB
      BY <2>1, <2>2, <2>3
    <3>. QED  BY <3>1 DEF OrderKept
  <2>4. CASE x # a /\ cmd # "ReadReq"
    <3>1. s.k.wb[x] = k.wb[x] /\ Token("wb", a) # Token("wb", x)
      BY <2>1, <2>2, <2>4, TokenFacts
    <3>2. CASE k.wb[a] # NoWB
      BY <2>1, <2>4, <3>1, <3>2, KeptRemove
    <3>3. CASE k.wb[a] = NoWB
      BY <2>1, <3>1, <3>3, KeptSame
    <3>. QED  BY <3>2, <3>3
  <2>5. CASE cmd = "ReadReq"
    BY <2>1, <2>5, KeptSame
  <2>. QED  BY <2>3, <2>4, <2>5
<1>. QED  BY <1>1, <1>2

(* Time passes: a writeback leaves the list in the order of time before a  *)
(* request for its block does.                                             *)
LEMMA RipenOrder ==
  ASSUME NEW k \in CacheType, LocalOK(k), k.unripe # << >>, NEW x \in Addrs, OrderAt(k, x),
         NEW kk, kk = Ripen(k)
  PROVE  OrderAt(kk, x)
<1>1. PICK u \in Seq(Tokens) : u = k.unripe /\ u # << >>
  BY ListTypes
<1>2. PICK kind \in {"miss", "wb", "deferred"}, a \in Addrs : Head(u) = Token(kind, a)
  <2>1. Head(u) \in Tokens
    BY <1>1, TailOn
  <2>. QED  BY <2>1, TokenFacts
<1>3. /\ kk.mshr = k.mshr /\ kk.wb = k.wb /\ kk.unripe = Tail(u)
      /\ kk.readyMiss = IF kind = "miss" THEN Append(k.readyMiss, a) ELSE k.readyMiss
  BY <1>1, <1>2, RipenFacts
<1>. SUFFICES ASSUME k.wb[x] # NoWB PROVE OrderAt(kk, x)
  BY <1>3 DEF OrderAt
<1>4. PICK p, q : p = Token("wb", x) /\ q = Token("miss", x)
  OBVIOUS
<1>5. /\ k.wb[x].older = {} /\ ~Sent(k.mshr[x])
      /\ On(u, p) => ~On(k.readyMiss, x)
      /\ Before(u, p, q)
  BY <1>1, <1>4 DEF OrderAt
<1>6. Before(Tail(u), p, q) /\ (Head(u) = q => ~On(Tail(u), p))
  BY <1>1, <1>5, BeforeTail
<1>7. Once(u, p)
  BY <1>1, <1>4 DEF LocalOK, QueueOK, ListOK
<1>8. On(Tail(u), p) => On(u, p)
  BY <1>1, <1>7, TailOn
<1>9. ASSUME On(Tail(u), p) PROVE ~On(kk.readyMiss, x)
  <2>1. Head(u) # q
    BY <1>6, <1>9
  <2>2. ~(kind = "miss" /\ a = x)
    BY <1>2, <1>4, <2>1
  <2>3. k.readyMiss \in Seq(Addrs)
    BY ListTypes
  <2>. QED  BY <1>3, <1>5, <1>8, <1>9, <2>2, <2>3, AppendOn
<1>. QED  BY <1>3, <1>4, <1>5, <1>6, <1>9, Zenon DEF OrderAt

(* getNextMSHR() chooses a request only if its block has no writeback.     *)
LEMMA NextOrder ==
  ASSUME NEW k \in CacheType, LocalOK(k), \A x \in Addrs : OrderAt(k, x),
         NEW next, next = GetNextMSHR(k), next[1] = "miss"
  PROVE  k.wb[next[2]] = NoWB
<1>1. k.readyMiss \in Seq(Addrs) /\ k.readyWB \in Seq(Addrs)
  BY ListTypes
<1>2. PICK miss, write : miss = Head(k.readyMiss) /\ write = Head(k.readyWB)
  OBVIOUS
<1>3. next = CASE k.readyMiss = << >> /\ k.readyWB = << >> -> Token("none", NoMSHR)
       [] k.readyMiss # << >> /\ k.readyWB = << >> -> Token("miss", miss)
       [] k.readyMiss = << >> /\ k.readyWB # << >> -> Token("wb", write)
       [] OTHER ->
            IF WBFull(k)
            THEN Token(IF OlderThanWB(k, write) THEN "miss" ELSE "wb", write)
            ELSE Token(IF k.wb[miss] # NoWB THEN "wb" ELSE "miss", miss)
  BY <1>2 DEF GetNextMSHR
<1>4. \A j, a : Token(j, a)[1] = j /\ Token(j, a)[2] = a
  BY DEF Token
<1>5. CASE k.readyMiss = << >>
  BY <1>3, <1>4, <1>5
<1>6. CASE k.readyMiss # << >> /\ k.readyWB = << >>
  <2>1. miss \in Addrs /\ On(k.readyMiss, miss)
    BY <1>1, <1>2, <1>6, TailOn
  <2>2. ~On(k.readyWB, miss)
    BY <1>6 DEF On
  <2>3. k.wb[miss] # NoWB => On(k.unripe, Token("wb", miss))
    BY <2>1, <2>2 DEF LocalOK, QueueOK, ListOK
  <2>4. k.wb[miss] = NoWB
    BY <2>1, <2>3 DEF OrderAt
  <2>. QED  BY <1>3, <1>4, <1>6, <2>4
<1>7. CASE k.readyMiss # << >> /\ k.readyWB # << >>
  <2>1. next = IF WBFull(k) THEN Token(IF OlderThanWB(k, write) THEN "miss" ELSE "wb", write)
               ELSE Token(IF k.wb[miss] # NoWB THEN "wb" ELSE "miss", miss)
    BY <1>3, <1>7
  <2>2. CASE WBFull(k)
    <3>1. write \in Addrs /\ On(k.readyWB, write)
      BY <1>1, <1>2, <1>7, TailOn
    <3>2. k.wb[write] # NoWB
      BY <3>1 DEF LocalOK, QueueOK, ListOK
    <3>3. ~OlderThanWB(k, write)
      BY <3>1, <3>2 DEF OrderAt, OlderThanWB
    <3>. QED  BY <1>4, <2>1, <2>2, <3>3
  <2>3. CASE ~WBFull(k)
    BY <1>4, <2>1, <2>3
  <2>. QED  BY <2>2, <2>3
<1>. QED  BY <1>5, <1>6, <1>7

-----------------------------------------------------------------------------
(* A processor has two accesses under way at most. *)
TwoAccesses ==
  \A o, p, q \in Ops : CpuOf[o] = CpuOf[p] /\ CpuOf[p] = CpuOf[q] => o = p \/ p = q \/ o = q

(* Every writeback is in order. *)
OrderInv == \A c \in Caches, a \in Addrs : OrderAt(cache[c], a)

(* A writeback in order goes first. *)
LEMMA OrderFirst ==
  ASSUME OrderInv
  PROVE  WritebackFirst
BY Zenon DEF OrderInv, OrderAt, WritebackFirst, InService, Sent

(* The same of the next state. *)
LEMMA OrderFirstNext ==
  ASSUME OrderInv'
  PROVE  WritebackFirst'
BY Zenon DEF OrderInv, OrderAt, WritebackFirst, InService, Sent

(* Only one cache changes. *)
LEMMA OrderOne ==
  ASSUME IInv, OrderInv, NEW c \in Caches, NEW k, cache' = [cache EXCEPT ![c] = k],
         \A x \in Addrs : OrderAt(k, x)
  PROVE  OrderInv'
<1>1. cache'[c] = k /\ \A d \in Caches \ {c} : cache'[d] = cache[d]
  BY DEF IInv, TypeOK
<1>2. ASSUME NEW d \in Caches, NEW x \in Addrs PROVE OrderAt(cache'[d], x)
  BY <1>1, <1>2 DEF OrderInv
<1>. QED  BY <1>2 DEF OrderInv

(* A hit changes no list. *)
LEMMA HitKeepsOrder ==
  ASSUME IInv, OrderInv, NEW o \in Ops, NEW cmd, NEW req, NEW a \in Addrs,
         AccessHits(o, cmd, a, req)
  PROVE  OrderInv'
<1>1. PICK c \in Caches : c = CpuOf[o]
  BY CoherentAssumption
<1>2. PICK k, b : k = [cache[c] EXCEPT !.blk[a] = b] /\ cache' = [cache EXCEPT ![c] = k]
  BY <1>1 DEF AccessHits, IInv, TypeOK
<1>3. cache[c] \in CacheType
  BY DEF IInv, TypeOK
<1>4. /\ k.wb = cache[c].wb /\ k.mshr = cache[c].mshr
      /\ k.unripe = cache[c].unripe /\ k.readyMiss = cache[c].readyMiss
  BY <1>2, <1>3 DEF CacheType
<1>5. \A x \in Addrs : OrderAt(k, x)
  BY <1>4, Zenon DEF OrderInv, OrderAt
<1>. QED  BY <1>2, <1>5, OrderOne

(* A miss waits behind the writeback of its block. *)
LEMMA MissKeepsOrder ==
  ASSUME IInv, OrderInv, NEW o \in Ops, NEW cmd \in CpuCommands, NEW req \in Requests, NEW a \in Addrs,
         AccessMisses(o, cmd, a, req)
  PROVE  OrderInv'
<1>1. PICK c \in Caches : c = CpuOf[o]
  BY CoherentAssumption
<1>2. PICK q, k : q = cache[c] /\ k = Miss(q, a, o, cmd, req)
  OBVIOUS
<1>3. cache' = [cache EXCEPT ![c] = k] /\ ~Hit(q, cmd, a)
  BY <1>1, <1>2 DEF AccessMisses
<1>4. q \in CacheType /\ LocalOK(q)
  BY <1>2 DEF IInv, TypeOK
<1>5. ASSUME NEW x \in Addrs PROVE OrderAt(k, x)
  <2>1. OrderAt(q, x) /\ OrderKept(k, q, x)
    BY <1>2, <1>4, MissOrder DEF OrderInv
  <2>2. MissResult(k, q, a, o, cmd, req)
    BY <1>2, <1>3, <1>4, MissFacts
  <2>3. Sent(k.mshr[x]) => Sent(q.mshr[x])
    BY <2>2, Zenon DEF MissResult
  <2>. QED  BY <2>1, <2>3, KeptOrder
<1>. QED  BY <1>3, <1>5, OrderOne

(* Time passes in one cache. *)
LEMMA TimeKeepsOrder ==
  ASSUME IInv, OrderInv, NEW c \in Caches, TimePasses(c)
  PROVE  OrderInv'
<1>1. PICK q, k : q = cache[c] /\ k = Ripen(q)
  OBVIOUS
<1>2. q \in CacheType /\ LocalOK(q) /\ q.unripe # << >> /\ cache' = [cache EXCEPT ![c] = k]
  BY <1>1 DEF IInv, TypeOK, TimePasses
<1>3. \A x \in Addrs : OrderAt(k, x)
  BY <1>1, <1>2, RipenOrder DEF OrderInv
<1>. QED  BY <1>2, <1>3, OrderOne

(* The writeback that is sent is gone. *)
LEMMA WritebackKeepsOrder ==
  ASSUME IInv, OrderInv, NEW c \in Caches, SendWriteback(c)
  PROVE  OrderInv'
<1>1. PICK q, next : q = cache[c] /\ next = GetNextMSHR(q)
  OBVIOUS
<1>2. q \in CacheType /\ LocalOK(q) /\ next[1] = "wb"
  BY <1>1 DEF IInv, TypeOK, SendWriteback
<1>3. PICK a \in Addrs : a = next[2]
  BY <1>1, <1>2, NextFacts
<1>4. PICK k : k = ReleaseWriteBuffer(q, a)
  OBVIOUS
<1>5. cache' = [cache EXCEPT ![c] = k]
  BY <1>1, <1>3, <1>4 DEF SendWriteback
<1>6. k.mshr = q.mshr
  BY <1>2, <1>4, ReleaseFacts
<1>7. ASSUME NEW x \in Addrs PROVE OrderAt(k, x)
  <2>1. OrderAt(q, x) /\ OrderKept(k, q, x)
    BY <1>1, <1>2, <1>4, ReleaseOrder DEF OrderInv
  <2>. QED  BY <1>6, <2>1, KeptOrder
<1>. QED  BY <1>5, <1>7, OrderOne

(* The caches that snoop a request keep their writebacks in order. *)
LEMMA SnoopKeepsOrder ==
  ASSUME IInv, OrderInv, NEW c \in Caches, NEW d \in Caches, NEW a \in Addrs, NEW cmd \in BusCommands,
         NEW s, s = RecvTimingSnoopReq(cache[d], a, c, cmd), NEW x \in Addrs
  PROVE  OrderAt(s.k, x)
<1>1. PICK q : q = cache[d]
  OBVIOUS
<1>2. q \in CacheType /\ LocalOK(q) /\ OrderAt(q, x)
  BY <1>1 DEF IInv, TypeOK, OrderInv
<1>3. Valid(q.blk[a]) => q.wb[a] = NoWB
  <2>1. PICK B, M, X, A : CohState(a, B, M, X, A)
    BY CohStates
  <2>. QED  BY <1>1, <2>1 DEF CohState, Coh, OwnerInv
<1>4. OrderKept(s.k, q, x)
  BY <1>1, <1>2, <1>3, SnoopOrder
<1>5. SnoopedAs(s, q, a, c, cmd, latest[a])
  BY <1>1, SnoopOther
<1>6. Sent(s.k.mshr[x]) => Sent(q.mshr[x])
  <2>1. CASE x = a
    <3>1. SeesSnoop(q.blk[a], q.mshr[a], s.k.blk[a], s.k.mshr[a], c, cmd)
      BY <1>1, <1>5, SnoopSeen
    <3>. QED  BY <2>1, <3>1 DEF SeesSnoop
  <2>2. CASE x # a
    BY <1>5, <2>2 DEF SnoopedAs
  <2>. QED  BY <2>1, <2>2
<1>. QED  BY <1>2, <1>4, <1>6, KeptOrder

(* A request that is sent has no writeback of its block to wait for. *)
LEMMA SendKeepsOrder ==
  ASSUME IInv, OrderInv, NEW c \in Caches, SendMiss(c) \/ SendRefused(c)
  PROVE  OrderInv'
<1>1. PICK q, next : q = cache[c] /\ next = GetNextMSHR(q)
  OBVIOUS
<1>2. q \in CacheType /\ LocalOK(q) /\ next[1] = "miss"
  BY <1>1 DEF IInv, TypeOK, SendMiss, SendRefused
<1>3. PICK a \in Addrs : a = next[2] /\ Pending(q, a) /\ q.wb[a] = NoWB
  <2>1. \A x \in Addrs : OrderAt(q, x)
    BY <1>1 DEF OrderInv
  <2>. QED  BY <1>1, <1>2, <2>1, NextFacts, NextOrder
<1>4. PICK cmd, sn : cmd = GetBusPacket(q, a) /\ sn = Snooped(c, a, cmd)
  OBVIOUS
<1>5. cmd \in BusCommands
  BY <1>2, <1>3, <1>4, PacketFacts
<1>6. PICK k : /\ k = q \/ k = MarkInService(q, a, Shared(sn), Inhibited(sn))
               /\ cache' = [d \in Caches |-> IF d = c THEN k ELSE sn[d].k]
  BY <1>1, <1>3, <1>4 DEF SendMiss, SendRefused
<1>7. ASSUME NEW d \in Caches, d # c, NEW x \in Addrs PROVE OrderAt(cache'[d], x)
  <2>1. cache'[d] = sn[d].k /\ sn[d] = RecvTimingSnoopReq(cache[d], a, c, cmd)
    BY <1>4, <1>6, <1>7 DEF Snooped
  <2>. QED  BY <1>5, <2>1, SnoopKeepsOrder
<1>8. ASSUME NEW x \in Addrs PROVE OrderAt(cache'[c], x)
  <2>1. cache'[c] = k /\ OrderAt(q, x)
    BY <1>1, <1>6 DEF OrderInv
  <2>2. CASE k = q
    BY <2>1, <2>2
  <2>3. CASE k = MarkInService(q, a, Shared(sn), Inhibited(sn))
    <3>1. /\ k.wb = q.wb
          /\ x # a => OrderKept(k, q, x) /\ k.mshr[x] = q.mshr[x]
      BY <1>2, <2>3, MarkOrder
    <3>2. CASE x = a
      BY <1>3, <2>1, <3>1, <3>2 DEF OrderAt
    <3>3. CASE x # a
      BY <2>1, <3>1, <3>3, KeptOrder
    <3>. QED  BY <3>2, <3>3
  <2>. QED  BY <1>6, <2>2, <2>3
<1>. QED  BY <1>7, <1>8 DEF OrderInv

(* The block that has arrived, the target that still waits for it and the  *)
(* block that would be replaced stand for three accesses of one processor. *)
LEMMA NoLateTarget ==
  ASSUME IInv, TwoAccesses, NEW c \in Caches, NEW a \in Addrs, NEW b \in Addrs, a # b,
         cache[c].mshr[a] # NoMSHR, cache[c].mshr[b] # NoMSHR
  PROVE  cache[c].mshr[a].deferred = << >>
<1>1. PICK m, n : m = cache[c].mshr[a] /\ n = cache[c].mshr[b]
  OBVIOUS
<1>2. m \in MSHRType /\ MSHROK(m) /\ n \in MSHRType /\ MSHROK(n)
  BY <1>1, Unpack DEF Has
<1>3. OpsOK(c, a, m, op, latest[a])
  BY <1>1 DEF IInv, OpInv
<1>. SUFFICES ASSUME m.deferred # << >> PROVE FALSE
  BY <1>1
<1>4. 1 \in 1 .. Len(m.targets) /\ 1 \in 1 .. Len(m.deferred) /\ 1 \in 1 .. Len(n.targets)
  <2>1. m.targets \in Seq(TargetType) /\ m.deferred \in Seq(TargetType) /\ n.targets \in Seq(TargetType)
    BY <1>2 DEF MSHRType
  <2>2. m.targets # << >> /\ n.targets # << >>
    BY <1>2 DEF MSHROK
  <2>. QED  BY <2>1, <2>2
<1>5. PICK o, p, q : o = m.targets[1].who /\ p = m.deferred[1].who /\ q = n.targets[1].who
  OBVIOUS
<1>6. CpuOn(m.targets, o) /\ CpuOn(m.deferred, p) /\ CpuOn(n.targets, q)
  BY <1>2, <1>4, <1>5 DEF MSHROK, CpuOn
<1>7. /\ Known(o, c, a, op, latest[a]) /\ Known(p, c, a, op, latest[a])
      /\ Known(q, c, b, op, latest[b])
  BY <1>1, <1>2, <1>6, WaitsKnown DEF Waits
<1>8. o # p
  BY <1>3, <1>6 DEF OpsOK
<1>9. q # o /\ q # p
  BY <1>7 DEF Known
<1>. QED  BY <1>7, <1>8, <1>9 DEF Known, TwoAccesses

(* A block without an MSHR is on no list. *)
LEMMA AloneInOrder ==
  ASSUME NEW k, NEW x, QueueOK(k, x), k.mshr[x] = NoMSHR, k.wb[x].older = {}
  PROVE  OrderAt(k, x)
<1>1. ~On(k.unripe, Token("miss", x)) /\ ~On(k.readyMiss, x)
  BY DEF QueueOK, ListOK, Pending
<1>2. Before(k.unripe, Token("wb", x), Token("miss", x))
  BY <1>1, Zenon DEF Before, On
<1>. QED  BY <1>1, <1>2, Zenon DEF OrderAt, Sent

(* The writeback of a victim has no access that is older than it. *)
LEMMA RespKeepsOrder ==
  ASSUME IInv, OrderInv, TwoAccesses, NEW c \in Caches, NEW a \in Addrs,
         NEW victim \in Victims(cache[c], a), RecvResp(c, a, victim)
  PROVE  OrderInv'
<1>1. WritebackFirst
  BY OrderFirst
<1>2. PICK q, res : q = cache[c] /\ res = RecvTimingResp(q, a, answer[c][a], victim)
  OBVIOUS
<1>3. Responded(c, a) /\ cache' = [cache EXCEPT ![c] = res.k]
  BY <1>2 DEF RecvResp
<1>4. Ready(c, a)
  BY <1>1, <1>3, RespReady
<1>5. PICK n, w, e, temp : RespSeen(res, c, a, victim, n, w, e, temp)
  BY <1>2, <1>4, RespTaken
<1>6. PICK k : k = res.k
  OBVIOUS
<1>7. /\ n = MSHRHandleFill(q.mshr[a], answer[c][a])
      /\ temp <=> victim # a /\ q.mshr[victim] # NoMSHR
      /\ victim \in Addrs /\ RespKeeps(k, q, a, n, temp)
      /\ \A x \in Addrs : QueueOK(k, x)
      /\ k.mshr[a] = Promoted(n) /\ \A x \in Addrs : x # a => k.mshr[x] = q.mshr[x]
  <2>1. /\ n = MSHRHandleFill(q.mshr[a], answer[c][a])
        /\ temp <=> victim # a /\ q.mshr[victim] # NoMSHR
        /\ RespResult(k, res, q, a, answer[c][a], victim, n, w, e, temp)
    BY <1>2, <1>5, <1>6, Zenon DEF RespSeen
  <2>. QED  BY <2>1, Zenon DEF RespResult
<1>8. ASSUME NEW x \in Addrs, x # a PROVE OrderAt(k, x)
  <2>1. OrderKept(k, q, x) \/ (k.wb[x].older = {} /\ k.mshr[x] = NoMSHR)
    BY <1>7, <1>8 DEF RespKeeps
  <2>2. CASE OrderKept(k, q, x)
    <3>1. OrderAt(q, x) /\ k.mshr[x] = q.mshr[x]
      BY <1>2, <1>7, <1>8 DEF OrderInv
    <3>. QED  BY <2>2, <3>1, KeptOrder
  <2>3. CASE k.wb[x].older = {} /\ k.mshr[x] = NoMSHR
    BY <1>7, <2>3, AloneInOrder
  <2>. QED  BY <2>1, <2>2, <2>3
<1>9. OrderAt(k, a)
  <2>. SUFFICES ASSUME k.wb[a] # NoWB PROVE OrderAt(k, a)
    BY DEF OrderAt
  <2>1. temp /\ (n.deferred = << >> => k.wb[a].older = {})
    BY <1>7 DEF RespKeeps
  <2>2. q.mshr[a] \in MSHRType /\ MSHROK(q.mshr[a]) /\ q.mshr[a].inService /\ q.mshr[a] # NoMSHR
    BY <1>2, <1>4, NullAssumption DEF Ready
  <2>3. q.mshr[a].deferred = << >>
    BY <1>2, <1>7, <2>1, <2>2, NoLateTarget
  <2>4. n # q.mshr[a] => n.deferred = << >>
    BY <1>7, <2>2, HandleFillFacts
  <2>5. n.deferred = << >> /\ k.mshr[a] = NoMSHR
    BY <1>7, <2>3, <2>4 DEF Promoted
  <2>. QED  BY <1>7, <2>1, <2>5, AloneInOrder
<1>. QED  BY <1>3, <1>6, <1>8, <1>9, OrderOne

(* The order of writebacks and requests is kept. *)
LEMMA OrderStep ==
  ASSUME IInv, OrderInv, TwoAccesses, [Next]_vars
  PROVE  OrderInv'
<1>1. CASE \E x \in Accesses : AccessHits(x[1], x[2], x[3], x[4]) \/ AccessMisses(x[1], x[2], x[3], x[4])
  <2>1. PICK x \in Accesses : AccessHits(x[1], x[2], x[3], x[4]) \/ AccessMisses(x[1], x[2], x[3], x[4])
    BY <1>1
  <2>2. x[1] \in Ops /\ x[2] \in CpuCommands /\ x[3] \in Addrs /\ x[4] \in Requests
    BY CoherentAssumption
  <2>. QED  BY <2>1, <2>2, HitKeepsOrder, MissKeepsOrder
<1>2. CASE \E c \in Caches : TimePasses(c) \/ SendMiss(c) \/ SendRefused(c) \/ SendWriteback(c)
  BY <1>2, TimeKeepsOrder, SendKeepsOrder, WritebackKeepsOrder
<1>3. CASE \E c \in Caches, a \in Addrs : MemoryResponds(c, a)
  BY <1>3 DEF MemoryResponds, OrderInv
<1>4. CASE \E c \in Caches, a \in Addrs : \E victim \in Victims(cache[c], a) : RecvResp(c, a, victim)
  BY <1>4, RespKeepsOrder
<1>5. CASE UNCHANGED vars
  BY <1>5 DEF vars, OrderInv
<1>. QED  BY <1>1, <1>2, <1>3, <1>4, <1>5 DEF Next

(* At the start there is no writeback. *)
LEMMA OrderInit ==
  ASSUME Init
  PROVE  OrderInv
<1>1. ASSUME NEW c \in Caches, NEW a \in Addrs PROVE cache[c].wb[a] = NoWB
  BY CoherentAssumption, NewFacts DEF Init
<1>. QED  BY <1>1 DEF OrderInv, OrderAt

(* The writeback of a block goes before a request for it, as the comment   *)
(* in getNextMSHR() wants it, if no processor has three accesses under     *)
(* way: then a writeback never has an older access to wait for.            *)
THEOREM WritebackGoesFirst == TwoAccesses => (Spec => []WritebackFirst)
<1>. SUFFICES ASSUME TwoAccesses PROVE Spec => []WritebackFirst
  OBVIOUS
<1>1. Init => IInv /\ OrderInv
  BY InitStep, OrderInit
<1>2. IInv /\ OrderInv /\ [Next]_vars => IInv' /\ OrderInv'
  <2>. SUFFICES ASSUME IInv, OrderInv, [Next]_vars PROVE IInv' /\ OrderInv'
    OBVIOUS
  <2>1. OrderInv'
    BY OrderStep
  <2>2. WritebackFirst /\ WritebackFirst'
    BY <2>1, OrderFirst, OrderFirstNext
  <2>3. IInv'
    BY <2>2, NextStep
  <2>. QED  BY <2>1, <2>3
<1>3. OrderInv => WritebackFirst
  BY OrderFirst
<1>. QED  BY <1>1, <1>2, <1>3, PTL DEF Spec

(* What the run of the caches checks, together. *)
CachesCorrect ==
  /\ TypeOK /\ OneOwner /\ CopiesCurrent /\ NoStaleAccess /\ LocksHold
  /\ OneAnswer /\ BlockedHasCause /\ LinesCounted /\ AssertionsHold

(* So the caches are correct without a hypothesis on their behaviour, for  *)
(* any number of processors, caches, blocks, MSHRs and buffers, if no      *)
(* processor has three accesses under way.                                 *)
THEOREM CachesAreCorrect == TwoAccesses => (Spec => []CachesCorrect)
<1>. SUFFICES ASSUME TwoAccesses PROVE Spec => []CachesCorrect
  OBVIOUS
<1>1. Spec => []WritebackFirst
  BY WritebackGoesFirst
<1>2. IInv /\ WritebackFirst => CachesCorrect
  BY LocalHolds, OwnerHolds, CopiesHold, StaleHolds, AnswerHolds, AssertsHold DEF CachesCorrect
<1>. QED  BY <1>1, <1>2, InvariantHolds, PTL
=============================================================================
