SPECIFICATION Spec
CONSTANTS
  c1 = c1
  c2 = c2
  c3 = c3
  o1 = o1
  o2 = o2
  o3 = o3
  o4 = o4
  p = p
  q = q
  t1 = t1
  t2 = t2
  t3 = t3
  Caches = {c1, c2}
  Ops = {o1, o2, o3, o4}
  CpuOf <- ThreeWrites
  Accesses <- DeferredWrites
  Addrs = {p, q}
  Pcm = {p}
  Contexts = {t1, t2, t3}
  Requests <- Parts
  Ways = 1
  MSHRs = 3
  TargetsPerMSHR = 3
  WriteBuffers <- OneBuffer
  MaxWrites <- TwoEach
  NoMSHR = NoMSHR
  NoWB = NoWB
  NoOp = NoOp
  NoAnswer = NoAnswer
INVARIANT WritebackFirst
