SPECIFICATION Spec
CONSTANTS
  pcm = pcm
  dram = dram
  c1 = c1
  c2 = c2
  NoPkt = NoPkt
  NoPort = NoPort
  QueueSize = 1
  Mems <- TwoMems
  Srcs = {c1, c2}
  Packets <- FourPkts
  PktCmd <- CmdTwo
  PktSrc <- SrcTwo
  PktMem <- MemTwo
INVARIANTS
  TypeOK
  RetryMatchesLayer
  RetryHasCause
  ClockRuns
  DrainedAtRest
  ResponseHasSender
  OneResponse
PROPERTIES
  LayersImplement
