SPECIFICATION FairSpec
CONSTANTS
  pcm = pcm
  dram = dram
  c1 = c1
  c2 = c2
  NoPkt = NoPkt
  NoPort = NoPort
  QueueSize = 1
  Mems <- OneMem
  Srcs = {c1, c2}
  Packets <- ThreePkts
  PktCmd <- CmdLive
  PktSrc <- SrcLive
  PktMem <- MemLive
PROPERTIES
  EveryPacketAnswered
