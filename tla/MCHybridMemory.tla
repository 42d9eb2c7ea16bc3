--------------------------- MODULE MCHybridMemory ---------------------------
(***************************************************************************)
(* Instances of HybridMemory.  Packets are numbers; the sequences below    *)
(* give the command, the master and the memory of each.                    *)
(***************************************************************************)
EXTENDS HybridMemory

CONSTANTS pcm, dram, c1, c2

(* A PCM alone under three packets of two masters. *)
OneMem == {pcm}
ThreePkts == 1..3
CmdLive == <<"ReadReq", "WriteReq", "ReadReq">>
SrcLive == <<c1, c1, c2>>
MemLive == <<pcm, pcm, pcm>>

(* PCM and DRAM share the response layers; three packets crowd the PCM. *)
TwoMems == {pcm, dram}
FourPkts == 1..4
CmdTwo == <<"ReadReq", "UpgradeReq", "Writeback", "WriteReq">>
SrcTwo == <<c1, c1, c2, c1>>
MemTwo == <<pcm, dram, pcm, pcm>>
=============================================================================
