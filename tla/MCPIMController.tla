--------------------------- MODULE MCPIMController ---------------------------
(***************************************************************************)
(* Two ranks of two banks, each rank one shared PIM block. Addresses x and *)
(* y are two columns of a row, z is another row of their bank, u is in the *)
(* other bank of the block, v in the other rank. The latencies are small   *)
(* but keep the order of the LPDDR5 ones: ACT2 deadline < ACT1-to-column   *)
(* delay < row cycle.                                                      *)
(***************************************************************************)
EXTENDS PIMController

CONSTANTS x, y, z, u, v

MCAddrs == {x, y, z, u, v}
MCBank == [a \in Addrs |-> IF a = u THEN 1 ELSE IF a = v THEN 2 ELSE 0]
MCRow  == [a \in Addrs |-> IF a = z THEN 2 ELSE 1]
MCWck  == [c \in Accesses |-> IF c = "RD" THEN 4 ELSE 3]

T == INSTANCE LPDDR5Timing WITH
       nBLmin <- 1, nBLmax <- 1, nCL <- 2, nCWL <- 1, nRCD <- 5, nRP <- 2, nRPab <- 2,
       nRAS <- 6, nRC <- 8, nWR <- 1, nRTP <- 1, nPPD <- 1, nCCDS <- 1, nCCDL <- 1, 
       nCCDS_WR <- 1, nCCDL_WR <- 1,
       nRRDS <- 1, nRRDL <- 1, nWTRS <- 1, nWTRL <- 1, nRFC <- 4, nCAS <- 0, nCS <- 1,
       nPIM_MAC_II <- 2

MCChannelLat == T!ChannelLatency
MCRankLat    == T!RankLatency
MCBankLat    == T!BankLatency

Offer(finals, addrs) == {[final |-> f, addr |-> a] : f \in finals, a \in addrs}
Same(n, offer) == [i \in 1 .. n |-> offer]

(* u moved to the row of x and y, for work that overlaps in a bank.        *)
MCBankOne == [a \in Addrs |-> IF a = v THEN 2 ELSE 0]

(* lpddr5_pim_concrete_trace.cpp sends one request after the other is      *)
(* answered, except PIM_MACs. All-bank work that need not wait is allowed  *)
(* to queue here, too.                                                     *)
AnyWindow   == [f \in Finals |-> 9]
TraceWindow == [f \in Finals |-> IF f = "PIM_MAC" THEN 2
                                 ELSE IF f \in {"PIM_MAC_AB", "SB"} THEN 2 ELSE 1]

(* Work on three columns of a row, with a row conflict.                    *)
OverlapWork == Same(3, Offer({"PIM_MAC"}, {x, y, u})) \o <<Offer({"PIM_MAC"}, {x}) \cup Offer({"RD"}, {z})>>

(* Requests of all kinds for one rank, work and host reads for the other   *)
(* bank of its block and for the other rank, in any order.                 *)
MixedWork == Same(3, Offer({"PIM_MAC"}, {x, u, v}) \cup Offer({"RD"}, {x, z, v})
                       \cup Offer({"WR", "PIM_BCAST", "PIM_MAC_AB", "SB"}, {x}))
             \o <<Offer({"PIM_MAC"}, {u}) \cup Offer({"RD"}, {z})>>

(* A write buffered while the rank is prepared for all-bank work.          *)
HostThenLoad == <<Offer({"WR"}, {x}), Offer({"PIM_BCAST"}, {x}), Offer({"SB"}, {x})>>

(* A trace validate_sequence accepts.                                      *)
TraceWork ==
  <<Offer({"WR"}, {x}), Offer({"PIM_MAC"}, {u, v}), Offer({"HAB"}, {x}), Offer({"PIM_BCAST"}, {x}),
    Offer({"HAB_PIM"}, {x}), Offer({"PIM_MAC_AB"}, {x}), Offer({"PIM_MAC_AB"}, {x}) \cup Offer({"RD"}, {v}),
    Offer({"SB"}, {x}), Offer({"RD", "PIM_MAC"}, {z})>>
=============================================================================
