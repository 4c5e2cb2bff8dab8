---------------------------- MODULE LPDDR5Timing ----------------------------
(***************************************************************************)
(* The timing-constraint tables of python/ramulator/dram/lpddr5.py and     *)
(* lpddr5_pim.py, for ranks whose banks each sit in a bank group of their  *)
(* own. ACT2, CAS_* and the mode commands follow nothing: activation is    *)
(* timed from ACT1. Auto-precharge and per-bank refresh commands, which    *)
(* the modelled policies do not issue, and the four-activate window (nFAW) *)
(* are left out. So is the occupancy of the command bus: each command      *)
(* takes one cycle, and a cycle issues one command.                        *)
(***************************************************************************)
EXTENDS Integers, FiniteSets

CONSTANTS nBLmin, nBLmax, nCL, nCWL, nRCD, nRP, nRPab, nRAS, nRC, nWR, nRTP, nPPD,
          nCCDS, nCCDL, nCCDS_WR, nCCDL_WR, nRRDS, nRRDL, nWTRS, nWTRL, nRFC, nCAS, nCS,
          nPIM_MAC_II

LOCAL Commands == {"ACT1", "ACT2", "PREpb", "PREab", "CAS_RD", "CAS_WR", "RD", "WR", "REFab",
                   "PIM_MAC", "PIM_MAC_AB", "PIM_BCAST", "SB", "HAB", "HAB_PIM"}
LOCAL Precharges == {"PREpb", "PREab"}

(* Channel level and sibling ranks: these reach the banks of other ranks.  *)
ChannelConstraints ==
  { <<{"RD"}, {"RD"}, nBLmin>>,
    <<{"WR"}, {"WR"}, nBLmin>>,
    <<{"RD"}, {"RD", "WR"}, nBLmin + nCS>>,
    <<{"WR"}, {"RD"}, nCL + nBLmin + nCS - nCWL>> }

(* Channel and Rank level: these reach every bank of the same rank.        *)
RankConstraints ==
  { <<{"RD"}, {"RD"}, nBLmin>>,
    <<{"WR"}, {"WR"}, nBLmin>>,
    <<{"RD"}, {"RD"}, nCCDS>>,
    <<{"WR"}, {"WR"}, nCCDS_WR>>,
    <<{"RD"}, {"WR"}, nCL + nBLmin + 2 - nCWL>>,
    <<{"WR"}, {"RD"}, nCWL + nBLmin + nWTRS>>,
    <<{"RD"}, {"PREab"}, nRTP>>,
    <<{"WR"}, {"PREab"}, nCWL + nBLmin + nWR>>,
    <<{"ACT1"}, {"ACT1"}, nRRDS>>,
    <<{"ACT1"}, {"PREab"}, nRAS>>,
    <<{"PREab"}, {"ACT1"}, nRPab>>,
    <<Precharges, Precharges, nPPD>>,
    <<{"ACT1"}, {"REFab"}, nRC>>,
    <<Precharges, {"REFab"}, nRP>>,
    <<{"REFab"}, {"ACT1", "PREab", "REFab"}, nRFC>>,
    <<{"PIM_MAC_AB"}, {"PIM_MAC_AB"}, nPIM_MAC_II>>,
    <<{"PIM_BCAST"}, {"PIM_BCAST"}, nBLmin>> }

(* BankGroup and Bank level: these reach the bank the command went to.     *)
BankConstraints ==
  { <<{"CAS_RD"}, {"RD"}, nCAS>>,
    <<{"CAS_WR"}, {"WR"}, nCAS>>,
    <<{"RD"}, {"RD"}, nCCDL>>,
    <<{"WR"}, {"WR"}, nCCDL_WR>>,
    <<{"WR"}, {"RD"}, nCWL + nBLmax + nWTRL>>,
    <<{"ACT1"}, {"ACT1"}, nRRDL>>,
    <<{"ACT1"}, {"ACT1"}, nRC>>,
    <<{"ACT1"}, {"RD", "WR", "PIM_MAC"}, nRCD>>,
    <<{"ACT1"}, {"PREpb"}, nRAS>>,
    <<{"PREpb"}, {"ACT1"}, nRP>>,
    <<{"RD"}, {"PREpb"}, nRTP>>,
    <<{"WR"}, {"PREpb"}, nCWL + nBLmin + nWR>>,
    <<{"PIM_MAC"}, {"PIM_MAC"}, nPIM_MAC_II>> }

(* The strictest latency the table puts between c and n.                   *)
Strictest(table, c, n) ==
  LET lats == {0} \cup {t[3] : t \in {e \in table : c \in e[1] /\ n \in e[2]}}
  IN  CHOOSE l \in lats : \A k \in lats : k <= l

Latencies(table) == [p \in Commands \X Commands |-> Strictest(table, p[1], p[2])]

ChannelLatency == Latencies(ChannelConstraints)
RankLatency    == Latencies(RankConstraints)
BankLatency    == Latencies(BankConstraints)
=============================================================================
