----------------------------- MODULE DDR4Timing -----------------------------
(***************************************************************************)
(* The timing-constraint table of python/ramulator/dram/ddr4.py, from      *)
(* which the C++ tables are generated, for one rank whose banks each sit   *)
(* in a bank group of their own. Each entry is                             *)
(* <<preceding commands, following commands, latency>>. The four-activate  *)
(* window (nFAW) and the rank-switch (sibling) entries need more than four *)
(* banks or a second rank and are left out.                                *)
(***************************************************************************)
EXTENDS Integers, FiniteSets

CONSTANTS nBL, nCL, nCWL, nRCD, nRP, nRAS, nRC, nWR, nRTP,
          nCCDS, nCCDL, nRRDS, nRRDL, nWTRS, nWTRL, nRFC

LOCAL Commands == {"ACT", "PREpb", "PREab", "RD", "WR", "RDA", "WRA", "REFab"}
LOCAL Reads  == {"RD", "RDA"}
LOCAL Writes == {"WR", "WRA"}

(* Channel and Rank level: these reach every bank.                         *)
RankConstraints ==
  { <<Reads,  Reads,  nBL>>,
    <<Writes, Writes, nBL>>,
    <<Reads,  Reads,  nCCDS>>,
    <<Writes, Writes, nCCDS>>,
    <<Reads,  Writes, nCL + nBL + 2 - nCWL>>,
    <<Writes, Reads,  nCWL + nBL + nWTRS>>,
    <<{"RD"}, {"PREab"}, nRTP>>,
    <<{"WR"}, {"PREab"}, nCWL + nBL + nWR>>,
    <<{"ACT"}, {"ACT"}, nRRDS>>,
    <<{"ACT"}, {"PREab"}, nRAS>>,
    <<{"PREab"}, {"ACT"}, nRP>>,
    <<{"ACT"}, {"REFab"}, nRC>>,
    <<{"PREpb", "PREab"}, {"REFab"}, nRP>>,
    <<{"RDA"}, {"REFab"}, nRP + nRTP>>,
    <<{"WRA"}, {"REFab"}, nCWL + nBL + nWR + nRP>>,
    <<{"REFab"}, {"ACT", "PREab"}, nRFC>> }

(* BankGroup and Bank level: these reach the bank the command went to.     *)
BankConstraints ==
  { <<Reads,  Reads,  nCCDL>>,
    <<Writes, Writes, nCCDL>>,
    <<Writes, Reads,  nCWL + nBL + nWTRL>>,
    <<{"ACT"}, {"ACT"}, nRRDL>>,
    <<{"ACT"}, {"ACT"}, nRC>>,
    <<{"ACT"}, Reads \cup Writes, nRCD>>,
    <<{"ACT"}, {"PREpb"}, nRAS>>,
    <<{"PREpb"}, {"ACT"}, nRP>>,
    <<{"RD"}, {"PREpb"}, nRTP>>,
    <<{"WR"}, {"PREpb"}, nCWL + nBL + nWR>>,
    <<{"RDA"}, {"ACT"}, nRTP + nRP>>,
    <<{"WRA"}, {"ACT"}, nCWL + nBL + nWR + nRP>> }

(* The strictest latency the table puts between c and n.                   *)
Strictest(table, c, n) ==
  LET lats == {0} \cup {t[3] : t \in {e \in table : c \in e[1] /\ n \in e[2]}}
  IN  CHOOSE l \in lats : \A k \in lats : k <= l

RankLatency == [p \in Commands \X Commands |-> Strictest(RankConstraints, p[1], p[2])]
BankLatency == [p \in Commands \X Commands |-> Strictest(BankConstraints, p[1], p[2])]
=============================================================================
