---------------------------- MODULE MCGenericDDR ----------------------------
(***************************************************************************)
(* Two banks with two rows, four addresses: x and y share a row (a row hit *)
(* that is neither forwarded nor coalesced), z is a row conflict with      *)
(* them, v is in the other bank. The latencies are small but keep the      *)
(* order of the DDR4 ones: read-to-write turnaround > column-to-column,    *)
(* row cycle > precharge.                                                  *)
(***************************************************************************)
EXTENDS GenericDDR

CONSTANTS x, y, z, v

MCAddrs == {x, y, z, v}
MCAddrs3 == {x, z, v}
MCBank == [a \in Addrs |-> IF a = v THEN 1 ELSE 0]
MCRow  == [a \in Addrs |-> IF a = z THEN 2 ELSE 1]

T == INSTANCE DDR4Timing WITH
       nBL <- 1, nCL <- 2, nCWL <- 1, nRCD <- 2, nRP <- 1, nRAS <- 2, nRC <- 3,
       nWR <- 1, nRTP <- 1, nCCDS <- 1, nCCDL <- 1, nRRDS <- 1, nRRDL <- 1,
       nWTRS <- 1, nWTRL <- 1, nRFC <- 3

MCRankLat == T!RankLatency
MCBankLat == T!BankLatency
=============================================================================
