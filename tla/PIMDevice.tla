------------------------------ MODULE PIMDevice ------------------------------
(***************************************************************************)
(* The LPDDR5-PIM device under the controller: dram/device.cpp, node.cpp   *)
(* and the command classes that LPDDR5PIM is generated from. Compared with *)
(* DRAMDevice there are several ranks, a row is opened in two steps (ACT1  *)
(* makes the bank Activating, ACT2 opens the row), and a rank is in one of *)
(* three modes, set by SB, HAB and HAB_PIM.                                *)
(*                                                                         *)
(* wait[b][c] is the number of cycles until command c is legal at bank b.  *)
(* Commands that no constraint of the tables delays have no entry in it.   *)
(***************************************************************************)
EXTENDS Integers, FiniteSets

CONSTANTS
  NBanks,        \* number of flat banks of the channel
  BanksPerRank,
  Rows,
  Closed, Activating,
  ChannelLat,    \* ChannelLat[<<c, n>>]: cycles from c to n in another rank,
  RankLat,       \* in the same rank,
  BankLat        \* at the same bank

Cmd == {"ACT1", "ACT2", "PREpb", "PREab", "CAS_RD", "CAS_WR", "RD", "WR", "REFab",
        "PIM_MAC", "PIM_MAC_AB", "PIM_BCAST", "SB", "HAB", "HAB_PIM"}
Timed == {"ACT1", "PREpb", "PREab", "RD", "WR", "REFab", "PIM_MAC", "PIM_MAC_AB", "PIM_BCAST"}
Modes == {"SB", "HAB", "HAB_PIM"}

Banks == 0 .. NBanks - 1
RankOf(b) == b \div BanksPerRank
Ranks == {RankOf(b) : b \in Banks}

ASSUME PIMDeviceAssumption ==
  /\ NBanks \in Nat \ {0} /\ BanksPerRank \in Nat \ {0}
  /\ NBanks % BanksPerRank = 0
  /\ Closed # Activating /\ {Closed, Activating} \cap Rows = {}
  /\ {ChannelLat, RankLat, BankLat} \subseteq [Cmd \X Cmd -> Nat]

VARIABLES
  open,          \* open[b]: the open row of bank b, Closed or Activating
  rankState,     \* rankState[r]: the mode the rank node is in
  wait           \* wait[b][c]: cycles until c is legal at bank b

deviceVars == <<open, rankState, wait>>

Larger(a, b) == IF a >= b THEN a ELSE b

-----------------------------------------------------------------------------
(* Command metadata.                                                       *)

IsClosing(c)  == c \in {"PREpb", "PREab"}
Disturbs(c)   == IsClosing(c) \/ c = "REFab"
TargetsAll(c) == c \in {"PREab", "REFab", "PIM_MAC_AB", "PIM_BCAST"} \cup Modes

Targets(c, b) == IF TargetsAll(c) THEN {x \in Banks : RankOf(x) = RankOf(b)} ELSE {b}

(* What has to be issued next for final command c to reach bank b, row r.  *)
PreqCommand(c, b, r) ==
  CASE c \in {"RD", "WR", "PIM_MAC"} ->
         CASE open[b] = Closed     -> "ACT1"
           [] open[b] = Activating -> "ACT2"
           [] open[b] = r          -> c
           [] OTHER                -> "PREpb"
    [] c = "REFab" -> IF \E x \in Targets(c, b) : open[x] # Closed THEN "PREab" ELSE c
    [] c = "PIM_BCAST"  -> IF rankState[RankOf(b)] = "HAB" THEN c ELSE "HAB"
    [] c = "PIM_MAC_AB" -> IF rankState[RankOf(b)] = "HAB_PIM" THEN c ELSE "HAB_PIM"
    [] OTHER -> c

-----------------------------------------------------------------------------
(* Timing.                                                                 *)

Elapsed == [b \in Banks |-> [c \in Timed |-> Larger(wait[b][c] - 1, 0)]]

CheckTiming(w, c, b) == c \in Timed => \A x \in Targets(c, b) : w[x][c] = 0

(* The delay that c, issued to bank b, puts on n at bank x.                *)
Delay(c, b, n, x) ==
  IF x \in Targets(c, b) THEN Larger(RankLat[<<c, n>>], BankLat[<<c, n>>])
  ELSE IF RankOf(x) = RankOf(b) THEN RankLat[<<c, n>>]
  ELSE ChannelLat[<<c, n>>]

(* Command c goes to bank b, row r.                                        *)
IssueCommand(c, b, r) ==
  /\ wait' = [x \in Banks |-> [n \in Timed |-> Larger(Elapsed[x][n], Delay(c, b, n, x))]]
  /\ open' = [x \in Banks |-> IF x \notin Targets(c, b) THEN open[x]
                              ELSE IF IsClosing(c) THEN Closed
                              ELSE IF c = "ACT1" THEN Activating
                              ELSE IF c = "ACT2" THEN r
                              ELSE open[x]]
  /\ rankState' = IF c \in Modes THEN [rankState EXCEPT ![RankOf(b)] = c] ELSE rankState

IssueNothing == wait' = Elapsed /\ UNCHANGED <<open, rankState>>

PIMDeviceInit ==
  /\ open = [b \in Banks |-> Closed]
  /\ rankState = [r \in Ranks |-> "SB"]
  /\ wait = [b \in Banks |-> [c \in Timed |-> 0]]

PIMDeviceTypeOK ==
  /\ open \in [Banks -> Rows \cup {Closed, Activating}]
  /\ rankState \in [Ranks -> Modes]
  /\ wait \in [Banks -> [Timed -> Nat]]
=============================================================================
