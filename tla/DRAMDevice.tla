----------------------------- MODULE DRAMDevice -----------------------------
(***************************************************************************)
(* The device a controller drives: dram/device.cpp, dram/node.cpp and the  *)
(* command classes of dram/commands, for the DDR4 command set and one rank *)
(* on one channel.                                                         *)
(*                                                                         *)
(* Time is relative. node.cpp keeps, per node and command, the absolute    *)
(* cycle m_cmd_ready_clk at which the command becomes legal; here wait[b]  *)
(* [c] is the number of cycles until command c is legal at bank b, the     *)
(* maximum over the nodes from the channel down to b. With one rank the    *)
(* channel, rank and bank levels are told apart only by how far a          *)
(* constraint reaches: RankLat holds for every bank, BankLat for the bank  *)
(* the command went to.                                                    *)
(***************************************************************************)
EXTENDS Integers, FiniteSets

CONSTANTS
  NBanks,     \* number of flat banks, m_bank_nodes.size()
  Rows,       \* row addresses
  Closed,     \* bank state "no open row"
  RankLat,    \* RankLat[<<c, n>>]: cycles from c at any bank to n at any bank
  BankLat     \* BankLat[<<c, n>>]: cycles from c at a bank to n at the same bank

Cmd == {"ACT", "PREpb", "PREab", "RD", "WR", "RDA", "WRA", "REFab"}

Banks == 0 .. NBanks - 1

ASSUME DeviceAssumption ==
  /\ NBanks \in Nat \ {0}
  /\ Closed \notin Rows
  /\ RankLat \in [Cmd \X Cmd -> Nat]
  /\ BankLat \in [Cmd \X Cmd -> Nat]

VARIABLES
  open,       \* open[b]: the open row of bank b, or Closed
  wait        \* wait[b][c]: cycles until c is legal at bank b

deviceVars == <<open, wait>>

Larger(a, b) == IF a >= b THEN a ELSE b

-----------------------------------------------------------------------------
(* Command metadata (DRAMCommandMeta and BankTarget of each command).      *)

IsClosing(c)   == c \in {"PREpb", "PREab", "RDA", "WRA"}
IsAccessing(c) == c \in {"RD", "WR", "RDA", "WRA"}
IsOpening(c)   == c = "ACT"
TargetsAll(c)  == c \in {"PREab", "REFab"}

Targets(c, b) == IF TargetsAll(c) THEN Banks ELSE {b}

(* What has to be issued next for final command c to reach bank b, row r:  *)
(* the first target bank whose prerequisite differs decides.               *)
PreqCommand(c, b, r) ==
  CASE c \in {"RD", "WR"} ->
         IF open[b] = Closed THEN "ACT"
         ELSE IF open[b] = r THEN c ELSE "PREpb"
    [] c = "REFab" -> IF \E x \in Banks : open[x] # Closed THEN "PREab" ELSE c
    [] OTHER -> c

-----------------------------------------------------------------------------
(* Timing.                                                                 *)

(* The waits after one more cycle has passed.                              *)
Elapsed == [b \in Banks |-> [c \in Cmd |-> Larger(wait[b][c] - 1, 0)]]

(* Command c may be issued to bank b under the waits w.                    *)
CheckTiming(w, c, b) == \A x \in Targets(c, b) : w[x][c] = 0

(* The waits after c has been issued to bank b under the waits w.          *)
UpdateTiming(w, c, b) ==
  [x \in Banks |-> [n \in Cmd |->
     Larger(w[x][n], IF x \in Targets(c, b)
                     THEN Larger(RankLat[<<c, n>>], BankLat[<<c, n>>])
                     ELSE RankLat[<<c, n>>])]]

(* The bank states after c has been issued to bank b, row r.               *)
ApplyAction(c, b, r) ==
  [x \in Banks |-> IF x \notin Targets(c, b) THEN open[x]
                   ELSE IF IsOpening(c) THEN r
                   ELSE IF IsClosing(c) THEN Closed
                   ELSE open[x]]

IssueCommand(w, c, b, r) ==
  /\ wait' = UpdateTiming(w, c, b)
  /\ open' = ApplyAction(c, b, r)

DeviceInit ==
  /\ open = [b \in Banks |-> Closed]
  /\ wait = [b \in Banks |-> [c \in Cmd |-> 0]]

DeviceTypeOK ==
  /\ open \in [Banks -> Rows \cup {Closed}]
  /\ wait \in [Banks -> [Cmd -> Nat]]
=============================================================================
