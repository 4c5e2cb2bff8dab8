---------------------------- MODULE AddressLayout ----------------------------
(***************************************************************************)
(* Where a byte address or a flat bank number lies in the hierarchy of a   *)
(* channel: mixed-radix decompositions over the sizes of the levels. The   *)
(* same layout is used by the python lowering and by the replay of the     *)
(* trace it writes.                                                        *)
(***************************************************************************)
EXTENDS Integers, Sequences

CONSTANTS
  LevelNames,     \* the levels, from the channel to the column
  LevelSize,      \* LevelSize[l]: how many of level l its parent has
  Prefetch,       \* internal_prefetch_size: columns of one transaction
  TxBytes         \* bytes of one transaction

ASSUME LayoutAssumption ==
  /\ LevelNames \in Seq(DOMAIN LevelSize)
  /\ \A l \in DOMAIN LevelSize : \E i \in DOMAIN LevelNames : LevelNames[i] = l
  /\ \A i, j \in DOMAIN LevelNames : LevelNames[i] = LevelNames[j] => i = j
  /\ {"Rank", "Bank", "Row", "Column"} \subseteq DOMAIN LevelSize
  /\ \A l \in DOMAIN LevelSize : LevelSize[l] \in Nat \ {0}
  /\ Prefetch \in Nat \ {0} /\ LevelSize["Column"] % Prefetch = 0
  /\ TxBytes \in Nat \ {0}

Ranks == 0 .. LevelSize["Rank"] - 1

(* The digits of a number, the last radix cycling fastest.                 *)
Weight(radices) ==
  LET w[i \in DOMAIN radices] == IF i = Len(radices) THEN 1 ELSE radices[i + 1] * w[i + 1]
  IN  w
Digits(value, radices) ==
  [i \in DOMAIN radices |-> (value \div Weight(radices)[i]) % radices[i]]

AddressRadices ==
  [i \in DOMAIN LevelNames |->
     IF LevelNames[i] = "Column" THEN LevelSize["Column"] \div Prefetch ELSE LevelSize[LevelNames[i]]]
Transactions  == AddressRadices[1] * Weight(AddressRadices)[1]
CapacityBytes == TxBytes * Transactions

(* An address vector gives each level its coordinate.                      *)
AddrVecs == {av \in [DOMAIN LevelSize -> Int] : \A l \in DOMAIN LevelSize : av[l] \in 0 .. LevelSize[l] - 1}

InLayout(av) == DOMAIN av = DOMAIN LevelSize /\ \A l \in DOMAIN av : av[l] >= 0 /\ av[l] < LevelSize[l]
InCapacity(address) == address >= 0 /\ address < CapacityBytes
AddrVecFromByteAddress(address) ==
  LET digits == Digits(address \div TxBytes, AddressRadices)
  IN  [l \in DOMAIN LevelSize |-> digits[CHOOSE i \in DOMAIN LevelNames : LevelNames[i] = l]]

(* The levels of a flat bank number, in the order work interleaves them:   *)
(* bank groups and pseudo channels rotate fastest.                         *)
BankLevels == DOMAIN LevelSize \ {"Channel", "Row", "Column"}
FastLevels == BankLevels \cap {"BankGroup", "PseudoChannel"}
InOrder(levels) ==
  LET found[n \in 0 .. Len(LevelNames)] ==
        IF n = 0 THEN <<>>
        ELSE IF LevelNames[n] \in levels THEN Append(found[n - 1], LevelNames[n]) ELSE found[n - 1]
  IN  found[Len(LevelNames)]
BankPositions == InOrder(BankLevels \ FastLevels) \o InOrder(FastLevels)
BankCounts == [i \in DOMAIN BankPositions |-> LevelSize[BankPositions[i]]]
Banks == 0 .. BankCounts[1] * Weight(BankCounts)[1] - 1

DecomposeFlatBank(bank, av) ==
  LET digits == Digits(bank, BankCounts)
      Index(l) == CHOOSE i \in DOMAIN BankPositions : BankPositions[i] = l
  IN  [l \in DOMAIN av |-> IF l \in BankLevels THEN digits[Index(l)] ELSE av[l]]
BankOf(av) ==
  CHOOSE b \in Banks : \A l \in BankLevels : DecomposeFlatBank(b, av)[l] = av[l]
RankForFlatBank(bank) ==
  Digits(bank, BankCounts)[CHOOSE i \in DOMAIN BankPositions : BankPositions[i] = "Rank"]
=============================================================================
