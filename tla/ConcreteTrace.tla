---------------------------- MODULE ConcreteTrace ----------------------------
(***************************************************************************)
(* A trace of PIM commands: its records, the sequences of them that may be *)
(* replayed (lpddr5_pim_concrete_trace.py), and the requests a replayed    *)
(* record expands to (LPDDRPIMConcreteTrace). A record that sends its      *)
(* requests to one address has an empty bank_sequence; a compact PIM_MAC   *)
(* stands for rounds of work over the banks of its bank_sequence.          *)
(***************************************************************************)
EXTENDS AddressLayout, FiniteSets

CONSTANT MAX_REPEAT     \* the most requests one record may stand for

ASSUME RepeatAssumption == MAX_REPEAT \in Nat \ {0}

HostOpcodes == {"READ", "WRITE"}
ModeOpcodes == {"SB", "HAB", "HAB_PIM"}
Opcodes     == HostOpcodes \cup ModeOpcodes \cup {"PIM_BCAST", "PIM_MAC_AB", "PIM_MAC"}

Record(opcode, av, repeat) ==
  [opcode |-> opcode, addr_vec |-> av, repeat |-> repeat, bank_sequence |-> <<>>]
HostRecord(opcode, av, repeat, byte, stride) ==
  [opcode |-> opcode, addr_vec |-> av, repeat |-> repeat, bank_sequence |-> <<>>,
   addr_byte |-> byte, addr_byte_stride |-> stride]
(* Seeded fault: each record of a split stream starts the rotation anew.   *)
CompactRecordRestarted(av, repeat, banks, start_idx, depth, place) ==
  [opcode |-> "PIM_MAC", addr_vec |-> av, repeat |-> repeat, bank_sequence |-> banks,
   interleave_start_idx |-> 0, interleave_depth |-> depth, place |-> place]

CompactRecord(av, repeat, banks, start_idx, depth, place) ==
  [opcode |-> "PIM_MAC", addr_vec |-> av, repeat |-> repeat, bank_sequence |-> banks,
   interleave_start_idx |-> start_idx, interleave_depth |-> depth, place |-> place]

(* place: the rows and columns a stream of work rotates through, and where *)
(* in that rotation it begins.                                             *)
FitsLayout(place) ==
  /\ place.row_start >= 0 /\ place.row_count >= 1
  /\ place.row_start + place.row_count <= LevelSize["Row"]
  /\ place.column_start >= 0 /\ place.dependency_count >= 1
  /\ place.column_start + place.dependency_count <= LevelSize["Column"]

ValidateRecord(record) ==
  /\ record.opcode \in Opcodes /\ record.repeat \in 1 .. MAX_REPEAT
  /\ InLayout(record.addr_vec)
  /\ record.opcode \in HostOpcodes =>
       /\ InCapacity(record.addr_byte)
       /\ record.addr_vec = AddrVecFromByteAddress(record.addr_byte)
       /\ record.addr_byte_stride > 0 =>
            InCapacity(record.addr_byte + (record.repeat - 1) * record.addr_byte_stride)
  /\ record.bank_sequence # <<>> =>
       /\ record.opcode = "PIM_MAC" /\ record.interleave_start_idx >= 0 /\ record.interleave_depth >= 1
       /\ FitsLayout(record.place)
       /\ \A i \in DOMAIN record.bank_sequence : record.bank_sequence[i] \in Banks

(* Every rank a record touches: a compact record works on several.         *)
RecordRankIds(record) ==
  IF record.bank_sequence = <<>> THEN {record.addr_vec["Rank"]}
  ELSE {RankForFlatBank(record.bank_sequence[i]) : i \in DOMAIN record.bank_sequence}

(***************************************************************************)
(* validate_sequence: the mode of each rank and whether its operands were  *)
(* broadcast, after the records so far, and whether all were accepted.     *)
(***************************************************************************)
EmptyTrace == [modes |-> [r \in Ranks |-> "SB"], bcasts |-> {}, accepted |-> TRUE]

Allowed(trace, opcode, r) ==
  CASE opcode \in HostOpcodes \cup {"PIM_MAC"} -> trace.modes[r] = "SB"
    [] opcode = "PIM_BCAST"  -> trace.modes[r] = "HAB"
    [] opcode = "HAB_PIM"    -> r \in trace.bcasts
    [] opcode = "PIM_MAC_AB" -> trace.modes[r] = "HAB_PIM" /\ r \in trace.bcasts
    [] OTHER                 -> TRUE

ValidateNext(trace, opcode, ranks) ==
  [modes    |-> [r \in Ranks |-> IF r \in ranks /\ opcode \in ModeOpcodes THEN opcode ELSE trace.modes[r]],
   bcasts   |-> CASE opcode \in {"SB", "HAB"} -> trace.bcasts \ ranks
                  [] opcode = "PIM_BCAST"     -> trace.bcasts \cup ranks
                  [] OTHER                    -> trace.bcasts,
   accepted |-> trace.accepted /\ \A r \in ranks : Allowed(trace, opcode, r)]

(***************************************************************************)
(* What request k of a record accesses when it is replayed.                *)
(***************************************************************************)
HostByte(record, k) == record.addr_byte + k * record.addr_byte_stride

Expand(record, k) ==
  IF record.opcode \in HostOpcodes THEN AddrVecFromByteAddress(HostByte(record, k))
  ELSE IF record.bank_sequence = <<>> THEN record.addr_vec
  ELSE LET group == (record.interleave_start_idx + k) \div record.interleave_depth
           span  == Len(record.bank_sequence)
           cycle == group \div span
           p     == record.place
           row   == p.row_start + ((p.row_offset + cycle \div p.dependency_count) % p.row_count)
           col   == p.column_start + ((p.column_offset + cycle) % p.dependency_count)
       IN  DecomposeFlatBank(record.bank_sequence[(group % span) + 1],
                             [record.addr_vec EXCEPT !["Row"] = row, !["Column"] = col])

(* How many of a record's requests are work for bank b.                    *)
WorkFor(record, b) ==
  CASE record.opcode = "PIM_MAC_AB" -> IF RankForFlatBank(b) = record.addr_vec["Rank"] THEN record.repeat ELSE 0
    [] record.opcode = "PIM_MAC" -> Cardinality({k \in 1 .. record.repeat : BankOf(Expand(record, k - 1)) = b})
    [] OTHER -> 0
=============================================================================
