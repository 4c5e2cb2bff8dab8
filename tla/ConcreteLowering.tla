-------------------------- MODULE ConcreteLowering --------------------------
(***************************************************************************)
(* lower_semantic_records_to_concrete: the operations of a workload become *)
(* a trace of PIM commands. The lowering keeps its own record of the modes *)
(* of the ranks and of the ranks whose operands are loaded, by which it    *)
(* inserts mode commands and loads. Its loops are steps of the model; the  *)
(* validation it ends with is evaluated as the records are appended.       *)
(***************************************************************************)
EXTENDS ConcreteTrace

CONSTANTS
  Workloads,    \* the sequences of semantic records to lower
  Options       \* the arguments they may be lowered with

ASSUME OptionsAssumption ==
  Options \subseteq [mac_mode : {"per_kind", "all_bank", "per_bank"},
                     interleave_banks : BOOLEAN, interleave_depth : Nat \ {0},
                     materialize_weights : BOOLEAN,
                     synthetic_address_policy : {"strict_bytes", "bounded_surrogate_v1"}]

VARIABLES
  options, \* the arguments of this call
  todo,    \* the semantic records left; the first is the one in work
  pc,      \* "begin", the loop that lowers the record, or "end"
  left,    \* what the loop has not visited: ranks, or indices into the bank sequence
  done,    \* how many requests were lowered for the one it is visiting
  out      \* the trace so far, see Empty

vars == <<options, todo, pc, left, done, out>>

HostKinds             == {"HostRead", "HostWrite"}
WeightStationaryKinds == {"FFNProjection", "MoERouter", "MoEExpertFFN"}
PerBankKinds          == {"PIMCompute", "AttentionScore", "AttentionContext"} \cup WeightStationaryKinds
LoadKinds             == {"PIMLoadAll", "PIMDataMove"}
ComputeAllKinds       == {"PIMComputeAll"}
SemanticOnlyMoves ==
  {"dynamic_activation_tile", "bank_local_tile_activation", "cross_bank_operand_shuffle_accounting"}

(* A semantic record: its banks, rows and columns are the device's. The    *)
(* generator keeps to the first rows, retarget_semantic_banks spreads the  *)
(* banks, and validate_record refuses a place outside of the device.       *)
Semantics ==
  [kind : STRING, num_requests : Int, repeat : Int, bank_sequence : Seq(Banks), burst_length : Nat \ {0},
   base_byte : Int, stride_bytes : Int, bytes : Nat,
   operand_role : STRING, movement_kind : STRING, accounting_only : BOOLEAN,
   row_start : Nat, row_count : Nat, resolved_row : Int,
   column_start : Nat, dependency_count : Nat, resolved_column : Int]
Placed(s) == FitsLayout(s) /\ (s.kind \in PerBankKinds => s.bank_sequence # <<>>)

ASSUME WorkloadsAssumption == \A w \in Workloads : w \in Seq({s \in Semantics : Placed(s)})

Smaller(a, b) == IF a < b THEN a ELSE b
Ceiling(a, b) == (a + b - 1) \div b

semantic == Head(todo)
IsWeight(s) == s.kind = "PIMDataMove" /\ s.operand_role = "weight"
MacMode(kind) ==
  IF options.mac_mode # "per_kind" THEN options.mac_mode
  ELSE IF kind \in WeightStationaryKinds THEN "all_bank" ELSE "per_bank"

(* The address request i of a semantic record stands for.                  *)
SemanticPlace(s, cycle) ==
  [row    |-> s.row_start + (((s.resolved_row - s.row_start) + cycle \div s.dependency_count) % s.row_count),
   column |-> s.column_start + (((s.resolved_column - s.column_start) + cycle) % s.dependency_count)]
AddrVecFromSemantic(s, i, burst) ==
  LET phase == i \div burst
      span  == IF s.kind \in PerBankKinds THEN Len(s.bank_sequence) ELSE 1
      where == SemanticPlace(s, phase \div span)
      av    == [l \in DOMAIN LevelSize |->
                  CASE l = "Row" -> where.row [] l = "Column" -> where.column [] OTHER -> 0]
  IN  IF s.kind \in PerBankKinds
      THEN DecomposeFlatBank(s.bank_sequence[(phase % span) + 1], av) ELSE av
BaseAddrVec(s) == AddrVecFromSemantic(s, 0, s.burst_length)
RankAddrVec(av, r) == [av EXCEPT !["Rank"] = r]

AllBankTargetRanks(s) == {RankForFlatBank(s.bank_sequence[i]) : i \in DOMAIN s.bank_sequence}

(***************************************************************************)
(* The output: the modes and loads the lowering keeps, the validator's     *)
(* view of the same records, the last record and whether all were valid by *)
(* themselves, and the work the record in work has got for each bank.      *)
(***************************************************************************)
NoRecord == [opcode |-> "none"]
Empty ==
  [rank_modes |-> [r \in Ranks |-> "SB"], load_ready |-> {},
   trace |-> EmptyTrace, last |-> NoRecord, valid |-> TRUE, work |-> [b \in Banks |-> 0]]

Append1(o, record) ==
  [rank_modes |-> o.rank_modes, load_ready |-> o.load_ready,
   trace |-> ValidateNext(o.trace, record.opcode, RecordRankIds(record)), last |-> record,
   valid |-> o.valid /\ ValidateRecord(record), work |-> [b \in Banks |-> o.work[b] + WorkFor(record, b)]]

WithRanks(o, modes, ready) ==
  [rank_modes |-> modes, load_ready |-> ready,
   trace |-> o.trace, last |-> o.last, valid |-> o.valid, work |-> o.work]
(* Seeded fault: operands are thought to survive a change of the mode.     *)
SetModeKeepsLoad(o, r, mode) == WithRanks(o, [o.rank_modes EXCEPT ![r] = mode], o.load_ready)

SetMode(o, r, mode) ==
  WithRanks(o, [o.rank_modes EXCEPT ![r] = mode],
               IF mode = "HAB_PIM" THEN o.load_ready ELSE o.load_ready \ {r})

ToSingleBank(o, av) ==
  IF o.rank_modes[av["Rank"]] = "SB" THEN o
  ELSE SetMode(Append1(o, Record("SB", av, 1)), av["Rank"], "SB")

ToHostAllBank(o, av) ==
  IF o.rank_modes[av["Rank"]] = "HAB" THEN o
  ELSE SetMode(Append1(o, Record("HAB", av, 1)), av["Rank"], "HAB")

Load(o, av, repeat) ==
  WithRanks(Append1(o, Record("PIM_BCAST", av, repeat)), o.rank_modes,
            o.load_ready \cup {av["Rank"]})

EnsureAllBankLoad(o, av) ==
  LET hab == ToHostAllBank(o, av)
  IN  IF av["Rank"] \in hab.load_ready THEN hab ELSE Load(hab, av, 1)

(* Raises unless the rank was prepared: no step is taken then.             *)
PIMAllBankPrepared(o, r) == o.rank_modes[r] = "HAB_PIM" \/ (o.rank_modes[r] = "HAB" /\ r \in o.load_ready)
ToPIMAllBank(o, av) ==
  IF o.rank_modes[av["Rank"]] = "HAB_PIM" THEN o
  ELSE SetMode(Append1(o, Record("HAB_PIM", av, 1)), av["Rank"], "HAB_PIM")

LeaveAllBank(o, av) == SetMode(Append1(o, Record("SB", av, 1)), av["Rank"], "SB")

(***************************************************************************)
(* Host accesses, and weights when they are materialized: a stream of      *)
(* bytes cut into records (_host_address_chunks). Tokens of the bounded    *)
(* policy count prefetches and wrap at the capacity.                       *)
(***************************************************************************)
StreamCount(s) ==
  IF IsWeight(s) THEN Ceiling(IF s.bytes = 0 THEN 1 ELSE s.bytes, TxBytes) ELSE s.num_requests
StreamStride(s) == IF IsWeight(s) THEN TxBytes ELSE s.stride_bytes

(* Seeded fault: a chunk may run past the last transaction.                *)
HostChunkUnwrapped(s, offset) ==
  LET repeat == Smaller(MAX_REPEAT, StreamCount(s) - (offset % StreamCount(s)))
      start  == ((s.base_byte + offset * StreamStride(s)) \div Prefetch) % Transactions
  IN  [base |-> start * TxBytes, repeat |-> repeat,
       stride |-> IF repeat > 1 THEN (StreamStride(s) \div Prefetch) * TxBytes ELSE 0]

HostChunk(s, offset) ==
  LET remaining == StreamCount(s) - (offset % StreamCount(s))
      logical   == s.base_byte + offset * StreamStride(s)
      step      == (StreamStride(s) \div Prefetch) % Transactions
      start     == (logical \div Prefetch) % Transactions
      to_wrap   == (Transactions - 1 - start) \div step + 1
      Chunk(base, stride, repeat) ==
        [base |-> base, stride |-> IF repeat > 1 THEN stride ELSE 0, repeat |-> repeat]
      most      == Smaller(MAX_REPEAT, remaining)
  IN  IF options.synthetic_address_policy = "strict_bytes" THEN Chunk(logical, StreamStride(s), most)
      ELSE Chunk(start * TxBytes, step * TxBytes, IF step = 0 THEN most ELSE Smaller(most, to_wrap))

(***************************************************************************)
(* The loops. A step lowers a chunk of the share of what is visited, the   *)
(* least one of left, and goes on to the next when its share is done. A    *)
(* coordinate outside of the ranks raises (rank_id_for): no step is taken. *)
(***************************************************************************)
Visited(i) == i \in left /\ \A j \in left : i <= j
Total(s) == s.num_requests * s.repeat
BankShare(s, i) ==
  Total(s) \div Len(s.bank_sequence) + (IF i < Total(s) % Len(s.bank_sequence) THEN 1 ELSE 0)
(* Seeded fault: the work of a last, incomplete round is lost.             *)
AllBankShareFloor(s) == Total(s) \div Len(s.bank_sequence)

AllBankShare(s) == Ceiling(Total(s), Len(s.bank_sequence))

Visit(i, chunk, share) ==
  /\ done' = IF done + chunk = share THEN 0 ELSE done + chunk
  /\ left' = IF done + chunk = share THEN left \ {i} ELSE left
  /\ pc'   = IF left' = {} THEN "end" ELSE pc
  /\ UNCHANGED <<options, todo>>

LowerHost(s) ==
  /\ pc = "host"
  /\ LET chunk  == HostChunk(s, done)
         av     == AddrVecFromByteAddress(chunk.base)
         opcode == IF s.kind = "HostRead" THEN "READ" ELSE "WRITE"
     IN  /\ InCapacity(chunk.base) /\ av["Rank"] \in Ranks
         /\ out' = Append1(ToSingleBank(out, av),
                          HostRecord(opcode, av, chunk.repeat, chunk.base, chunk.stride))
         /\ Visit(0, chunk.repeat, StreamCount(s) * s.repeat)

LowerAllBank(s) ==
  /\ pc = "all_bank"
  /\ \E r \in Ranks :
       LET av     == RankAddrVec(BaseAddrVec(s), r)
           loaded == IF done = 0 THEN EnsureAllBankLoad(out, av) ELSE out
           chunk  == Smaller(MAX_REPEAT, AllBankShare(s) - done)
           issued == Append1(ToPIMAllBank(loaded, av), Record("PIM_MAC_AB", av, chunk))
       IN  /\ Visited(r) /\ PIMAllBankPrepared(loaded, r)
           /\ out' = IF done + chunk = AllBankShare(s) THEN LeaveAllBank(issued, av) ELSE issued
           /\ Visit(r, chunk, AllBankShare(s))

(* The ranks of per-bank work return to single-bank mode before it; a      *)
(* trace begins with that command even where it changes nothing.           *)
LowerPerBank(s) ==
  /\ pc = "single"
  /\ \E r \in Ranks :
       LET last    == left = {r}
           single  == ToSingleBank(out, RankAddrVec(BaseAddrVec(s), r))
           compact == options.interleave_banks /\ Len(s.bank_sequence) > 1
       IN  /\ Visited(r)
           /\ out' = IF last /\ single.last = NoRecord
                      THEN Append1(single, Record("SB", BaseAddrVec(s), 1)) ELSE single
           /\ pc'   = CASE ~last -> pc [] last /\ compact -> "compact" [] last /\ ~compact -> "serial"
           /\ left' = CASE ~last -> left \ {r}
                        [] last /\ compact -> {0}
                        [] last /\ ~compact -> {i \in 0 .. Len(s.bank_sequence) - 1 : BankShare(s, i) > 0}
           /\ UNCHANGED <<options, todo, done>>

LowerCompact(s) ==
  /\ pc = "compact"
  /\ LET chunk == Smaller(MAX_REPEAT, Total(s) - done)
         place == [row_start |-> s.row_start, row_count |-> s.row_count,
                   row_offset |-> (s.resolved_row - s.row_start) % s.row_count,
                   column_start |-> s.column_start, dependency_count |-> s.dependency_count,
                   column_offset |-> (s.resolved_column - s.column_start) % s.dependency_count]
     IN  /\ out' = Append1(out, CompactRecord(BaseAddrVec(s), chunk, s.bank_sequence, done,
                                             options.interleave_depth, place))
         /\ Visit(0, chunk, Total(s))

LowerSerial(s) ==
  /\ pc = "serial"
  /\ \E i \in left :
       LET av    == AddrVecFromSemantic(s, i, s.burst_length)
           chunk == Smaller(MAX_REPEAT, BankShare(s, i) - done)
       IN  /\ Visited(i) /\ av["Rank"] \in Ranks
           /\ out' = Append1(ToSingleBank(out, av), Record("PIM_MAC", av, chunk))
           /\ Visit(i, chunk, BankShare(s, i))

LowerLoad(s) ==
  /\ pc = "load"
  /\ \E r \in Ranks :
       LET av    == RankAddrVec(BaseAddrVec(s), r)
           chunk == Smaller(MAX_REPEAT, Total(s) - done)
       IN  /\ Visited(r)
           /\ out' = Load(ToHostAllBank(out, av), av, chunk)
           /\ Visit(r, chunk, Total(s))

(* One request at a time, on every rank.                                   *)
LowerComputeAll(s) ==
  /\ pc = "compute_all"
  /\ \E r \in Ranks :
       LET av     == RankAddrVec(AddrVecFromSemantic(s, done % s.num_requests, s.burst_length), r)
           loaded == EnsureAllBankLoad(out, av)
           last   == left = {r}
       IN  /\ Visited(r) /\ PIMAllBankPrepared(loaded, r)
           /\ out' = LeaveAllBank(Append1(ToPIMAllBank(loaded, av), Record("PIM_MAC_AB", av, 1)), av)
           /\ done' = IF last THEN done + 1 ELSE done
           /\ left' = IF ~last THEN left \ {r} ELSE IF done + 1 = Total(s) THEN {} ELSE Ranks
           /\ pc'   = IF left' = {} THEN "end" ELSE pc
           /\ UNCHANGED <<options, todo>>

(***************************************************************************)
(* The loop over the semantic records.                                     *)
(***************************************************************************)
Skipped(s) ==
  \/ s.accounting_only
  \/ s.kind \notin HostKinds \cup PerBankKinds \cup LoadKinds \cup ComputeAllKinds
  \/ IsWeight(s) /\ ~options.materialize_weights
  \/ s.kind = "PIMDataMove" /\ ~IsWeight(s) /\ s.movement_kind \in SemanticOnlyMoves

(* What is lowered. The rest raises, with no trace.                        *)
Lowerable(s) ==
  /\ s.num_requests > 0 /\ s.repeat > 0
  /\ IsWeight(s) => options.synthetic_address_policy = "bounded_surrogate_v1"
  /\ s.kind \in HostKinds \/ IsWeight(s) =>
       /\ s.base_byte >= 0 /\ StreamStride(s) > 0
       /\ options.synthetic_address_policy = "bounded_surrogate_v1" =>
            s.base_byte % Prefetch = 0 /\ StreamStride(s) % Prefetch = 0
       /\ options.synthetic_address_policy = "strict_bytes" =>
            InCapacity(s.base_byte + (StreamCount(s) * s.repeat - 1) * StreamStride(s))
  /\ s.kind = "PIMDataMove" /\ ~IsWeight(s) => s.movement_kind = "broadcast_or_accounted_tile_load"

Loop(s) ==
  CASE s.kind \in HostKinds \/ IsWeight(s) -> "host"
    [] s.kind \in PerBankKinds ->
         IF options.interleave_banks /\ Len(s.bank_sequence) > 1 /\ MacMode(s.kind) = "all_bank"
         THEN "all_bank" ELSE "single"
    [] s.kind \in ComputeAllKinds -> "compute_all"
    [] OTHER -> "load"

Begin(s) ==
  /\ pc = "begin" /\ todo # <<>> /\ ~Skipped(s)
  /\ pc'   = Loop(s)
  /\ left' = CASE Loop(s) = "host" -> {0}
               [] Loop(s) \in {"all_bank", "single"} -> AllBankTargetRanks(s)
               [] OTHER -> Ranks
  /\ done' = 0
  /\ out'  = [out EXCEPT !.work = Empty.work]
  /\ UNCHANGED <<options, todo>>

NextRecord(s) ==
  /\ todo # <<>> /\ (pc = "end" \/ (pc = "begin" /\ Skipped(s)))
  /\ todo' = Tail(todo) /\ pc' = "begin" /\ left' = {} /\ done' = 0
  /\ UNCHANGED <<options, out>>

Init ==
  /\ options \in Options /\ todo \in Workloads
  /\ \A i \in DOMAIN todo : Skipped(todo[i]) \/ Lowerable(todo[i])
  /\ pc = "begin" /\ left = {} /\ done = 0 /\ out = Empty

Lowered == pc = "begin" /\ todo = <<>>

Next ==
  \/ Begin(semantic)
  \/ LowerHost(semantic)
  \/ LowerAllBank(semantic)
  \/ LowerPerBank(semantic)
  \/ LowerCompact(semantic)
  \/ LowerSerial(semantic)
  \/ LowerLoad(semantic)
  \/ LowerComputeAll(semantic)
  \/ NextRecord(semantic)
  \/ Lowered /\ UNCHANGED vars

Spec == Init /\ [][Next]_vars

(***************************************************************************)
(* Properties.                                                             *)
(***************************************************************************)
(* The sequence validate_sequence checks at the end is accepted: the mode  *)
(* commands and loads inserted by the lowering's own record of the ranks   *)
(* are those the protocol of the trace asks for, on every rank, whatever   *)
(* the workload mixes.                                                     *)
SequenceAccepted == out.trace.accepted

(* Every record is one validate_record accepts: addresses, strides and     *)
(* rotations stay within the hierarchy and repeats within their bound.     *)
RecordsAccepted == out.valid

(* The state just after a record of the loop was appended, and the number  *)
(* of the first of its requests in the stream of the semantic record.      *)
JustLowered(loop) == todo # <<>> /\ (pc = "end" \/ (pc = loop /\ done > 0))
FirstOf(share) == (IF done = 0 THEN share ELSE done) - out.last.repeat

(* The bytes of a host stream.                                             *)
StreamByte(s, i) ==
  LET logical == s.base_byte + i * StreamStride(s)
  IN  IF options.synthetic_address_policy = "strict_bytes" THEN logical
      ELSE ((logical \div Prefetch) % Transactions) * TxBytes

(* What a stream is cut into replays, request by request and in order, to  *)
(* what the semantic record asks for: the records of a host stream to its  *)
(* bytes, where they wrap and where a repeat begins, too; compact records  *)
(* to the banks, rows and columns of the semantic record's own rotation.   *)
ReplayExact ==
  LET s == semantic
      share == StreamCount(s) * s.repeat
  IN  /\ JustLowered("host") /\ Loop(s) = "host" =>
           \A k \in 0 .. out.last.repeat - 1 : HostByte(out.last, k) = StreamByte(s, FirstOf(share) + k)
      /\ JustLowered("compact") /\ out.last.opcode = "PIM_MAC" /\ out.last.bank_sequence # <<>> =>
           \A k \in 0 .. out.last.repeat - 1 :
             Expand(out.last, k) = AddrVecFromSemantic(s, FirstOf(Total(s)) + k, options.interleave_depth)

(* When a semantic record is lowered its banks have got its work: per-bank *)
(* commands as many as it has requests, all-bank commands as many as       *)
(* conserve the work per bank, on every rank its banks lie in.             *)
SumOver(f, S) ==
  LET n[k \in 0 .. Cardinality(Banks)] == IF k = 0 THEN 0 ELSE n[k - 1] + (IF k - 1 \in S THEN f[k - 1] ELSE 0)
  IN  n[Cardinality(Banks)]
WorkConserved ==
  LET s == semantic
      Asked(b) == Cardinality({i \in 0 .. Total(s) - 1 :
                     s.bank_sequence[((i \div options.interleave_depth) % Len(s.bank_sequence)) + 1] = b})
  IN  pc = "end" =>
        CASE Loop(s) = "single" ->
               IF options.interleave_banks THEN \A b \in Banks : out.work[b] = Asked(b)
               ELSE SumOver(out.work, Banks) = Total(s)
          [] Loop(s) = "all_bank" ->
               \A i \in DOMAIN s.bank_sequence :
                 LET got == out.work[s.bank_sequence[i]]
                 IN  got * Len(s.bank_sequence) >= Total(s) /\ (got - 1) * Len(s.bank_sequence) < Total(s)
          [] Loop(s) = "compute_all" -> \A b \in Banks : out.work[b] = Total(s)
          [] OTHER -> TRUE

(* A host access is sent to a rank in single-bank mode: validate_sequence  *)
(* says that it "requires SB mode".                                        *)
HostStreamInSB ==
  LET s == semantic
  IN  JustLowered("host") /\ Loop(s) = "host" =>
        \A k \in 0 .. out.last.repeat - 1 :
          out.trace.modes[AddrVecFromByteAddress(HostByte(out.last, k))["Rank"]] = "SB"
=============================================================================
