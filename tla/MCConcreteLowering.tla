------------------------- MODULE MCConcreteLowering -------------------------
(***************************************************************************)
(* A channel of two ranks of two bank groups of one bank, 32 transactions  *)
(* of 4 bytes: a host stream of a few accesses crosses rows, ranks and the *)
(* capacity. Records stand for three requests at most, so that streams are *)
(* split.                                                                  *)
(***************************************************************************)
EXTENDS ConcreteLowering

MCLevelNames == <<"Channel", "Rank", "BankGroup", "Bank", "Row", "Column">>
MCLevelSize ==
  [l \in {MCLevelNames[i] : i \in 1 .. 6} |->
     CASE l \in {"Rank", "BankGroup", "Row"} -> 2 [] l = "Column" -> 4 [] OTHER -> 1]

Semantic(kind, n, repeat, banks) ==
  [kind |-> kind, num_requests |-> n, repeat |-> repeat, bank_sequence |-> banks, burst_length |-> 1,
   base_byte |-> 0, stride_bytes |-> 0, bytes |-> 0, operand_role |-> "activation",
   movement_kind |-> "broadcast_or_accounted_tile_load", accounting_only |-> FALSE,
   row_start |-> 0, row_count |-> 2, resolved_row |-> 1,
   column_start |-> 1, dependency_count |-> 2, resolved_column |-> 2]
Host(kind, n, repeat, base, stride) ==
  [Semantic(kind, n, repeat, <<>>) EXCEPT !.base_byte = base, !.stride_bytes = stride]
Move(movement, role) ==
  [Semantic("PIMDataMove", 2, 2, <<>>) EXCEPT !.movement_kind = movement, !.operand_role = role, !.bytes = 14,
                                               !.base_byte = 58]

HostWork ==
  {Host("HostRead", 5, 1, 8, 2), Host("HostWrite", 3, 2, 52, 6), Host("HostRead", 2, 1, 28, 64),
   Move("preloaded_stationary_weight_residency", "weight")}
BankWork ==
  {Semantic("AttentionScore", 7, 1, <<0, 2, 1>>), Semantic("FFNProjection", 4, 2, <<0, 1, 2, 3>>),
   Semantic("MoERouter", 5, 1, <<2, 3>>), Semantic("PIMCompute", 4, 1, <<1>>),
   [Semantic("AttentionContext", 8, 1, <<3, 0>>) EXCEPT !.burst_length = 2]}
RankWork ==
  {Move("broadcast_or_accounted_tile_load", "activation"), Move("dynamic_activation_tile", "activation"),
   Semantic("PIMLoadAll", 1, 4, <<>>), Semantic("PIMComputeAll", 2, 1, <<>>),
   [Semantic("PIMComputeAll", 1, 1, <<>>) EXCEPT !.accounting_only = TRUE]}

Option(mode, interleave, depth, policy) ==
  [mac_mode |-> mode, interleave_banks |-> interleave, interleave_depth |-> depth,
   materialize_weights |-> policy = "bounded_surrogate_v1", synthetic_address_policy |-> policy]
MCOptions ==
  {Option("per_kind", TRUE, 2, "bounded_surrogate_v1"), Option("all_bank", TRUE, 3, "strict_bytes"),
   Option("per_kind", FALSE, 1, "bounded_surrogate_v1"), Option("per_bank", TRUE, 1, "strict_bytes")}

Any == HostWork \cup BankWork \cup RankWork
MixedWork == {<<a, b, c>> : a \in RankWork \cup BankWork, b \in Any, c \in Any}
=============================================================================
