------------------------- MODULE TransformerManifest -------------------------
(***************************************************************************)
(* The manifests a transformer trace is generated from: one for attention, *)
(* one for the feed-forward part or one for its mixture of experts, with   *)
(* the checks they must pass and the quantities derived from them. Checks  *)
(* that only ask for a field to be there are left out.                     *)
(***************************************************************************)
EXTENDS Integers, Sequences, FiniteSets, FiniteSetsExt

Smallest(a, b) == IF a < b THEN a ELSE b

CONSTANT DefaultTile    \* the tokens of a tile unless the context is shorter

ASSUME TileAssumption == DefaultTile \in Nat \ {0}

Datatypes == {"int8", "fp16", "bf16"}
Gated     == {"swiglu_3proj", "geglu_3proj"}
Lanes(datatype) == IF datatype = "int8" THEN 32 ELSE 16

(* Seeded fault: the last, incomplete request is left out.                 *)
NumRequestsFloor(elements, datatype) ==
  LET n == elements \div Lanes(datatype) IN IF n < 1 THEN 1 ELSE n

NumRequests(elements, datatype) ==
  LET n == (elements + Lanes(datatype) - 1) \div Lanes(datatype) IN IF n < 1 THEN 1 ELSE n

HeadsMatch(m) ==
  /\ m.kv_heads \in 1 .. m.num_heads /\ m.num_heads % m.kv_heads = 0
  /\ m.head_group_size = m.num_heads \div m.kv_heads

(* How often a stream of work rotates through rows and columns, and over   *)
(* which banks.                                                            *)
ValidDefaults(d) == d.bank_sequence # <<>> /\ d.burst_length > 0 /\ d.row_count > 0 /\ d.dependency_count > 0

ValidAttention(m) ==
  /\ m.phase \in {"decode", "prefill"}
  /\ m.schedule_policy \in {"serialized", "overlap_independent_heads"}
  /\ m.phase = "prefill" => m.schedule_policy = "serialized"
  /\ m.datatype \in Datatypes
  /\ \A n \in {m.num_layers, m.num_heads, m.head_dim, m.seq_len, m.score_tile_tokens,
               m.context_tile_tokens, m.head_group_size} : n > 0
  /\ m.past_len >= 0 /\ HeadsMatch(m)
  /\ m.schedule_policy = "overlap_independent_heads" => m.num_heads >= 2
  /\ m.context_tile_tokens = m.score_tile_tokens
  /\ m.phase = "decode" => m.past_len > 0
  /\ m.phase = "prefill" =>
       /\ m.prompt_len = m.seq_len /\ m.past_len = 0
       /\ m.attention_mode = "causal_prefill" /\ m.prefill_only
       /\ m.score_tile_tokens <= m.seq_len
  /\ ValidDefaults(m.ramulator_visible_defaults)

ValidFFN(m) ==
  /\ m.phase \in {"decode", "prefill"} /\ m.schedule_policy = "serialized"
  /\ m.datatype \in Datatypes
  /\ \A n \in {m.num_layers, m.seq_len, m.hidden_size, m.ffn_hidden_size, m.ffn_activation_tile_size} : n > 0
  /\ m.ffn_activation_tile_size <= m.hidden_size
  /\ m.phase = "prefill" => m.prompt_len = m.seq_len /\ m.prefill_only
  /\ m.ffn_variant \in Gated \cup {"relu_2proj"}
  /\ CASE m.ffn_variant = "relu_2proj"   -> m.activation = "relu"
       [] m.ffn_variant = "swiglu_3proj" -> m.activation # "relu"
       [] OTHER                          -> m.activation \in {"gelu", "gelu_pytorch_tanh"}
  /\ ValidDefaults(m.ramulator_visible_defaults)

ValidMoE(m) ==
  /\ m.phase = "decode" /\ m.schedule_policy \in {"serialized", "overlap_selected_experts"}
  /\ m.datatype \in Datatypes
  /\ \A n \in {m.num_layers, m.seq_len, m.hidden_size, m.expert_hidden_size, m.num_experts, m.top_k} : n > 0
  /\ m.schedule_policy = "overlap_selected_experts" => m.top_k >= 2
  /\ m.top_k <= m.num_experts /\ Len(m.selected_experts) = m.top_k
  /\ \A i, j \in 1 .. m.top_k :
       /\ m.selected_experts[i] \in 0 .. m.num_experts - 1
       /\ m.selected_experts[i] = m.selected_experts[j] => i = j
  /\ ValidDefaults(m.ramulator_visible_defaults)

(* The two manifests of a layer must agree.                                *)
Agree(attention, other) ==
  /\ attention.num_heads * attention.head_dim > 0
  /\ other.hidden_size = attention.hidden_size
  /\ other.datatype = attention.datatype /\ other.num_layers = attention.num_layers
ValidPrefill(attention, ffn) ==
  attention.phase = "prefill" /\ ffn.phase = "prefill" /\ attention.seq_len = ffn.seq_len

(***************************************************************************)
(* The manifests built for a model: a specification gives the sizes, the   *)
(* workload the phase and the number of tokens.                            *)
(***************************************************************************)
ValidSpec(spec) == spec.num_heads % spec.kv_heads = 0 /\ spec.ffn_variant \in Gated \cup {"relu_2proj"}

Defaults == [bank_sequence |-> <<0, 1, 2, 3>>, burst_length |-> 1, row_count |-> 16, dependency_count |-> 8]

AttentionManifest(spec, phase, len, policy) ==
  LET prefill == phase = "prefill"
      tile    == Smallest(DefaultTile, len)
  IN  [phase |-> phase, num_layers |-> spec.num_layers, num_heads |-> spec.num_heads,
       kv_heads |-> spec.kv_heads, head_group_size |-> spec.num_heads \div spec.kv_heads,
       head_dim |-> spec.head_dim, hidden_size |-> spec.hidden_size, datatype |-> spec.datatype,
       past_len |-> IF prefill THEN 0 ELSE len, seq_len |-> IF prefill THEN len ELSE 1,
       prompt_len |-> IF prefill THEN len ELSE 0, prefill_only |-> prefill,
       attention_mode |-> IF prefill THEN "causal_prefill" ELSE "decode",
       score_tile_tokens |-> tile, context_tile_tokens |-> tile,
       schedule_policy |-> policy, ramulator_visible_defaults |-> Defaults]

FFNManifest(spec, phase, len, policy) ==
  LET prefill == phase = "prefill"
  IN  [phase |-> phase, num_layers |-> spec.num_layers, hidden_size |-> spec.hidden_size,
       ffn_hidden_size |-> spec.ffn_hidden_size, ffn_activation_tile_size |-> spec.hidden_size,
       ffn_variant |-> spec.ffn_variant, activation |-> spec.activation, datatype |-> spec.datatype,
       seq_len |-> IF prefill THEN len ELSE 1, prompt_len |-> IF prefill THEN len ELSE 0,
       prefill_only |-> prefill, schedule_policy |-> policy, ramulator_visible_defaults |-> Defaults]

MoEManifest(spec, selected, policy) ==
  [phase |-> "decode", num_layers |-> spec.num_layers, hidden_size |-> spec.hidden_size, seq_len |-> 1,
   expert_hidden_size |-> spec.ffn_hidden_size, num_experts |-> spec.num_experts, top_k |-> spec.top_k,
   selected_experts |-> selected, datatype |-> spec.datatype, schedule_policy |-> policy,
   ramulator_visible_defaults |-> Defaults]

(***************************************************************************)
(* Tokens are taken in tiles. A query attends to the keys up to its own.   *)
(***************************************************************************)
TileRanges(total, tile) ==
  [i \in 1 .. (total + tile - 1) \div tile |->
     [start |-> (i - 1) * tile, tokens |-> Smallest(tile, total - (i - 1) * tile)]]

(* Seeded fault: a query does not attend to its own key.                   *)
CausalPairCountStrict(query, key) ==
  MapThenSumSet(LAMBDA q : Cardinality({k \in key.start .. key.start + key.tokens - 1 : k < q}),
                query.start .. query.start + query.tokens - 1)

CausalPairCount(query, key) ==
  LET Legal(q) == LET n == Smallest(key.start + key.tokens, q + 1) - key.start IN IF n < 0 THEN 0 ELSE n
  IN  MapThenSumSet(Legal, query.start .. query.start + query.tokens - 1)
=============================================================================
