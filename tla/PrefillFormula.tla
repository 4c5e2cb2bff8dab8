--------------------------- MODULE PrefillFormula ---------------------------
(***************************************************************************)
(* prefill_formula of the experiment's backend: what the prefill of a      *)
(* model costs, in multiplications of the device, worked out without a     *)
(* trace. It has its own tiling, rounding and table of lanes. The model is *)
(* given by its two manifests.                                             *)
(***************************************************************************)
EXTENDS TransformerManifest

pim_lanes == [int8 |-> 32, fp16 |-> 16]

CeilDiv(n, d) == (n + d - 1) \div d

PrefillTileRanges(total, tile) ==
  {[start |-> s, tokens |-> Smallest(tile, total - s)] : s \in {n \in 0 .. total - 1 : n % tile = 0}}

PrefillCausalPairCount(q, k) ==
  Cardinality({p \in (q.start .. q.start + q.tokens - 1) \X (k.start .. k.start + k.tokens - 1) : p[2] <= p[1]})

PrefillAttentionMACs(m, lanes) ==
  LET MACs(tiles) == 2 * CeilDiv(PrefillCausalPairCount(tiles[1], tiles[2]) * m.head_dim, lanes)
  IN  m.num_heads * MapThenSumSet(MACs, PrefillTileRanges(m.seq_len, m.score_tile_tokens)
                                          \X PrefillTileRanges(m.seq_len, m.context_tile_tokens))

prefill_formula(m, ffn) ==
  LET lanes   == pim_lanes[m.datatype]
      q_proj  == m.num_heads * m.head_dim
      kv_proj == m.kv_heads * m.head_dim
      Projected(dim) == CeilDiv(m.prompt_len * m.hidden_size * dim, lanes)
  IN  [qkvo_projection |-> 2 * Projected(q_proj) + 2 * Projected(kv_proj),
       attention       |-> PrefillAttentionMACs(m, lanes),
       ffn             |-> (IF ffn.ffn_variant = "relu_2proj" THEN 2 ELSE 3) * Projected(ffn.ffn_hidden_size)]
=============================================================================
