------------------------- MODULE TransformerRecords -------------------------
(***************************************************************************)
(* The records of the blocks of a transformer layer, each block numbered   *)
(* from 0 and written for layer 0: the projections, the cache accesses,    *)
(* tiled attention, the feed-forward network and the mixture of experts.   *)
(* A record says what operation it is, the tensors it takes and makes, and *)
(* the records it declares itself dependent on. A tensor is its layer, its *)
(* name, where it was placed, and a head (or an expert) and two tiles      *)
(* where it has them.                                                      *)
(***************************************************************************)
EXTENDS TransformerManifest, SequencesExt

Ids(records) == {r.record_id : r \in records}
Tensor(name, head, tile, tile2) ==
  [layer |-> 0, name |-> name, place |-> "plain", head |-> head, tile |-> tile, tile2 |-> tile2]
Whole(name) == Tensor(name, 0, 0, 0)
Placed(tensor, place) == [tensor EXCEPT !.place = place]
Visible(tensor) == Placed(tensor, "pim_visible")

(* A loop that appends records: chunk[<<i, next>>] are those of its i-th   *)
(* round, the first of which gets the number next.                         *)
AppendEach(records, chunk, n) ==
  LET after[i \in 0 .. n] ==
        IF i = 0 THEN records ELSE LET before == after[i - 1] IN before \o chunk[<<i, Len(before)>>]
  IN  after[n]

(* The records that made any of the tensors.                               *)
Makers(records, tensors) == {r \in Range(records) : r.outputs \cap tensors # {}}

(* num_requests: the multiplications a compute record stands for; pairs:   *)
(* the query and key tiles an attention record multiplies.                 *)
Record(id, kind, op, inputs, outputs, deps) ==
  [record_id |-> id, kind |-> kind, op |-> op, inputs |-> inputs, outputs |-> outputs,
   logical_dependencies |-> deps, num_requests |-> 0, pairs |-> <<>>]
Compute(m, elements, record) == [record EXCEPT !.num_requests = NumRequests(elements, m.datatype)]
AttentionRecord(m, id, kind, inputs, output, deps, query, key, count) ==
  Compute(m, count * m.head_dim,
          [Record(id, kind, kind, inputs, {output}, deps) EXCEPT !.pairs = <<query, key, count>>])
Softmax(records, scores, probabilities) ==
  Record(Len(records), "AttentionSoftmax", "attention_softmax_accounting", scores, probabilities,
         Ids(Makers(records, scores)))

Residency(id, op, input, output, deps) == Record(id, "PIMOperandResidency", op, {input}, {output}, deps)
Resident(name, expert) == Placed(Tensor(name, expert, 0, 0), "resident")
WeightMove(id, name, expert) ==
  Record(id, "PIMDataMove", "weight_residency", {Tensor(name, expert, 0, 0)}, {Resident(name, expert)}, {})
Barrier(op) == Record(0, "Barrier", op, {}, {}, {})
Drain       == Record(0, "Drain", "final_drain", {}, {}, {})

(***************************************************************************)
(* Projections and cache writes.                                           *)
(***************************************************************************)
Projection(m, id, op, input, output, dim) ==
  Compute(m, m.seq_len * m.hidden_size * dim,
          Record(id, "FFNProjection", op, {input, Placed(Whole(op), "weight.resident")}, {output}, {}))

QKVProjections(m, q_dim, kv_dim) ==
  <<Projection(m, 0, "q_projection", Whole("hidden"), Whole("Q"), q_dim),
    Projection(m, 1, "k_projection", Whole("hidden"), Whole("K"), kv_dim),
    Projection(m, 2, "v_projection", Whole("hidden"), Whole("V"), kv_dim)>>

OProjection(m, q_dim) ==
  <<Projection(m, 0, "o_projection", Whole("attention_context"), Whole("attention_output"), q_dim)>>

CacheWrite(id, op, name) == Record(id, "HostWrite", op, {Whole(name)}, {Placed(Whole(name), "kv_cache")}, {})
DecodeCacheWrites  == <<CacheWrite(0, "kv_cache_k_append", "K"), CacheWrite(1, "kv_cache_v_append", "V")>>
PrefillCacheWrites ==
  <<CacheWrite(0, "kv_cache_k_prefill_population", "K"), CacheWrite(1, "kv_cache_v_prefill_population", "V")>>

(***************************************************************************)
(* Decoding: one query against the tiles of the cache. A head first scores *)
(* every tile, then weighs them; with one tile there is nothing to reduce. *)
(***************************************************************************)
OneQuery == [start |-> 0, tokens |-> 1]
CacheTiles(m) == TileRanges(m.past_len, m.score_tile_tokens)

CacheRead(id, op, tensor, deps) == Record(id, "HostRead", op, {tensor}, {Placed(tensor, "resident")}, deps)

(* The query of a head, then each tile is read and scored.                 *)
ScoreTile(m, head, i, query, id) ==
  <<CacheRead(id, "kv_cache_k_tile_read", Tensor("K.tile", head, i, 0), {}),
    AttentionRecord(m, id + 1, "AttentionScore",
      {Visible(Tensor("Q", head, 0, 0)), Placed(Tensor("K.tile", head, i, 0), "resident")},
      Tensor("score", head, i, 0), {query, id}, OneQuery, CacheTiles(m)[i], CacheTiles(m)[i].tokens)>>
AddScores(m, records, head) ==
  LET query == Len(records)
      Q     == Tensor("Q", head, 0, 0)
  IN  AppendEach(Append(records, Residency(query, "q_operand_residency", Q, Visible(Q), {})),
                 [p \in (DOMAIN CacheTiles(m)) \X Nat |-> ScoreTile(m, head, p[1], query, p[2])],
                 Len(CacheTiles(m)))

AddReduction(records, contexts, output) ==
  IF Cardinality(contexts) > 1
  THEN Append(records, Record(Len(records), "PIMElementwise", "attention_context_reduction_accounting",
                              contexts, {output}, Ids(Makers(records, contexts))))
  ELSE records

(* The scores of a head become probabilities, and each tile is weighed.    *)
ContextTile(m, head, i, softmax, id) ==
  LET probability == Tensor("probability", head, i, 0)
      V           == Tensor("V.tile", head, i, 0)
  IN  <<Residency(id, "attention_probability_residency", probability, Visible(probability), {softmax}),
        CacheRead(id + 1, "kv_cache_v_tile_read", V, {softmax}),
        AttentionRecord(m, id + 2, "AttentionContext", {Visible(probability), Placed(V, "resident")},
          Tensor("context", head, i, 0), {id, softmax, id + 1}, OneQuery, CacheTiles(m)[i], CacheTiles(m)[i].tokens)>>
AddContexts(m, records, head) ==
  LET softmax       == Len(records)
      PerTile(name) == {Tensor(name, head, i, 0) : i \in DOMAIN CacheTiles(m)}
      weighed       == AppendEach(Append(records, Softmax(records, PerTile("score"), PerTile("probability"))),
                                  [p \in (DOMAIN CacheTiles(m)) \X Nat |-> ContextTile(m, head, p[1], softmax, p[2])],
                                  Len(CacheTiles(m)))
  IN  AddReduction(weighed, PerTile("context"), Tensor("context_reduced", head, 0, 0))

(***************************************************************************)
(* Prefill: a tile of queries against the tiles of keys not after it.      *)
(***************************************************************************)
QueryTiles(m) == TileRanges(m.seq_len, m.score_tile_tokens)
KeyTiles(m)   == TileRanges(m.seq_len, m.context_tile_tokens)
Pairs(m, q, k) == CausalPairCount(QueryTiles(m)[q], KeyTiles(m)[k])
Legal(m, q)    == {k \in DOMAIN KeyTiles(m) : Pairs(m, q, k) > 0}

PrefillOperand(id, op, name, head, k) ==
  Residency(id, op, Tensor(name, head, k, 0), Visible(Tensor(name, head, k, 0)), {})

QueryScore(m, head, q, k, query, id) ==
  <<PrefillOperand(id, "k_prefill_tile_residency", "K", head, k),
    AttentionRecord(m, id + 1, "AttentionScore",
      {Visible(Tensor("Q", head, q, 0)), Visible(Tensor("K", head, k, 0))},
      Tensor("score", head, q, k), {query, id}, QueryTiles(m)[q], KeyTiles(m)[k], Pairs(m, q, k))>>
QueryContext(m, head, q, k, softmax, id) ==
  LET probability == Tensor("probability", head, q, k)
  IN  <<Residency(id, "attention_probability_residency", probability, Visible(probability), {softmax}),
        PrefillOperand(id + 1, "v_prefill_tile_residency", "V", head, k),
        AttentionRecord(m, id + 2, "AttentionContext",
          {Visible(probability), Visible(Tensor("V", head, k, 0))},
          Tensor("context", head, q, k), {id, softmax, id + 1}, QueryTiles(m)[q], KeyTiles(m)[k], Pairs(m, q, k))>>

AddQuery(m, records, head, q) ==
  LET query         == Len(records)
      PerTile(name) == {Tensor(name, head, q, k) : k \in Legal(m, q)}
      Each(rs, chunk) == AppendEach(rs, chunk, Len(KeyTiles(m)))
      scored  == Each(Append(records, PrefillOperand(query, "q_operand_residency", "Q", head, q)),
                      [p \in (DOMAIN KeyTiles(m)) \X Nat |->
                         IF p[1] \in Legal(m, q) THEN QueryScore(m, head, q, p[1], query, p[2]) ELSE <<>>])
      softmax == Len(scored)
      weighed == Each(Append(scored, Softmax(scored, PerTile("score"), PerTile("probability"))),
                      [p \in (DOMAIN KeyTiles(m)) \X Nat |->
                         IF p[1] \in Legal(m, q) THEN QueryContext(m, head, q, p[1], softmax, p[2]) ELSE <<>>])
  IN  AddReduction(weighed, PerTile("context"), Tensor("context_reduced", head, q, 0))

(***************************************************************************)
(* Attention, part by part. Decoding weighs a head when it has scored it,  *)
(* or, as heads are independent, scores all before it weighs any.          *)
(***************************************************************************)
Part(does, head, query) == [does |-> does, head |-> head, query |-> query]
DecodeParts(m) ==
  IF m.schedule_policy = "overlap_independent_heads"
  THEN [k \in 1 .. 2 * m.num_heads |-> IF k <= m.num_heads THEN Part("score", k - 1, 1)
                                       ELSE Part("weigh", k - 1 - m.num_heads, 1)]
  ELSE [k \in 1 .. 2 * m.num_heads |-> Part(IF k % 2 = 1 THEN "score" ELSE "weigh", (k - 1) \div 2, 1)]
PrefillParts(m) ==
  LET queries == Len(QueryTiles(m))
  IN  [k \in 1 .. m.num_heads * queries |-> Part("attend", (k - 1) \div queries, ((k - 1) % queries) + 1)]

AddPart(m, records, part) ==
  CASE part.does = "score"  -> AddScores(m, records, part.head)
    [] part.does = "weigh"  -> AddContexts(m, records, part.head)
    [] part.does = "attend" -> AddQuery(m, records, part.head, part.query)
AddParts(m, parts) ==
  LET after[k \in 0 .. Len(parts)] == IF k = 0 THEN <<>> ELSE AddPart(m, after[k - 1], parts[k])
  IN  after[Len(parts)]

DecodeAttention(m)  == AddParts(m, DecodeParts(m))
PrefillAttention(m) == AddParts(m, PrefillParts(m))

(* Seeded fault: a head of a single tile, which needs no reduction, is     *)
(* left out.                                                               *)
TerminalsReduced(records) == {r \in Range(records) : r.op = "attention_context_reduction_accounting"}

(* The results the output projection takes: the reductions, and what no    *)
(* reduction takes.                                                        *)
Terminals(records) ==
  LET reductions == {r \in Range(records) : r.op = "attention_context_reduction_accounting"}
      reduced    == UNION {r.logical_dependencies : r \in reductions}
  IN  reductions \cup {r \in Range(records) : r.kind = "AttentionContext" /\ r.record_id \notin reduced}

(***************************************************************************)
(* The feed-forward network.                                               *)
(***************************************************************************)
FFNOperands(m) ==
  LET n       == Len(TileRanges(m.hidden_size, m.ffn_activation_tile_size))
      gated   == m.ffn_variant \in Gated
      weights == IF gated THEN <<"up_weight", "gate_weight", "down_weight">> ELSE <<"up_weight", "down_weight">>
      Tile(i) == Tensor("hidden.tile", 0, i, 0)
  IN  [i \in 1 .. n |-> Record(i - 1, "PIMDataMove", "ffn_hidden_activation_tile_setup",
                               {Tile(i)}, {Placed(Tile(i), "resident")}, {})]
      \o [i \in DOMAIN weights |-> WeightMove(n + i - 1, weights[i], 0)]
      \o <<Record(n + Len(weights), "PIMOperandReuse", "ffn_hidden_reuse",
                  {Placed(Tile(i), "resident") : i \in 1 .. n}, {Whole("hidden.reused")}, 0 .. n - 1)>>

WeightId(records, name) == (CHOOSE r \in Range(records) : Resident(name, 0) \in r.outputs).record_id

FFNProjection(m, id, op, input, weight, output, deps) ==
  Compute(m, m.seq_len * m.hidden_size * m.ffn_hidden_size,
          Record(id, "FFNProjection", op, {input, Resident(weight, 0)}, {output}, deps))
Elementwise(id, op, inputs, output, deps) == Record(id, "PIMElementwise", op, inputs, {output}, deps)

(* base is the record that makes the hidden state reusable.                *)
FFNGated(m, base, up_weight, gate_weight) ==
  <<FFNProjection(m, base + 1, "ffn_up_projection", Whole("hidden.reused"), "up_weight", Whole("up"), {base, up_weight}),
    Residency(base + 2, "ffn_up_intermediate_residency", Whole("up"), Visible(Whole("up")), {base + 1}),
    FFNProjection(m, base + 3, "ffn_gate_projection", Whole("hidden.reused"), "gate_weight", Whole("gate"),
                  {base, gate_weight}),
    Residency(base + 4, "ffn_gate_intermediate_residency", Whole("gate"), Visible(Whole("gate")), {base + 3}),
    Elementwise(base + 5, "ffn_gate_activation_accounting", {Visible(Whole("gate"))}, Whole("activated"), {base + 4}),
    Residency(base + 6, "ffn_activated_gate_residency", Whole("activated"), Visible(Whole("activated")), {base + 5}),
    Elementwise(base + 7, "ffn_gated_multiply_accounting", {Visible(Whole("activated")), Visible(Whole("up"))},
                Whole("intermediate"), {base + 6, base + 2})>>
FFNRelu(m, base, up_weight) ==
  <<FFNProjection(m, base + 1, "ffn_up_projection", Whole("hidden.reused"), "up_weight", Whole("up"), {base, up_weight}),
    Residency(base + 2, "ffn_up_intermediate_residency", Whole("up"), Visible(Whole("up")), {base + 1}),
    Elementwise(base + 3, "ffn_relu_activation_accounting", {Visible(Whole("up"))}, Whole("intermediate"), {base + 2})>>

FFN(m) ==
  LET operands == FFNOperands(m)
      base     == Len(operands) - 1
      inner    == operands \o
                    IF m.ffn_variant \in Gated
                    THEN FFNGated(m, base, WeightId(operands, "up_weight"), WeightId(operands, "gate_weight"))
                    ELSE FFNRelu(m, base, WeightId(operands, "up_weight"))
      next     == Len(inner)
  IN  inner \o
      <<Residency(next, "ffn_intermediate_bank_local_residency", Whole("intermediate"),
                  Placed(Whole("intermediate"), "bank_local"), {next - 1}),
        FFNProjection(m, next + 1, "ffn_down_projection", Placed(Whole("intermediate"), "bank_local"), "down_weight",
                      Whole("hidden_out"), {next, WeightId(operands, "down_weight")})>>

(***************************************************************************)
(* The mixture of experts.                                                 *)
(***************************************************************************)
DynamicMove(id, op, input, output, deps) == Record(id, "PIMDataMove", op, {input}, {output}, deps)
MoECompute(m, id, kind, op, inputs, output, deps, columns, rows) ==
  Compute(m, m.seq_len * columns * rows, Record(id, kind, op, inputs, {output}, deps))
Accounting(id, kind, inputs, output, deps) == Record(id, kind, kind, inputs, {output}, deps)

Routing(m) ==
  <<DynamicMove(0, "moe_router_input_setup", Whole("hidden"), Whole("router_input"), {}),
    WeightMove(1, "router_weight", 0),
    MoECompute(m, 2, "MoERouter", "moe_router_projection", {Whole("router_input"), Resident("router_weight", 0)},
               Whole("router_logits"), {0, 1}, m.num_experts, m.hidden_size),
    Residency(3, "moe_router_logits_residency", Whole("router_logits"), Visible(Whole("router_logits")), {2}),
    Accounting(4, "MoETopK", {Visible(Whole("router_logits"))}, Whole("topk_experts"), {3}),
    Accounting(5, "MoEDispatch", {Whole("hidden"), Whole("topk_experts")}, Whole("dispatch_accounted"), {4}),
    DynamicMove(6, "moe_token_dispatch_materialized", Whole("dispatch_accounted"), Whole("dispatched"), {5})>>

Expert(m, e, base) ==
  LET T(name) == Tensor(name, e, 0, 0)
      Project(id, inputs, output, deps) ==
        MoECompute(m, id, "MoEExpertFFN", "moe_expert_projection", inputs, output, deps, m.hidden_size, m.expert_hidden_size)
  IN  <<WeightMove(base, "expert_up_weight", e),
        Project(base + 1, {Whole("dispatched"), Resident("expert_up_weight", e)}, T("expert_up"), {6, base}),
        WeightMove(base + 2, "expert_gate_weight", e),
        Project(base + 3, {Whole("dispatched"), Resident("expert_gate_weight", e)}, T("expert_gate"), {6, base + 2}),
        WeightMove(base + 4, "expert_down_weight", e),
        Elementwise(base + 5, "gate_activation", {T("expert_gate")}, T("expert_activated"), {base + 3}),
        Elementwise(base + 6, "gated_multiply", {T("expert_activated"), T("expert_up")}, T("expert_gated"),
                    {base + 5, base + 1}),
        Residency(base + 7, "expert_intermediate_residency", T("expert_gated"), Placed(T("expert_gated"), "bank_local"), {base + 6}),
        Project(base + 8, {Placed(T("expert_gated"), "bank_local"), Resident("expert_down_weight", e)}, T("expert_output"),
                {base + 7, base + 4}),
        Residency(base + 9, "expert_output_residency", T("expert_output"), Visible(T("expert_output")), {base + 8})>>

(* Seeded fault: the second half of the overlapped experts is forgotten.   *)
ExpertOrderHalf(m) ==
  IF m.schedule_policy = "overlap_selected_experts"
  THEN [i \in 1 .. (Len(m.selected_experts) + 1) \div 2 |-> m.selected_experts[2 * i - 1]]
  ELSE m.selected_experts

(* Overlapped experts: those at even positions, then those at odd ones.    *)
ExpertOrder(m) ==
  LET n    == Len(m.selected_experts)
      even == (n + 1) \div 2
  IN  IF m.schedule_policy = "overlap_selected_experts"
      THEN [i \in 1 .. n |-> m.selected_experts[IF i <= even THEN 2 * i - 1 ELSE 2 * (i - even)]]
      ELSE m.selected_experts

MoE(m) ==
  LET order   == ExpertOrder(m)
      experts == AppendEach(Routing(m), [p \in (DOMAIN order) \X Nat |-> Expert(m, order[p[1]], p[2])], Len(order))
      results == {r \in Range(experts) : r.op = "expert_output_residency"}
      next    == Len(experts)
  IN  experts \o
      <<Accounting(next, "MoECombine", UNION {r.outputs : r \in results}, Whole("combined"), Ids(results)),
        DynamicMove(next + 1, "moe_expert_output_combine_materialized", Whole("combined"),
                    Placed(Whole("combined"), "materialized"), {next})>>
=============================================================================
