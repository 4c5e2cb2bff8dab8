-------------------------- MODULE TransformerTrace --------------------------
(***************************************************************************)
(* The generation of a trace of a whole transformer: for each layer the    *)
(* blocks are generated for layer 0, renumbered to follow what was emitted *)
(* before, retargeted to the layer, connected to each other by rewriting   *)
(* inputs and dependencies, and appended record by record.                 *)
(***************************************************************************)
EXTENDS TransformerRecords, PrefillFormula

CONSTANT Workloads    \* what to generate: the generator called and its two manifests

(* The generators convert a count with int() wherever they use it.         *)
ASSUME WorkloadsAssumption ==
  \A w \in Workloads :
    /\ {w.attention.num_heads, w.attention.seq_len, w.attention.past_len, w.attention.score_tile_tokens,
        w.attention.context_tile_tokens} \subseteq Int
    /\ w.generator # "moe" => {w.feed_forward.hidden_size, w.feed_forward.ffn_activation_tile_size} \subseteq Int
    /\ w.generator = "moe" => w.feed_forward.selected_experts \in Seq(Int)

(* A manifest has the fields its generator reads.                          *)
ASSUME ManifestsAssumption ==
  \A w \in Workloads :
    /\ {"num_heads", "past_len", "score_tile_tokens"} \subseteq DOMAIN w.attention
    /\ w.generator = "moe" =>
         {"seq_len", "hidden_size", "num_experts", "selected_experts", "datatype"} \subseteq DOMAIN w.feed_forward

VARIABLES
  workload,  \* the generator and the manifests
  layer,     \* the layer that is generated
  pc,        \* its block generated next
  next_id,   \* the number of the next record
  ids,       \* the records of this layer that later blocks connect to
  block,     \* the connected block, as far as it is not appended yet
  trace      \* the records appended

vars == <<workload, layer, pc, next_id, ids, block, trace>>

attention   == workload.attention
feedForward == workload.feed_forward

(* There is a generator for dense layers that decode, one for dense layers *)
(* that prefill and one for layers with a mixture of experts, that decode. *)
isMoE     == workload.generator = "moe"
isPrefill == workload.generator = "dense_prefill"

(* Of a mixture of experts the width of Q is taken to be the hidden size.  *)
QDim == IF isMoE THEN feedForward.hidden_size ELSE attention.num_heads * attention.head_dim

(* What a generator checks. Those that decode do not look at the phase of  *)
(* the attention they are given.                                           *)
Supported(w) ==
  /\ ValidAttention(w.attention) /\ Agree(w.attention, w.feed_forward)
  /\ IF w.generator = "moe" THEN ValidMoE(w.feed_forward) ELSE ValidFFN(w.feed_forward)
  /\ w.generator = "dense_prefill" => ValidPrefill(w.attention, w.feed_forward)

(***************************************************************************)
(* Renumbering and retargeting.                                            *)
(***************************************************************************)
RenumberRecords(records, start) ==
  [i \in DOMAIN records |->
     [records[i] EXCEPT !.record_id = start + i - 1,
                        !.logical_dependencies = {start + d : d \in @}]]

RetargetTensor(t) == IF t.layer = 0 THEN [t EXCEPT !.layer = layer] ELSE t
RetargetLayerZero(records) ==
  [i \in DOMAIN records |->
     [records[i] EXCEPT !.inputs = {RetargetTensor(t) : t \in @}, !.outputs = {RetargetTensor(t) : t \in @}]]

Generated(records) == RetargetLayerZero(RenumberRecords(records, next_id))
OfLayer(name) == RetargetTensor(Whole(name))
IdOf(records, op) == (CHOOSE r \in Range(records) : r.op = op).record_id

(***************************************************************************)
(* Connecting the blocks of a layer: which way is the generator's choice,  *)
(* what attention consists of is that of the attention's phase.            *)
(***************************************************************************)
ConnectCacheWrite(r) ==
  [r EXCEPT !.logical_dependencies =
     {IF r.op \in {"kv_cache_k_append", "kv_cache_k_prefill_population"} THEN ids.k ELSE ids.v}]

Keeping(records, kept) ==
  AppendEach(<<>>, [p \in (DOMAIN records) \X Nat |-> IF p[1] \in kept THEN <<records[p[1]]>> ELSE <<>>], Len(records))

Residencies(records) == Ids({r \in Range(records) : r.op = "q_operand_residency"})

(* Seeded fault: the other heads' residencies of Q are dropped, but what   *)
(* depended on them is left as it was.                                     *)
ConnectDecodeAttentionDropped(records) ==
  Keeping(records, {i \in DOMAIN records :
                      records[i].op = "q_operand_residency" => records[i].record_id = Min(Residencies(records))})

(* All heads share the first head's residency of Q: those of the other     *)
(* heads are dropped, and what depended on them is redirected.             *)
ConnectDecodeAttention(records) ==
  LET residencies == Residencies(records)
      keep        == Min(residencies)
      Connect(r)  ==
        CASE r.kind = "AttentionScore" ->
               [r EXCEPT !.inputs = {t \in @ : t.name # "Q"} \cup {Visible(OfLayer("Q"))},
                         !.logical_dependencies = {ids.q, keep} \cup (@ \ residencies)]
          [] r.record_id = keep ->
               [r EXCEPT !.inputs = {OfLayer("Q")}, !.outputs = {Visible(OfLayer("Q"))},
                         !.logical_dependencies = {ids.q}]
          [] r.op = "kv_cache_k_tile_read" -> [r EXCEPT !.logical_dependencies = {ids.k_write}]
          [] r.op = "kv_cache_v_tile_read" -> [r EXCEPT !.logical_dependencies = {ids.v_write} \cup @]
          [] OTHER -> r
  IN  Keeping([i \in DOMAIN records |-> Connect(records[i])],
              {i \in DOMAIN records : records[i].op = "q_operand_residency" => records[i].record_id = keep})

ConnectPrefillAttention(records) ==
  LET From(r, name, id) == [r EXCEPT !.inputs = {OfLayer(name)}, !.logical_dependencies = {id}]
      Connect(r) ==
        CASE r.op = "q_operand_residency"      -> From(r, "Q", ids.q)
          [] r.op = "k_prefill_tile_residency" -> From(r, "K", ids.k)
          [] r.op = "v_prefill_tile_residency" -> From(r, "V", ids.v)
          [] OTHER -> r
  IN  [i \in DOMAIN records |-> Connect(records[i])]

ConnectOProjection(r) ==
  [r EXCEPT !.inputs = ids.contexts \cup {Placed(OfLayer("o_projection"), "weight.resident")},
            !.logical_dependencies = ids.terminals]

(* Seeded fault: the inputs are rewritten, the dependencies are not.       *)
ConnectFeedForwardInputs(r) ==
  IF r.op \in {"ffn_hidden_activation_tile_setup", "moe_router_input_setup"}
  THEN [r EXCEPT !.inputs = {OfLayer("attention_output")}] ELSE r

ConnectFeedForward(r) ==
  IF r.op \in {"ffn_hidden_activation_tile_setup", "moe_router_input_setup"}
  THEN [r EXCEPT !.inputs = {OfLayer("attention_output")}, !.logical_dependencies = {ids.o}]
  ELSE r

(***************************************************************************)
(* The blocks in their order. A block keeps the numbers it was generated   *)
(* with: what is dropped from it leaves a gap.                             *)
(***************************************************************************)
Emit(at, records, connected, then) ==
  /\ pc = at /\ block = <<>>
  /\ block' = connected /\ next_id' = next_id + Len(records) /\ pc' = then
  /\ UNCHANGED <<workload, trace>>

LayerStart ==
  LET records == RenumberRecords(<<Barrier("layer_start")>>, next_id)
  IN  Emit("layer_start", records, records, "projections") /\ UNCHANGED <<layer, ids>>

Projections ==
  LET records == Generated(QKVProjections(feedForward, QDim, attention.kv_heads * attention.head_dim))
  IN  /\ Emit("projections", records, records, "cache_writes")
      /\ ids' = [ids EXCEPT !.q = IdOf(records, "q_projection"), !.k = IdOf(records, "k_projection"),
                            !.v = IdOf(records, "v_projection")]
      /\ UNCHANGED layer

CacheWrites ==
  LET records == Generated(IF isPrefill THEN PrefillCacheWrites ELSE DecodeCacheWrites)
  IN  /\ Emit("cache_writes", records, [i \in DOMAIN records |-> ConnectCacheWrite(records[i])], "attention")
      /\ ids' = [ids EXCEPT !.k_write = records[1].record_id, !.v_write = records[2].record_id]
      /\ UNCHANGED layer

Attention ==
  LET records   == Generated(IF attention.phase = "prefill" THEN PrefillAttention(attention)
                             ELSE DecodeAttention(attention))
      connected == IF isPrefill THEN ConnectPrefillAttention(records) ELSE ConnectDecodeAttention(records)
      terminals == Terminals(connected)
  IN  /\ Emit("attention", records, connected, "o_projection")
      /\ ids' = [ids EXCEPT !.terminals = Ids(terminals), !.contexts = UNION {r.outputs : r \in terminals}]
      /\ UNCHANGED layer

OutputProjection ==
  LET records == Generated(OProjection(feedForward, QDim))
  IN  /\ Emit("o_projection", records, <<ConnectOProjection(records[1])>>, "feed_forward")
      /\ ids' = [ids EXCEPT !.o = records[1].record_id]
      /\ UNCHANGED layer

FeedForward ==
  LET records == Generated(IF isMoE THEN MoE(feedForward) ELSE FFN(feedForward))
  IN  /\ Emit("feed_forward", records, [i \in DOMAIN records |-> ConnectFeedForward(records[i])], "transition")
      /\ UNCHANGED <<layer, ids>>

LayerTransition ==
  LET records == RenumberRecords(<<Barrier("layer_transition")>>, next_id)
      more    == layer + 1 < attention.num_layers
  IN  /\ Emit("transition", records, records, IF more THEN "layer_start" ELSE "drain")
      /\ layer' = IF more THEN layer + 1 ELSE layer
      /\ UNCHANGED ids

FinalDrain ==
  LET records == RenumberRecords(<<Drain>>, next_id)
  IN  Emit("drain", records, records, "done") /\ UNCHANGED <<layer, ids>>

Extend ==
  /\ block # <<>>
  /\ trace' = Append(trace, Head(block)) /\ block' = Tail(block)
  /\ UNCHANGED <<workload, layer, pc, next_id, ids>>

Init ==
  /\ workload \in Workloads /\ Supported(workload)
  /\ layer = 0 /\ pc = "layer_start" /\ next_id = 0 /\ block = <<>> /\ trace = <<>>
  /\ ids = [q |-> 0, k |-> 0, v |-> 0, k_write |-> 0, v_write |-> 0, o |-> 0, terminals |-> {}, contexts |-> {}]

Done == pc = "done" /\ block = <<>>

Next ==
  \/ LayerStart \/ Projections \/ CacheWrites \/ Attention \/ OutputProjection
  \/ FeedForward \/ LayerTransition \/ FinalDrain \/ Extend
  \/ Done /\ UNCHANGED vars

Spec == Init /\ [][Next]_vars

(***************************************************************************)
(* Properties.                                                             *)
(***************************************************************************)
(* Attention that decodes is what the generators that decode are meant     *)
(* for; they do not refuse another.                                        *)
PhaseFits == ~isPrefill => attention.phase = "decode"

(* What holds the content of a tensor a record takes: a layer's hidden     *)
(* state is the previous layer's result, the tiles read from the cache are *)
(* part of what was appended to it.                                        *)
Result(l)       == [Placed(Whole(IF isMoE THEN "combined" ELSE "hidden_out"), IF isMoE THEN "materialized" ELSE "plain")
                      EXCEPT !.layer = l]
Cached(name, l) == [Placed(Whole(name), "kv_cache") EXCEPT !.layer = l]
Source(t) ==
  CASE t.place = "plain" /\ t.name = "hidden" /\ t.layer > 0 -> Result(t.layer - 1)
    [] t.place = "plain" /\ t.name = "K.tile" -> Cached("K", t.layer)
    [] t.place = "plain" /\ t.name = "V.tile" -> Cached("V", t.layer)
    [] OTHER -> t
Operands(r) == {Source(t) : t \in r.inputs}

(* What the trace starts from: the first hidden state and the weights.     *)
Given(t) ==
  \/ t.place = "plain" /\ t.name = "hidden" /\ t.layer = 0
  \/ t.place = "plain" /\ t.name \in {"up_weight", "gate_weight", "down_weight", "router_weight", "expert_up_weight",
                                 "expert_gate_weight", "expert_down_weight"}
  \/ t.place = "weight.resident"

(* Read in the order it is written, the trace is an execution of the       *)
(* tensor graph: rewired inputs, renumbered dependencies and dropped       *)
(* residencies never leave an operand unmade or a dependency dangling.     *)
Graph == INSTANCE TensorGraph WITH
  current   <- IF trace = <<>> THEN Drain ELSE [Last(trace) EXCEPT !.inputs = Operands(Last(trace))],
  performed <- Ids(Range(trace)),
  made      <- UNION {r.outputs : r \in Range(trace)}
ImplementsTensorGraph == Graph!Spec

(* A record declares itself dependent on the record that made each tensor  *)
(* it takes last, unless a barrier lies between them: also who reorders    *)
(* records by their declared dependencies computes the same.               *)
DependenciesDeclared ==
  trace # <<>> =>
    LET n == Len(trace)
    IN  \A t \in Operands(trace[n]) :
          LET makers == {i \in 1 .. n - 1 : t \in trace[i].outputs}
          IN  makers # {} =>
                \/ trace[Max(makers)].record_id \in trace[n].logical_dependencies
                \/ \E i \in Max(makers) .. n : trace[i].kind = "Barrier"

(* When a layer's attention is through, in every head each query has been  *)
(* scored against every key it may see, and weighed its value, in exactly  *)
(* one tile, and the counted pairs are those of the tiles.                 *)
Sees(q, k) == IF isPrefill THEN k <= q ELSE TRUE
InTile(i, tile) == i >= tile.start /\ i < tile.start + tile.tokens
CausalCoverage ==
  pc = "feed_forward" /\ block = <<>> =>
    LET queries == IF isPrefill THEN 0 .. attention.seq_len - 1 ELSE {0}
        keys    == IF isPrefill THEN queries ELSE 0 .. attention.past_len - 1
        InLayer(kind, h) ==
          {i \in DOMAIN trace : trace[i].kind = kind /\ \E t \in trace[i].outputs : t.layer = layer /\ t.head = h}
    IN  \A h \in 0 .. attention.num_heads - 1, kind \in {"AttentionScore", "AttentionContext"} :
          LET records == InLayer(kind, h)
          IN  /\ \A q \in queries, k \in keys :
                   Sees(q, k) => Cardinality({i \in records : InTile(q, trace[i].pairs[1])
                                                            /\ InTile(k, trace[i].pairs[2])}) = 1
              /\ MapThenSumSet(LAMBDA i : trace[i].pairs[3], records)
                   = Cardinality({p \in queries \X keys : Sees(p[1], p[2])})

(* A layer of a prefill trace stands for as many multiplications as        *)
(* prefill_formula works out, by part: the two cut attention into tiles,   *)
(* round to whole requests and count the lanes each in a way of its own.   *)
FormulaMatchesTrace ==
  pc = "transition" /\ block = <<>> /\ isPrefill =>
    LET inLayer == {i \in DOMAIN trace : \E t \in trace[i].outputs : t.layer = layer}
        qkvo    == {"q_projection", "k_projection", "v_projection", "o_projection"}
        MACs(S) == MapThenSumSet(LAMBDA i : trace[i].num_requests, S)
    IN  prefill_formula(attention, feedForward) =
          [qkvo_projection |-> MACs({i \in inLayer : trace[i].op \in qkvo}),
           attention       |-> MACs({i \in inLayer : trace[i].kind \in {"AttentionScore", "AttentionContext"}}),
           ffn             |-> MACs({i \in inLayer : trace[i].kind = "FFNProjection" /\ trace[i].op \notin qkvo})]

(* At a layer's end nothing that was made is left unused, but the layer's  *)
(* result and what it wrote to the cache: no head, tile or expert is       *)
(* computed and then forgotten by what combines them.                      *)
EveryResultUsed ==
  pc \in {"layer_start", "drain"} /\ block = <<>> =>
    LET used == UNION {r.inputs : r \in Range(trace)}
    IN  \A i \in DOMAIN trace : \A t \in trace[i].outputs :
          t \in used \/ t \in {Result(t.layer), Cached("K", t.layer), Cached("V", t.layer)}

(* Overlapping the heads, or the selected experts, only reorders a block:  *)
(* the operations, what they take and make and what they wait for are      *)
(* those of the serialized schedule.                                       *)
Shapes(records) ==
  {<<r.op, r.inputs, r.outputs,
     UNION {d.outputs : d \in {x \in Range(records) : x.record_id \in r.logical_dependencies}}>> :
     r \in Range(records)}
Serialized(m) == [m EXCEPT !.schedule_policy = "serialized"]
OverlapReorders ==
  pc = "layer_start" =>
    /\ attention.phase = "decode" =>
         Shapes(DecodeAttention(attention)) = Shapes(DecodeAttention(Serialized(attention)))
    /\ isMoE => Shapes(MoE(feedForward)) = Shapes(MoE(Serialized(feedForward)))
=============================================================================
