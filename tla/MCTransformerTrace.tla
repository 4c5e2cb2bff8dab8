------------------------- MODULE MCTransformerTrace -------------------------
(***************************************************************************)
(* Two layers of a few heads, contexts of up to three tiles with a partial *)
(* one, a hidden state of up to three tiles, two or three experts.         *)
(***************************************************************************)
EXTENDS TransformerTrace

ModelSpec(heads, kv_heads, variant, activation) ==
  [num_layers |-> 2, num_heads |-> heads, kv_heads |-> kv_heads, head_dim |-> 2, hidden_size |-> 5,
   ffn_hidden_size |-> 6, ffn_variant |-> variant, activation |-> activation, datatype |-> "int8",
   num_experts |-> 4, top_k |-> 3]
Specs ==
  {ModelSpec(1, 1, "relu_2proj", "relu"), ModelSpec(2, 1, "swiglu_3proj", "silu"), ModelSpec(3, 1, "geglu_3proj", "gelu")}

Dense(spec, phase, len, tile) ==
  [FFNManifest(spec, phase, len, "serialized") EXCEPT !.ffn_activation_tile_size = tile]
Work(generator, spec, phase, len, policy, feed_forward) ==
  [generator |-> generator, attention |-> AttentionManifest(spec, phase, len, policy), feed_forward |-> feed_forward]

Experts(spec) ==
  {MoEManifest(spec, <<2, 0, 3>>, "overlap_selected_experts"), MoEManifest(spec, <<3, 1, 2>>, "serialized"),
   MoEManifest([spec EXCEPT !.top_k = 1], <<1>>, "serialized")}

MCWorkloads ==
  {Work("dense_decode", spec, "decode", len, policy, Dense(spec, "decode", len, tile)) :
     spec \in Specs, len \in {1, 2, 5}, tile \in {2, 5, 6}, policy \in {"serialized", "overlap_independent_heads"}}
  \cup {LET typed == [spec EXCEPT !.datatype = datatype]
        IN  Work("dense_prefill", typed, "prefill", len, "serialized", Dense(typed, "prefill", len, 3)) :
           spec \in Specs, datatype \in {"int8", "fp16"}, len \in {1, 3, 4}}
  \cup UNION {{Work("moe", spec, "decode", len, "serialized", moe) : moe \in Experts(spec)} :
                 spec \in Specs, len \in {2, 3}}
=============================================================================
