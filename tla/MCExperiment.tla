---------------------------- MODULE MCExperiment ----------------------------
(***************************************************************************)
(* A built-in dense model, one with experts and two custom ones. Some      *)
(* commands are refused by the resolver, some by the generators, some by   *)
(* the limits; some have a time limit. A trace has a record per layer and  *)
(* one more, of which a custom model's repeats; a preload writes each.     *)
(***************************************************************************)
EXTENDS Experiment

MCSpec(layers, hidden, variant, activation) ==
  [num_layers |-> layers, num_heads |-> 2, kv_heads |-> 1, head_dim |-> 2, hidden_size |-> hidden,
   ffn_hidden_size |-> 6, ffn_variant |-> variant, activation |-> activation, datatype |-> "int8",
   num_experts |-> 4, top_k |-> 2]
MCBuiltIn == "opt-125m" :> MCSpec(1, 4, "relu_2proj", "relu") @@ "mixtral-8x7b" :> MCSpec(2, 4, "swiglu_3proj", "silu")
MCDense   == {"opt-125m"}
Custom    == [name |-> "custom", num_layers |-> 1, hidden_size |-> 4, num_heads |-> 2, head_dim |-> 2, ffn_hidden_size |-> 6]
Uneven    == Custom @@ [num_kv_heads |-> 3]
ReluOnly  == Custom @@ [ffn_variant |-> "relu_2proj"]

MCFiles == "lpddr6.json" :> [dram_class |-> "LPDDR6PIM", rank |-> 2] @@ "fp16.json" :> [pim_datatype |-> "fp16"]

Plain(hardware, work) == [raw |-> [hardware |-> hardware, workload |-> work], override |-> <<>>]
Timed(n, work) == work @@ [simulation_timeout_seconds |-> n]
Set(command, section, field, value) ==
  [command EXCEPT !.override = <<[section |-> section, field |-> field, value |-> value]>>]
NoHardware == <<>>

MCCommands ==
  {Plain(NoHardware, Timed(n, work)) :
     n \in {0, 2}, work \in {[phase |-> "prefill"], [weight_residency |-> "full_preload", mac_mode |-> "all_bank"],
                             [model |-> Custom, max_inflight_requests |-> 1]}}
  \cup {Plain([refresh_manager |-> "AllBank"], Timed(1, [model |-> [builtin |-> "mixtral-8x7b"]])),
        Plain(NoHardware, [model |-> [builtin |-> "mixtral-8x7b"], phase |-> "prefill"]),
        Plain(NoHardware, [schedule_policy |-> "overlap_independent_heads"]),
        Plain(NoHardware, [model |-> ReluOnly]), Plain(NoHardware, [model |-> Uneven]),
        Plain([pim_datatype_class |-> "fp16"], [datatype |-> "int8"]),
        Set(Plain(NoHardware, [model |-> Custom]), "workload", "max_expanded_records", 3),
        Set(Plain([pim_datatype |-> "fp16"], Timed(1, [model |-> Custom])), "workload", "datatype", "fp16"),
        [raw |-> [hardware_file |-> "lpddr6.json", workload |-> Timed(1, [past_len |-> 2])], override |-> <<>>],
        [raw |-> [hardware_file |-> "lpddr6.json", hardware |-> NoHardware], override |-> <<>>]}

MCLowered(m) ==
  LET records == SpecOf(m.workload).num_layers + 1
      again   == IF isBuiltIn(m.workload.model) THEN 1 ELSE 2
      preload == IF m.workload.weight_residency = "full_preload" THEN records ELSE 0
  IN  [records |-> records + preload, expanded |-> records * again + preload, bytes |-> 10 * records, preload |-> preload,
       bcast |-> 1]
MCBanks(m) == 4 * Field(m.hardware, "rank", 1)

Counts(t, sent, completed) ==
  [cycles |-> 7, pim_commands |-> 1, loaded |-> t.records, expanded |-> t.expanded, sent |-> sent, completed |-> completed]
MCReplays(t) ==
  {Counts(t, t.expanded, t.expanded), Counts(t, t.expanded, t.expanded - 1), Counts(t, t.expanded - 1, t.expanded - 1),
   [Counts(t, t.expanded, t.expanded) EXCEPT !.cycles = 0]}
=============================================================================
