------------------------- MODULE ExperimentManifest -------------------------
(***************************************************************************)
(* The manifest of an experiment: how it is read from its files, filled in *)
(* with defaults, checked, and turned into semantic records; and the check *)
(* a result has to pass. A section is a record of the fields that were     *)
(* given, so that a field can be missing. Checks that a value has its JSON *)
(* type are left out. A fingerprint is modelled by the manifest it is the  *)
(* digest of.                                                              *)
(***************************************************************************)
EXTENDS TransformerManifest, TLC

CONSTANTS
  BuiltIn,    \* ModelSpecs in the registry: from the name to the specification
  Dense,      \* DENSE_MODEL_KEYS: the names of those without experts
  Files       \* section files: from the path to the section in it

ASSUME DenseAssumption == Dense \subseteq DOMAIN BuiltIn

(***************************************************************************)
(* Resolving a manifest: what is supplied overrides the defaults.          *)
(***************************************************************************)
(* The two limits stand for 10^11 records and 2^30 bytes.                  *)
DefaultHardware ==
  [dram_class |-> "LPDDR5PIM", controllers |-> 1, channels |-> 1, frontend_clock_ratio |-> 4,
   scheduler |-> "FRFCFS", refresh_manager |-> "NoRefresh", row_policy |-> "Open",
   addr_mapper |-> "PassThroughAddrMapper", channel_mapper |-> "CacheLineInterleave", clock_ratio |-> 1,
   pim_datatype |-> "int8", pim_banks_per_block |-> 2, pim_mac_execution_model |-> "shared_block_serial"]
DefaultWorkload ==
  [workload_type |-> "structured_transformer_surrogate", model |-> [builtin |-> "opt-125m"], datatype |-> "int8",
   phase |-> "decode", past_len |-> 32, prompt_len |-> 12, schedule_policy |-> "serialized",
   weight_residency |-> "resident", mac_mode |-> "per_kind", max_inflight_requests |-> 16, interleave_depth |-> 4,
   max_expanded_records |-> 100000, max_trace_bytes |-> 100000, simulation_timeout_seconds |-> 86400]

OptionalHardware == {"rank", "pim_datatype_class", "pim_ops_per_block_issue", "pim_ops_per_request"}
ModelFields      == {"name", "num_layers", "hidden_size", "num_heads", "num_kv_heads", "head_dim",
                     "ffn_hidden_size", "ffn_variant", "activation"}
Positive(r, fields) == \A f \in fields \cap DOMAIN r : r[f] > 0
Given2(r, f, g)     == {f, g} \subseteq DOMAIN r

LoadRawManifest(raw) ==
  [s \in {"hardware", "workload"} |->
     IF s \o "_file" \in DOMAIN raw THEN Files[raw[s \o "_file"]] ELSE IF s \in DOMAIN raw THEN raw[s] ELSE <<>>]
Override(raw, o) == [raw EXCEPT ![o.section] = (o.field :> o.value) @@ @]
Loadable(raw) == \A s \in {"hardware", "workload"} : ~Given2(raw, s, s \o "_file")

(* dict.update: what is supplied wins over the default.                    *)
Merge(supplied, default) ==
  [f \in DOMAIN supplied \cup DOMAIN default |-> IF f \in DOMAIN supplied THEN supplied[f] ELSE default[f]]

ResolveHardware(supplied) == Merge(supplied, DefaultHardware)
HardwareAccepted(h) ==
  /\ DOMAIN h \subseteq DOMAIN DefaultHardware \cup OptionalHardware
  /\ h.controllers = 1 /\ h.channels = 1
  /\ h.dram_class \in {"LPDDR5PIM", "LPDDR6PIM"}
  /\ h.scheduler \in {"FRFCFS", "FRFCFSRowHit"}
  /\ h.refresh_manager \in {"NoRefresh", "AllBank", "PerBank"}
  /\ h.row_policy \in {"Open", "ClosedCAP"}
  /\ h.addr_mapper \in {"PassThroughAddrMapper", "ChRaBaRoCo", "RoBaRaCoCh", "MOP4CLXOR", "RITAddrMapper"}
  /\ h.channel_mapper \in {"CacheLineInterleave", "PassThroughChannelMapper"}
  /\ h.pim_datatype \in Datatypes \cup {"int16"}
  /\ "pim_datatype_class" \in DOMAIN h => h.pim_datatype_class = h.pim_datatype
  /\ h.pim_mac_execution_model = "shared_block_serial"
  /\ Positive(h, {"frontend_clock_ratio", "clock_ratio", "pim_banks_per_block",
                  "pim_ops_per_block_issue", "pim_ops_per_request"})
  /\ Given2(h, "pim_ops_per_block_issue", "pim_ops_per_request") =>
       h.pim_ops_per_block_issue = h.pim_ops_per_request
  /\ "rank" \in DOMAIN h => h.rank \in {1, 2}

isBuiltIn(model) == "builtin" \in DOMAIN model

ModelAccepted(model) ==
  IF isBuiltIn(model) THEN model.builtin \in DOMAIN BuiltIn
  ELSE /\ DOMAIN model \subseteq ModelFields
       /\ {"name", "num_layers", "hidden_size", "num_heads", "head_dim", "ffn_hidden_size"} \subseteq DOMAIN model
       /\ Positive(model, ModelFields \ {"name", "ffn_variant", "activation"})
       /\ "num_kv_heads" \in DOMAIN model =>
            model.num_kv_heads <= model.num_heads /\ model.num_heads % model.num_kv_heads = 0
       /\ "ffn_variant" \in DOMAIN model => model.ffn_variant \in Gated \cup {"relu_2proj"}

SupportedPhases(name) == IF name \in Dense THEN {"decode", "prefill"} ELSE {"decode"}

ResolveWorkload(supplied) == Merge(supplied, DefaultWorkload)
WorkloadAccepted(w) ==
  /\ DOMAIN w = DOMAIN DefaultWorkload
  /\ ModelAccepted(w.model)
  /\ w.workload_type = "structured_transformer_surrogate"
  /\ w.datatype \in Datatypes
  /\ w.phase \in {"decode", "prefill"}
  /\ w.weight_residency \in {"resident", "full_preload"}
  /\ w.mac_mode \in {"per_kind", "per_bank", "all_bank"}
  /\ w.schedule_policy \in {"serialized", "overlap_independent_heads"}
  /\ Positive(w, {"past_len", "prompt_len", "max_inflight_requests", "interleave_depth",
                  "max_expanded_records", "max_trace_bytes"})
  /\ w.simulation_timeout_seconds >= 0
  /\ w.phase = "prefill" => w.schedule_policy = "serialized"
  /\ IF isBuiltIn(w.model) THEN w.phase \in SupportedPhases(w.model.builtin)
     ELSE w.schedule_policy = "serialized"

ResolveExperiment(raw) ==
  [hardware |-> ResolveHardware(raw.hardware), workload |-> ResolveWorkload(raw.workload)]
Accepted(manifest) ==
  /\ HardwareAccepted(manifest.hardware) /\ WorkloadAccepted(manifest.workload)
  /\ manifest.hardware.pim_datatype = manifest.workload.datatype

(***************************************************************************)
(* Generating the workload.                                                *)
(***************************************************************************)
Field(r, f, default) == IF f \in DOMAIN r THEN r[f] ELSE default

SpecOf(w) ==
  IF isBuiltIn(w.model) THEN BuiltIn[w.model.builtin]
  ELSE [num_layers |-> w.model.num_layers, hidden_size |-> w.model.hidden_size, num_heads |-> w.model.num_heads,
        kv_heads |-> Field(w.model, "num_kv_heads", w.model.num_heads), head_dim |-> w.model.head_dim,
        ffn_hidden_size |-> w.model.ffn_hidden_size, datatype |-> w.datatype,
        ffn_variant |-> Field(w.model, "ffn_variant", "swiglu_3proj"),
        activation |-> Field(w.model, "activation", "silu")]

(* Manifests that the generators refuse although the resolver took them.   *)
Generates(w) ==
  LET spec      == SpecOf(w)
      len       == IF w.phase = "decode" THEN w.past_len ELSE w.prompt_len
      attention == AttentionManifest(spec, w.phase, len, w.schedule_policy)
      moe       == MoEManifest(spec, <<0, 1>>, w.schedule_policy)
      ffn       == FFNManifest(spec, w.phase, len, w.schedule_policy)
  IN  IF isBuiltIn(w.model) /\ w.model.builtin \notin Dense
      THEN ValidAttention(attention) /\ ValidMoE(moe) /\ Agree(attention, moe)
      ELSE ValidSpec(spec) /\ ValidAttention(attention) /\ ValidFFN(ffn) /\ Agree(attention, ffn)
           /\ (w.phase = "prefill" => ValidPrefill(attention, ffn))

(***************************************************************************)
(* Before and after the replay.                                            *)
(***************************************************************************)
(* retarget_semantic_banks: every sequence of banks is replaced by all the *)
(* banks of the device, so they all have one length.                       *)
EffectiveInflight(w, banks) ==
  IF w.mac_mode = "all_bank" THEN 1
  ELSE IF w.max_inflight_requests = 1 THEN 1
  ELSE Max({w.max_inflight_requests, banks * w.interleave_depth})

(* Seeded fault: only the size of the file is limited.                     *)
PreflightOfBytes(w, t) == t.bytes <= w.max_trace_bytes

PreflightPasses(w, t) == t.expanded <= w.max_expanded_records /\ t.bytes <= w.max_trace_bytes
MaterializationPasses(w, t) == IF w.weight_residency = "resident" THEN t.preload = 0 ELSE t.preload > 0

(* Seeded fault: what was sent need not be answered.                       *)
ReplaySent(t, counts) ==
  /\ counts.cycles > 0 /\ counts.pim_commands > 0
  /\ counts.loaded = t.records /\ counts.expanded = t.expanded /\ counts.sent = counts.expanded

(* The counters of the frontend against the trace it was given.            *)
ReplayOk(t, counts) ==
  /\ counts.cycles > 0 /\ counts.pim_commands > 0
  /\ counts.loaded = t.records /\ counts.expanded = t.expanded
  /\ counts.sent = counts.expanded /\ counts.completed = counts.sent

SubchannelModel(dram_class) == IF dram_class = "LPDDR6PIM" THEN <<"single_subchannel_only">> ELSE <<>>
TraceSchema(dram_class) ==
  IF dram_class = "LPDDR6PIM" THEN "lpddr6-pim-opcode-v0.1" ELSE "lpddr5-pim-opcode-v0.2"
PowerStatus(dram_class) ==
  IF dram_class = "LPDDR6PIM" THEN "experimental_drampower_reference" ELSE "paper_two_layer"

Simulation(m, t, counts) ==
  [replay_ok |-> ReplayOk(t, counts), dram_class |-> m.hardware.dram_class, cycles |-> counts.cycles,
   trace_schema |-> TraceSchema(m.hardware.dram_class), refresh_manager |-> m.hardware.refresh_manager,
   execution_model |-> m.hardware.pim_mac_execution_model, power |-> PowerStatus(m.hardware.dram_class),
   trace_bcast |-> t.bcast, pim_bcast_issued |-> t.bcast]

Result(m, t, simulation, banks) ==
  [status |-> IF simulation.replay_ok THEN "PASS" ELSE "FAIL",
   manifest_fingerprint |-> m, resolved_manifest |-> m,
   dram_class |-> m.hardware.dram_class, subchannel_model |-> SubchannelModel(m.hardware.dram_class),
   effective_max_inflight_requests |-> EffectiveInflight(m.workload, banks),
   preflight |-> [records |-> t.records, expanded |-> t.expanded, bytes |-> t.bytes],
   max_expanded_records |-> m.workload.max_expanded_records, max_trace_bytes |-> m.workload.max_trace_bytes,
   workload_type |-> m.workload.workload_type, concrete_records |-> t.records,
   policy |-> m.workload.weight_residency, write_transactions |-> t.preload, simulation |-> simulation]

(***************************************************************************)
(* validate_result.                                                        *)
(***************************************************************************)
ManifestHeld(r) ==
  /\ r.status \in {"PASS", "FAIL"}
  /\ LET again == ResolveExperiment(r.resolved_manifest)
     IN  Accepted(again) /\ again = r.manifest_fingerprint
HardwareHeld(r) ==
  /\ r.max_expanded_records > 0 /\ r.max_trace_bytes > 0
  /\ r.preflight.records <= r.preflight.expanded
  /\ r.preflight.expanded <= r.max_expanded_records /\ r.preflight.bytes <= r.max_trace_bytes
  /\ r.dram_class \in {"LPDDR5PIM", "LPDDR6PIM"}
  /\ r.dram_class = r.resolved_manifest.hardware.dram_class
  /\ r.subchannel_model = SubchannelModel(r.dram_class)
WorkloadHeld(r) ==
  /\ r.workload_type = r.resolved_manifest.workload.workload_type
  /\ r.concrete_records = r.preflight.records
  /\ r.policy = "resident" => r.write_transactions = 0
  /\ r.policy = "full_preload" => r.write_transactions > 0
SimulationHeld(r) ==
  LET s == r.simulation
      h == r.resolved_manifest.hardware
  IN  /\ s.dram_class = r.dram_class
      /\ s.refresh_manager = h.refresh_manager /\ s.execution_model = h.pim_mac_execution_model
      /\ s.pim_bcast_issued = s.trace_bcast
      /\ s.power = PowerStatus(r.dram_class) /\ s.trace_schema = TraceSchema(r.dram_class)
      /\ r.status = "PASS" => s.replay_ok /\ s.cycles > 0
      /\ r.status = "FAIL" => ~s.replay_ok
ValidResult(r) == ManifestHeld(r) /\ HardwareHeld(r) /\ WorkloadHeld(r) /\ SimulationHeld(r)
=============================================================================
