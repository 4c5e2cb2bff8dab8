# Formal model of Ramulator 2.1 (with the LPDDR5-PIM extension)

TLA+ modules, TLC configurations and TLAPS proofs kept beside the simulator's
sources. There are three subjects. The first is the cycle-by-cycle control of the memory
controllers: who may issue which DRAM command when, what happens to the requests of the
frontend on the way, and what maintenance, row policies and processing-in-memory
do to them. The second is the processor model that makes requests, with its cache. The third is the Python tool chain in front of the PIM controller, which turns a
transformer model into a trace for the PIM controller and runs it as an experiment: the
generator of semantic records, their lowering to concrete commands, and the
`ramulator-pimscope` command. Paths below are relative to the root of the repository; `R/` stands
for `src/src/ramulator/`, `PY/` for `src/python/ramulator/`.

Contents: [inventory](#1-inventory), [plan](#2-plan),
[modules](#3-modules-and-how-they-correspond-to-the-code), [runs](#4-runs-bounds-and-fairness),
[proofs](#5-proofs), [findings](#6-findings), [not modelled](#7-what-is-not-modelled-and-why).

## 1. Inventory

The simulator is single-threaded and cycle-driven. Everything that looks like
concurrency is the interleaving, inside one cycle, of actors that share the
controller's buffers: the frontend that sends requests whenever it likes, the
refresh manager and the row policy that inject maintenance, plugins, the
scheduler, and completion events that fall due. What is hard is the
order of the parts of a tick, hand-kept shadow state (counts, address sets,
marks) and requests that wait for each other.

The tool chain is sequential, but long: what is hard is bookkeeping that must
agree with what another program will check or replay later (identifiers that are renumbered,
modes that are assumed, streams that are cut and continued). Real
concurrency, failure and time-outs occur in one place, the experiment command with its worker
process, and that is also the only place where something is persisted: the result file.

| Component | State | Operations | Hard behaviour | What makes it correct |
|---|---|---|---|---|
| `ControllerBase` (R/controller/controller_base.cpp) | read, write, active, priority buffers; pending reads; count of active requests per bank; addresses of buffered writes; write mode; clock | `send`, `priority_send`, `tick_prologue`, `pick_*`, `would_close_active`, `promote_to_active`, `retire_request`, `serve_completed_reads`, `set_write_mode` | a request moves between lists with early exits; forwarding; maintenance against row hits | no request lost or answered twice; forwarding set exact; an opened row stays open until used; the count is the count |
| `GenericDDRController` | none of its own | `tick`: prologue, refresh, row policy, then active > priority > read/write | strict priority may starve | every request is answered |
| `FRFCFS`, `FRFCFSRowHit` | none | `get_best_request` | ties, eligibility filters | readiness first, then age |
| Row policies `Open`, `ClosedCAP` | column accesses and injection mark per bank | `pre_schedule`, `try_upgrade_command`, `on_issue` | a mark without a precharge; closing a row somebody waits for | the cap is kept; marks are backed by queued precharges |
| Refresh managers `AllBank`, `PerBank`, `HBM34PerBank`, `NoRefresh` | next due cycle, round-robin position, per-round bank sets | `tick` | throw when the priority buffer is full | every bank refreshed in every interval |
| `DRAMDevice`, `DRAMNode`, commands (R/dram) | state of each node, open rows, earliest legal cycle of each command, command history windows | `issue_command`, `check_timing`, `get_preq_command`, `check_rowbuffer_hit`, `check_node_open`, `tick` | prerequisites chained over several nodes | only legal transitions |
| LPDDR controllers (R/controller/impl/lpddr*) | pending ACT1 with deadline, CAS sync window, activating buffer | `tick` with urgent and deferred ACT2 | deadlines against the command bus | ACT2 before its deadline; no column command without CAS |
| LPDDR5-PIM controller (R/controller/impl/lpddr5_pim_controller.cpp) | rank mode, load-ready flags, in-flight per-bank and all-bank work, block slots | `send`, `tick`, launch and completion of PIM work | mode changes against requests already promoted; counters that shadow lists | host and PIM work exclude each other; slots freed once; a mode change never strands a request |
| HBM12, HBM34, GDDR7, PRAC, BlockHammer controllers | row/column command slots, read clock, alert state, throttling | `tick` | two commands a cycle; back-off | as for DDR |
| Address and channel mappers | row indirection table (RIT) | `apply` | non-power-of-two fields, swaps | injective |
| `GenericDRAMSystem` | clock | `send`, `tick` | clock ratio | every channel ticks each cycle |
| SimpleO3 / bhO3 core and LLC (R/frontend/impl/processor) | instruction window and trace position of each core; cache sets, MSHRs, miss, hit and receive lists | `send`, `tick`, `receive` | answers are matched by address alone, so a late hit may meet a fetch of its line; index, tag and line are cut from an address in three ways; a store may begin a fetch as a read | no instruction waits for ever; lines unique and in flight once; no store lost |
| Trace frontends | position, dependency counts | `tick` | - | every line is sent once |
| Plugins (R/controller/plugin) | row-hammer counters, RFM counters | `update` | table eviction | thresholds |
| Framework, code generation, visualizer | configuration | - | none at run time | - |
| Address layout (PY/dram/addressing.py) | none | byte address to address vector, bounds, banks and ranks | mixed radices, wrap-around | addresses in the hierarchy |
| Concrete trace format (PY/workload_surrogate/lpddr5_pim_concrete_trace.py) | mode and loads of each rank | `validate_record`, `validate_sequence`; the frontend's `make_request` | one record stands for thousands of requests | what is accepted can be replayed |
| Lowering (PY/workload_surrogate/generate_lpddr5_pim_concrete.py) | its own copy of the modes and loads | `lower_semantic_records_to_concrete` with seven kinds of loop | modes inserted by guess of what holds; splitting, wrapping, rounding | accepted by the validator; exact streams; work conserved |
| Transformer generator (PY/workload_surrogate/generate_full_transformer.py) | layer, next identifier, records of the layer | attention, feed-forward and expert records; composition of layers | renumbered and redirected records; partial tiles; overlapped heads; a manifest of one phase given to the generator of the other | the trace is an execution of the tensor graph |
| Experiment command (PY/pimscope) | manifest, worker process, pipe, deadline, result file, exit code | `run`, `validate-result` | a worker that hangs, fails or dies in its answer; a command that is killed, also between its result and its exit | the exit code never claims more than the file and the verdict; no worker left behind |

Interactions: a frontend calls `IMemorySystem::send`, which picks the channel and
calls `IController::send`; a refused request is the caller's to retry. A tick of the
memory system ticks every controller once. In a tick the controller calls the refresh
manager and the row policy, which call back `priority_send`; the scheduler asks the
device for the next command of each candidate and whether its timing is met; the
issued command is shown to the row policy and the plugins. The answer to a request
is its callback, run by the controller.

The tool chain is a pipeline. The experiment command resolves a manifest (hardware and workload), calls the
transformer generator with a model specification, the lowering with the generator's records, the
validators on what comes out, and starts a worker process that builds the simulator
and replays the trace with the concrete PIM trace frontend; the frontend expands each
record into requests to the LPDDR5-PIM controller. The worker's answer comes back through a pipe.

## 2. Plan

The order is by how much of the simulator's results rests on the part.

1. **Core (done):** `DRAMDevice`, `DDR4Timing`, `GenericDDR`, with the abstract
   specification `MemoryPort`.
2. **LPDDR5-PIM controller (done):** `LPDDR5Timing`, `PIMDevice`, `PIMController`, with the abstract
   specification `PIMSession`. It contains the split activation and the CAS synchronisation of the LPDDR
   controllers, in its own copy of the code.
3. **Tool chain (done):** `AddressLayout`, `ConcreteTrace`, `ConcreteLowering`; `TransformerManifest`,
   `TransformerRecords`, `PrefillFormula`, `TransformerTrace` with the abstract specification `TensorGraph`; `ExperimentManifest`,
   `Experiment`.
4. **LPDDR controllers (open):** `lpddr_controller_base.cpp`, for what differs from the PIM controller's copy
   (write deadlines, per-bank refresh).
5. **Refresh managers (open):** per-bank round robin and the HBM3/4 rounds.
6. **Processor side (done but for bhO3):** `SimpleO3LLC`, the cache, and `SimpleO3`, the cores and the glue, over a memory that is what
   `MemoryPort` promises. bhO3, which throttles the MSHRs of each core, is open.
7. **Pure functions (open):** address mappers, checked for injectivity over small organisations.
8. **Timing windows** of `DRAMNode` (tFAW-like), HBM's two-command tick, plugins (open).

Theorems, in this order: type correctness and the safety invariants of the core (done);
type correctness of `PIMController`, the refinement of `PIMSession`, `BlockExclusive`, `SlotsExact`,
`ActivationExact`, `ExecutingRowOpen`, `DeadlinesKept` (done); `Conserved` of both controllers, a sum over lists and sets
that every step of a tick moves one request through, and with it that they implement `MemoryPort` (done); the cache of SimpleO3 (done); that the
lowering's records are accepted and replay to the addresses asked for, and the banks get their work (done); that the transformer generator's traces
implement the tensor graph, and use every result (done); what its attention covers (open).

## 3. Modules and how they correspond to the code

`DRAMDevice` - the device under the controller: `open[b]` is the bank node's state and open
row; `wait[b][c]` the number of cycles until command `c` is legal at bank `b` (the code keeps the
absolute cycle per node; the model keeps the distance, maximised over channel, rank and bank).
`PreqCommand`, `Targets`, `CheckTiming`, `IssueCommand` are the device's functions.

`DDR4Timing` - the constraint table of `ddr4.py` as data, reduced to one rank.

`GenericDDR` - controller, scheduler, row policy, refresh manager.

| Model | Code |
|---|---|
| `SendForwardedRead`, `SendRead`, `SendCoalescedWrite`, `SendWrite` | the four accepting paths of `ControllerBase::send` |
| `Tick` | one call of `GenericDDRController::tick`; its disjuncts are the buffer a command is issued from |
| `PendingNow`, `RepliesNow`, `Drains` | `serve_completed_reads` |
| `RefreshInNow`, `PriorityRefreshed`, `TickThrow` | `AllBankRefresh::tick_all_at_once`, `send_refresh` and its exception |
| `Injections`, `PriorityNow`, `InjectedNow` | `ClosedCAPRowPolicy::pre_schedule` |
| `TickActive`, `TickPriority`, `TickReadWrite`, `TickIdle` | the three scheduling attempts and their failure |
| `Upgrade`, `AccessesAfter`, `InjectedAfter` | `try_upgrade_command`, `on_issue` |
| `Complete`, `Entered`, `Left`, `NoLongerBuffered` | `promote_to_active`, `retire_request` |

The whole tick is one step: nothing outside the controller can run between its parts. Requests are
numbers, in order of acceptance; buffers hold the numbers. The clock advances only over cycles in
which something arrived, because only the order of arrivals is ever read.

`MemoryPort` - what a frontend may rely on: requests are accepted, and answered at most once.
`GenericDDR` refines it (`ImplementsPort`).

`LPDDR5Timing`, `PIMDevice` - the constraint tables of `lpddr5.py` and `lpddr5_pim.py`, and the device with
several ranks: `open[b]` is also `Activating` between ACT1 and ACT2, `rankState[r]` is the mode of the rank
node. `RankLat`, `BankLat` and `ChannelLat` delay commands to the same rank, bank and to other ranks.

`PIMController` - controller, scheduler, row policy and refresh manager of LPDDR5-PIM.

| Model | Code |
|---|---|
| `SendForwardedRead`, `SendCoalescedWrite`, `SendWrite`, `SendQueued` | the accepting paths of `LPDDRPIMController::send` |
| `Workload`, `Window` | what a frontend sends in which order, and with how many requests outstanding |
| `Served`, `Aged`, `AbNow`, `LoadReadyNow`, `InflightNow`, `SlotsNow` | `serve_completed_reads`, `complete_pim_if_ready` |
| `HostBlocked`, `MacBlocked`, `AllBankBlocked`, `ModeBlocked`, `ActivationBlocked` | the `would_block_*` functions |
| `TickSynchronised`, `TickUrgent`, `TickMaintenance`, `TickSelected`, `TickDeferred` | the branches of `tick`: a CAS is pending; an ACT2 is due; the selected command is maintenance or a request's; nothing can be selected |
| `Perform`, `Prepare` | `issue_standard_candidate` with the final command, and with a prerequisite |
| `Activate`, `OpenRow` | `move_to_activating`; `issue_owned_act2` and `promote_from_activating` |
| `Launch`, `LaunchAllBank` | `launch_inflight_pim`, `launch_inflight_pim_ab` |
| `Synchronise` | the CAS of `try_issue_cas_sync` |

Deadlines, the clock of the data bus (WCK) and work in flight are kept as the cycles left. Two ranks have
their own mode; at most one all-bank operation is in flight in the channel, as in the code.

`PIMSession` - what the modes are for: load in HAB, start in HAB_PIM with loaded operands, hold the mode
until done. `PIMController` refines it (`ImplementsSession`) with the device's modes, and it
refines `MemoryPort`.

`AddressLayout` - the byte address space of a device as a mixed-radix number system over the levels of its
hierarchy (`AddrVecFromByteAddress`), the bounds on addresses and rows, flat bank numbers and ranks.

`ConcreteTrace` - the records of a concrete trace: `ValidateRecord` and `ValidateNext` are the checks of one record
and one step of `validate_sequence`; `HostByte` and `Expand` are what the frontend's `make_request` replays as the
k-th request of a record.

`ConcreteLowering` - `lower_semantic_records_to_concrete`. One record of the input is lowered after the other;
each appended record takes a step.

| Model | Code |
|---|---|
| `Begin`, `NextRecord` | the branches over the kind of a semantic record |
| `LowerHost` | a host access, or weights that are written beforehand, cut into `_host_address_chunks` |
| `LowerAllBank`, `LowerPerBank`, `LowerCompact`, `LowerSerial` | the four ways to issue multiplications: all banks at once, bank by bank, rotating in one record, request by request |
| `LowerLoad`, `LowerComputeAll` | broadcast loads and all-bank work on every rank |
| `ToSingleBank`, `ToHostAllBank`, `EnsureAllBankLoad`, `ToPIMAllBank` | the `transition_to_*` closures over `rank_modes` and `load_ready` |
| `out.trace`, `out.valid` | the validators, run along (the code runs them at the end) |

The trace itself is not kept: only its last record, what the validators remember, and the work each bank has got.

`TransformerManifest`, `TransformerRecords` - the manifests with their checks, and the records of one layer. A record is its
operation, the tensors it takes and makes, the identifiers it depends on, and for attention the query and
key tiles with the number of pairs it counts. `num_requests` is the multiplications it stands for. A tensor is a record of what the code
writes as a name: its layer, its name, where it was placed, its head or expert and its tiles. A loop that appends records is an
`AppendEach`; attention is the parts (`score`, `weigh`, `attend`) of its heads in the order the schedule gives them, added one after the other (`AddParts`).

`TransformerTrace` - `generate_dense_transformer_layer_records`, `generate_dense_prefill_transformer_layer_records` and
`generate_moe_transformer_layer_records`: layer by layer, the blocks are generated, renumbered (`RenumberRecords`), moved to their
layer (`RetargetLayerZero`) and connected (`Connect...`). `workload.generator` says which of the three is called. What it refuses (`Supported`) and how it
connects is the generator's; what attention consists of goes by the phase of the attention manifest, as in `generate_attention_records`.
The two agree in all workloads for which `PhaseFits`.

`PrefillFormula` - `prefill_formula` of backend.py, which works out the same multiplications without a trace, with its own
tiling, rounding and table of lanes.

`TensorGraph` - what a trace promises to its reader: operands made before they are taken, dependencies
performed, no operation twice. `TransformerTrace` refines it (`ImplementsTensorGraph`), reading the records in order.

`ExperimentManifest` - resolving a manifest, what is accepted at which stage, the verdict, and `validate_result`.

`Experiment` - the command and its worker as two processes: `StartProcess`, `Poll`, `CheckDeadline`, `Receive`, `Join` are
`_run_process`; `WorkerAnswers`, `WorkerSends`, `WorkerExits`, `WorkerDies` the worker; `OpenResult`, `WriteResult` the two
effects of writing the file; `Report` what comes after it, the lines printed about the result, which may fail, and the return; `Raise` an
error that is caught, `Crash` one that is not, `Killed` the end of a command by a signal. Commands follow one another and share the file.

`SimpleO3LLC`, `SimpleO3` - the last-level cache; cores, glue and the memory below. An address is the set of the positions of its
1 bits, and `LineOf` (`align`), `SetIndex` and `Tag` cut it with the masks and offsets that the constructor computes (`Mask`, `Log2`),
for any line size and number of sets. A hit is looked up by index and tag, an MSHR by the line, as in the code.

| Model | Code |
|---|---|
| `Hit`, `Merge`, `Allocate`, `Refuse` | the four ends of `SimpleO3LLC::send`: a hit, a miss on a line being fetched, a new fetch (with the eviction of `allocate_line`), no MSHR or no way |
| `Fill`, `Receive` | `SimpleO3LLC::receive`, and `SimpleO3::receive`, which also answers the cores |
| `TakeSome` (`BeginTick`), `ReceiveHit`, `EndHits` | `SimpleO3LLC::tick`: the misses that are due and that the memory takes, then the hits that are due |
| `Retire`, `InsertBubbles`, `Issue`, `SendTaken`, `SendRefused` | `SimpleO3Core::tick`, up to its request and with what the cache makes of it |
| `Answer` | the callback of a request in the memory (external) |

A tick of the frontend is a run of steps with nothing in between: `phase` and `turn` say where in it the model is. The times at which
entries of the miss and hit lists fall due are kept as the cycles left. An MSHR's iterator to its line is modelled by the
address of the line; that it never dangles is part of `LinesInFlight`. The memory takes any of the misses that are due and
answers what it has taken in any order. `unwritten` is a history variable: the lines stored to since their last
write-back.

`MCGenericDDR`, `MCPIMController`, `MCSimpleO3`, `MCConcreteLowering`, `MCTransformerTrace`, `MCExperiment` - the instances for TLC.
`BufferLemmas` (lists, least numbers, induction), `GenericDDR_proofs`, `PIMController_proofs` (types, modes and
work in flight; where requests are, rows, deadlines, refreshes), `SimpleO3_proofs`, `ConcreteLowering_proofs` (with the address layout),
`TransformerTrace_proofs`, `TransformerTrace_used` (every result is taken), `Experiment_proofs` - proofs.

## 4. Runs, bounds and fairness

Twelve runs; nine find no error, three are expected violations.

**Generic DDR controller.** Two banks, two rows; addresses `x` and `z` are different rows of bank 0, `y` shares `x`'s row.
That is the least on which forwarding, row hits and row conflicts are different things; the second bank is
the one refreshes and closings must also cover. Read and write buffers hold two requests, so they fill. `MaxSend`
bounds the requests sent. Latencies are small but keep the order of the DDR4 ones.

| Run | Configuration | What it asks |
|---|---|---|
| `refresh` | ClosedCAP at cap 2 without RDA/WRA, priority buffer of three, refresh every 12 cycles, three requests | forwarding exact, no stale read, protected rows, exact counts, refreshes in time; every request is answered; refinement of the port |
| `autopre` | ClosedCAP at cap 1 with RDA/WRA, priority buffer of one, refresh every 6 cycles, four requests | conservation, the cap and marks backed by queued precharges, up to the exception that stops the simulation |

**LPDDR5-PIM controller.** Two ranks of two banks, each rank one shared block; `x` and `y` are
columns of one row, `z` another row of their bank, `u` the other bank of the block, `v` the other rank
(for `pim_overlap` `u` is moved to the bank and row of `x`, to have three operands there). Three or four
requests at a time fill buffers of two. The workloads say what may be sent as the first, second, ...
request; every interleaving with the ticks is explored. A PIM_MAC takes three cycles (six in
`pim_overlap`, where work has to overlap), nAAD is four, ACT1 to column five.

| Run | Workload | What it asks |
|---|---|---|
| `pim_mixed` | every kind of request for one rank in any order, work and reads of its other bank and of the other rank | conservation, ACT2 deadlines, ownership of activating banks, counts, one multiplication per shared block, host exclusion; refinement of the mode protocol |
| `pim_overlap` | overlapping work on one bank, a refresh every 12 cycles for a priority buffer of two | types, slots, dependencies, the row of executing work |
| `pim_trace` | a trace as the concrete frontend accepts it, a refresh every 30 cycles | it finishes |
| `pim_sb` | a write that is not drained before a mode change | expected violation (finding 1) |

**SimpleO3.** Lines of two bytes, two sets of two ways: three lines compete for one set, and one of them has two addresses, so that requests for
one line are kept apart by the lists that go by address; a fourth line has the other set to itself. Traces of two lines with bubbles, loads and stores; a window of three and two instructions a
cycle; a latency of two cycles, so that a hit is under way while its line is evicted and fetched again; two MSHRs, so that requests are
refused. `MaxReads` bounds the reads in the memory, `MaxMisses` the misses it leaves, `MaxWaiting` the requests that pile up behind a read it leaves:
they stop the memory from doing nothing for ever, and the cores are never held back by them.

| Run | What it asks |
|---|---|
| `o3_cache` | two cores on each other's lines and two cores on their own: lines in flight, no store lost; cores on their own lines finish |
| `o3_lost_load` | expected violation: a load whose place is taken by a late hit (finding 3); one core, six trace lines, a latency of four |

**Lowering.** Two ranks of two banks, 32 transactions of four bytes, records of at most three requests, so that
a stream of five accesses is cut and crosses rows, ranks and the capacity. Every sequence of three semantic records
that begins with one for the PIM units, out of fourteen, under four combinations of options (each mac mode; interleaved
and not; depths 1, 2 and 3; both address policies).

| Run | What it asks |
|---|---|
| `lowering` | the sequence and each record are accepted; host streams and compact records replay to the addresses asked for; the banks get their work |
| `lowering_stream` | expected violation: a host stream that crosses ranks (finding 2) |

**Transformer.** Two layers, so that there is a first, a following and a last one; one, two and three heads, with and without shared
keys, each with one of the three variants of the feed-forward network; contexts of one, two and five tokens with tiles of two (whole, partial, several); prefill of one, three and four tokens in int8 and fp16;
hidden sizes of one, two and three tiles; top-1 and top-3 of four experts; both schedule policies.

| Run | What it asks |
|---|---|
| `transformer` | refinement of the tensor graph; declared dependencies; every visible query-key pair in one tile; every result used; overlapping only reorders; a prefill layer has the multiplications of `prefill_formula` |

**Experiment.** Two commands one after the other (the second finds the file of the first), out of sixteen manifests, some
refused by the resolver, the generators, the preflight or the limits; time limits of none, one and two units; replays that are
complete, incomplete and empty.

| Run | What it asks |
|---|---|
| `experiment` | results validate; a PASS is earned; the exit code claims no more than is in the file, also if the run ends between the two; no worker is left behind; a run with a time limit returns |

`autopre` and `pim_overlap` do not check for deadlock: there the simulation really stops, with the exception of
`send_refresh`. Nor do `experiment`, where the commands come to an end, and the runs of SimpleO3, where the
frontend is not ticked once it is finished.

Fairness. For the controllers it is `WF_vars(Tick)`: the main loop ticks the memory system, and it every controller, on every
cycle for ever, whatever the frontend does. `pim_trace` alone adds `WF_vars(Send)`: the trace
frontend offers its next request on every tick until it is accepted. Sending may be delayed
arbitrarily but finitely, so every phase of the refresh against the trace occurs. For SimpleO3 it is weak fairness of the tick
(`TakeSome` begins one, `InTick` goes on with it), and strong fairness of the memory: it takes the miss that is due first in the end (`TakeFirst`), and
answers each read it has taken (`Answer`), which is what `EveryRequestAnswered` shows of the controller. For the experiment it is weak fairness of
the command's own steps, of time, and of a worker that has its answer (it sends it and exits). Nothing makes a worker come
to an answer, and nothing makes it die. What the run with a time limit relies on beyond the deadline is that a worker that has begun to send
goes on: `recv` and `join` have no time limit of their own.

## 5. Proofs

The theorems about `GenericDDR` hold for every number of banks and rows, every timing table, buffer size, policy,
refresh interval and number of requests, under `DeviceAssumption` and `ControllerAssumption`
(constants have their types, sizes are positive, the latency exceeds one as the code says); `CapHeld` also needs
`AutoPreAssumption`: RDA and WRA follow whatever RD and WR may follow, as soon, which the tables of the standards have.

- `TypeCorrect`: `Spec => []TypeOK`. `TypeOK` is inductive.
- `ForwardingExact`, `ReadsFresh`. `NoStaleRead` is not inductive: that a new read has no older write of
  its address follows from the exactness of the forwarding set, and that a new write is younger than
  every buffered read follows from the numbering. `ForwardInv` joins them. Its proof is where the
  code's `buffered` check before the room check matters.
- `ActiveRowSafe`, `ActiveCountCorrect`. The row of an active request is protected only as far as the count
  is right, the count is right only if a bank has one active request at most, and that holds only
  if a protected bank's row is never opened again: `ActiveInv` is the conjunction. It holds only without
  auto-precharge (`NoAutoPrecharge`); section 6 says what happens with it.

- `MarksBacked`. `MarksInv`: a mark goes with the command that takes its precharge out of the queue, since that command closes
  the bank; under another row policy nothing is marked.
- `CapHeld`. `CapInv` adds that no bank waits longer for RDA than for RD: otherwise a row at its cap would be read once more
  without being closed.
- `RequestsConserved`, `PortImplemented`. That a request is in one place only is what its own preservation needs: the service of a
  cycle answers by the set of the requests that are due, so a request in two places would be answered once for both and one
  of them be lost. Each step is a balance of what it takes and what it adds (`Total`). From it, an
  answer is given once and to a request that was sent, which is the refinement of `MemoryPort`.
- `RefreshKept`: `RefreshOnTime`, without auto-precharge and if the refresh interval has room, `RefreshSlack(L, M)`. L bounds the latencies of all
  commands but REFab and M those of REFab. Once a refresh is queued no request is promoted, and what goes before it is counted by
  `WorkBefore`: one access for each active request, one PREpb for each queued entry before it, one PREab. Each step of the work is issued at most L
  cycles after the one before, since a cycle passes without a command only while something waits (`IdleWaits`: with every wait over, an active
  request is ready, and with no active request, the head of the queue). `Refreshing` says that this work ends before the interval does. It needs that a
  queue holds one precharge of a bank at most, which is not clear when PREab removes the mark of a bank whose precharge is still queued: `QueueOK` adds that
  such a bank has no active request and no counted access, so it is not injected again. The condition is `M + (2 * NBanks + 1) * (L + 1) <= NREFI`.
  Every preset of `ddr4.py` meets it by far: the tightest, DDR4_3200AC at 16 Gb with 16 banks, has L = nRC = 76 and M = nRFC = 880, and 880 + 33 * 77 = 3421
  cycles of nREFI = 12480; the default priority buffer has 1568 entries. It is sufficient and not necessary: the run `refresh` has an interval of 12
  cycles, which only exploring its states shows to be enough.

`BufferLemmas` states once what removing from the middle of a list does to its elements and to the number of those of a kind.

The theorems about `PIMController` hold for every number of ranks, banks and blocks, every timing table, policy, buffer size,
refresh interval and population of requests, under `PIMDeviceAssumption` and `PIMControllerAssumption`; `DeadlinesMet`
also needs `CasGuardAssumption`: the guard the controller adds covers what a CAS delays its access by, as `init` computes it.

- `TypeCorrect`: `Spec => []TypeOK`. `TypeInv` adds to `TypeOK` that the buffers keep to their sizes.
- `HostMeetsHostMode`, `FollowsSession` (the refinement of `PIMSession`). `SessionInv`: the controller's modes are
  the device's; what is held or in flight was sent; a CAS that waits for its access is for a host request of a rank in host mode.
  The last part is what carries `would_block_host_request` from the cycle of the CAS to that of the access.
- `OperandsSerialized`, `BlocksExclusive`, `SlotsCounted`. `InflightInv` is their conjunction on top of `SessionInv`: the launch
  looks for a dependency only at the request's bank and for a busy block only among the rank's banks, and the count of
  slots falls with the completions of a cycle before a launch of the same cycle raises it.
- `ActivationOwned`, `ActiveCounted`, `ExecutionKeepsRow`. `RowInv`: owners are exactly the banks between ACT1 and ACT2, with one activating request each;
  active requests are one to a bank, and the counts say so; rows of active requests and of executing work are open. No part is inductive
  alone: a precharge spares a row only if the count or the work in flight protects it, and a bank gets a second active request
  if its row is not the one the first waits for.
- `DeadlinesMet`. `DeadlinesSpaced` says what the deadlines alone do not: they are at most nAAD cycles away and no two are equal, as
  one ACT1 issues in a cycle, so that one ACT2 a cycle is enough; and while an access waits for its CAS every deadline lies behind it.
  The property is stated until the refresh manager has thrown, after which nothing runs.
- `RefreshHeldBack`: the priority buffer never shrinks during an all-bank operation.
- `RequestsConserved`, `PortImplemented`: as for the generic controller, with more places: the activating buffer, the work in
  flight, of which a request has one piece at most (`InflightInv`), and the all-bank operation.

- `AlwaysSequenceAccepted` (`ConcreteLowering_proofs`): `Spec => []SequenceAccepted`, for every device layout, workload and
  options. The invariant `Agree` relates the two copies of the state of a rank: the modes are equal, a load the
  lowering counts on was broadcast, and a rank in HAB_PIM has one. Equality of the loads would not be inductive: the validator forgets them at
  a mode change that the lowering does not record as one. `LoopInv` carries the modes through the loops that append many records.
- `WorkerEnds`, `ExitCodesTell`, `PassesAreEarned` (`Experiment_proofs`): for every set of manifests, whatever the lowering
  and the replay may yield, and any number of commands. `WorkerInv`: a worker that may run belongs to a command that waits.
  `FileInv`: what is in the file is at most as recent as the last command that was started. `PassInv`: counters anywhere on their way (answer, pipe,
  received) are those of a replay of the present manifest; it needs `WorkerInv`, since a worker of an earlier
  command could otherwise answer for a later one.
  `ExitCodesTell` says what can be concluded from an exit code: 0 means that the file holds the command's own PASS, and 1 that it holds no PASS of the
  command. 2 and the codes of a kill do not say that there is no result: once the file is complete the command still prints four lines about it, where it may
  be killed or fail. But whatever the code, the command's own result is there only if its worker has answered with counters.

- `ResultsAccepted`: what a command writes is a result its own `validate-result` accepts. `ManifestInv`: after the checks of `prepare` the
  manifest is an accepted one and its trace has passed the generators and the preflight; resolving a resolved manifest again
  changes nothing. `LoweredAssumption`: a concrete record stands for one request at least.

The theorems about `SimpleO3` (`SimpleO3_proofs`) hold for every number of cores, geometry of the cache, window, latency and trace, whatever
the order of the memory's answers, under `CoreAssumption` and `TraceAssumption` (sizes are positive, no trace is empty: the code reads the first line without a look).
Three of the four have a hypothesis that the code does not establish, `PowersOfTwo`: the line size and the number of sets are powers of two (their masks are
all the bits that their offsets shift out). Then an address is its tag, its index and its place in the line, and two lines of a set have different
tags (`LineIsSetAndTag`). Without it they are false: three cores are the counterexample (section 6).

- `LinesMatchMSHRs`, `StoresReachMemory`: `CacheOK` says of the cache, of the MSHRs and of the miss list and the memory together
  that each line is held once, is locked exactly while one MSHR fetches it, and that its read is in one of the two places. Neither half is
  inductive alone: an answer finds its MSHR because the line is locked, and a line is locked because its read is still on the way. Eviction exchanges
  one line for another, which is how `DirtyIsUnwritten` follows from it.
- `AssertHolds`: the line that is allocated has a tag that is not in its set, so the assertion in `need_eviction` holds: a line of the set with the
  tag would be ready, which is a hit, or have an MSHR, which is a merge.
- `WindowsNeverOverflow`, without the hypothesis: `InstWindow::insert` writes over the slot at its head without a look; that there is always room is an
  invariant of where in its tick the core is.

`ConcreteLowering_proofs` begins with the address arithmetic and proves of it, for every device, what the rest needs: weights of the levels are products of their
sizes, digits are in range and determine the number, the flat bank number and the coordinates of a bank determine each other, a byte address within the
capacity decodes to an address vector within the device, and bytes of consecutive transactions agree with the address vectors. `LayoutAssumption` says that the
hierarchy lists each level once, has ranks, banks, rows and columns, of positive sizes, and that a row is a whole number of prefetches.

The lowering has three more theorems, for every device layout, all options and every workload of `WorkloadsAssumption`: the
banks, rows and columns of a semantic record are the device's. The code justifies it before it lowers: the generators place records in the
first rows, `retarget_semantic_banks` (`PY/pimscope/experiment.py`) spreads the banks over those of the device, and `validate_record` refuses the rest.

- `AlwaysRecordsAccepted`: `RecordInv` is `WorkInv` (which loop may lower which record, and that the record was found lowerable), `ProgressInv` (how
  far the loop is: the share of what it visits is positive and never exceeded, so that each chunk is between one and the bound) and
  `Sound`. A chunk of the bounded policy ends where the channel wraps, so that its last byte is within the capacity.
- `AlwaysReplaysExactly`: the n-th byte of a stream is worked out anew for each chunk from what was lowered so far. That a record with a stride
  replays to the same bytes is an identity of quotients and remainders that holds only because the base and the stride are multiples of the prefetch and the chunk
  stops before the wrap; that a repeat of the stream begins again at its base holds only because a chunk stops at the end of a repeat. A compact record keeps
  the offsets of row and column modulo their extents, and is expanded by adding to them, which is the semantic record's own rotation.
- `AlwaysConservesWork`: when a semantic record is lowered, its banks have got its work. `WorkBalance` says what they have in between. In a rotation
  (compact records, or serial ones with interleaved banks) a bank has as many operations as the requests so far visit it, a count of a set that a chunk, which is
  cut within a round or spans several, adds to. Otherwise the shares of the banks before the one visited and what it has got make up the
  work so far, and the shares sum up to the total although the last may be smaller or empty. In all-bank work the ranks that were visited have
  the whole share, the one being visited what was done, the others nothing, and in compute work over all banks the same holds round by round.

Induction is done in first-order form: the set of the numbers for which a statement fails has a least element (`LeastNat`, `InductionSet`), and
recursive functions are shown to exist the same way (`RecursionExists`).

`AlwaysImplementsTensorGraph` (`TransformerTrace_proofs`): every trace is an execution of `TensorGraph`, for every workload that a generator
accepts and whose attention is of the phase the generator connects (`PhaseFits`): any number of layers, heads, query and key tiles, hidden tiles and selected experts, dense or a mixture of
experts, decoding or prefill, serialized or overlapped. It assumes `WorkloadsAssumption` of `TransformerTrace`: sizes are integers and the selected experts a
list of integers, as the generators convert each with `int()` where they use it. `PhaseFits` is a hypothesis of the theorem, since the
generators that decode do not check it; without it the theorem is false (section 6). The argument has three layers.

- Blocks. `Good` says of a list of records what its loops preserve: the n-th record has the number n, depends on earlier
  records only, and takes only tensors that an earlier record of the block makes, that are given, or that come from outside the block by a name that
  its connection knows. `AppendEach` keeps it when a round does, and `AddParts` when a part does. Overlapped heads are the
  hard case: `weigh` of a head needs the scores `score` of the same head made, with the parts of all other heads in between, so the induction over the
  parts carries which heads have been scored.
- Connections. Renumbering and moving to a layer carry a `Good` block over (`IsLift`), and what a connection rewrites, it rewrites to
  tensors and numbers that are in the trace: residencies and reads of the cache to the projections and cache writes of the layer, the terminals to the reductions.
  The connection of decoding also drops records, since all heads share the first head's residency of the query: the numbering has
  gaps, and each record that took or depended on a dropped one is shown to be redirected to the one that is kept.
- The trace. `IInv` says that the records appended and the rest of the present block together are `Linked` (numbers distinct and below `next_id`, dependencies and operands before who needs
  them), and, by `Ready`, that what the next block connects to is there: the projections for the cache writes and attention, the caches for attention, the
  terminals for the output projection, the layer's result for the transition. The refinement alone is not
  inductive: that a record finds its operands was settled when its block was connected, many steps before it is appended.

`AlwaysOverlapReorders`: overlapping changes no operation of a block, only the order, for any number of heads, tiles and selected experts. The
overlapped schedule numbers its records differently, so what is compared is the records' shapes: operation, inputs, outputs and what is reduced, without
numbers and dependencies. `Adds` says of one round of a loop that it adds a set of shapes which does not depend on what was appended before it,
and `Grows` what the rounds up to some point have added. A head adds its scores (`ScoreShapes`) and its weighing (`ReductionShapes`), an expert its chain of
ten operations (`ExpertShapes`), so a block's shapes are a union over heads or experts, in which the order cannot be told. The last steps are that both schedules visit the same parts:
each head is scored and weighed once (`DecodePartsAll`), and the order of the experts is a permutation (`OrderIs`). It assumes `ManifestsAssumption`, that a
manifest has the fields its generator reads.

`AlwaysEveryResultUsed` (`TransformerTrace_used`): at the end of a layer nothing was made for nothing, for every accepted workload with `PhaseFits`: each score, context, probability, tile and expert
output is taken by a later record, or is the layer's result or in the cache. At the layer's end this is not inductive, since in the middle of a layer much
is made that only the next block takes. `UsedInv` says who still owes what: what is made and not yet taken is a result, in the cache, or in `Owed`, the tensors that
the next block has to take (Q, K and V after the projections, Q after the cache writes, the ends of attention before the output projection, the attention output before the
feed-forward network). Each block `Settles`: it takes what was owed to it, and what it makes itself, but for what it owes then. The hard blocks are
the connected ones. A connection replaces inputs, so what the generated block takes (`TakenIn`, `TakenFrom`) counts only where the
record is not rewired. Decoding drops the residencies of Q of all heads but the first, whose results nobody may then need (`SteppedTakes`,
`DecodeSettles`). The ends of attention, `Terminals`, are found by kind and dependency: a context that no reduction depends on must be one that the
output projection takes (`EndsAreTaken`). That a prefill query has a tile to attend to is a fact about the sum of `CausalPairCount`: it is
positive as soon as one query of the tile sees one key (`PairsCounted`, over a sum shown to exist by `IsSum`).

Model-checked only: of `TransformerTrace` `CausalCoverage` and `FormulaMatchesTrace` (counts and sums over the tiles of a layer, which are induction over the recursive
functions that build them) and `DependenciesDeclared` (which record made a tensor last).
Liveness under fairness and `ENABLED` are outside of what the prover can do and stay with TLC.

## 6. Findings

1. `pim_sb`: the README of the simulator says SB returns to host mode. SB waits in the read buffer; when the
   rank is in an all-bank mode with enough writes buffered, the controller is in write mode, the
   writes wait for SB, and nothing ever makes the controller look at the read buffer. It needs a caller that changes the mode
   without draining its host requests. The concrete trace frontend drains them, and with its discipline the trace
   finishes (`pim_trace`).
2. `lowering_stream`: a host record stands for many requests, but the lowering and the validator look at the rank of the first address
   only. A stream that runs over the end of a rank into one that is in HAB is sent there; the validator says that a host
   access requires SB mode.
3. `o3_lost_load`: the cache keeps who waits for an answer under the address of the request, and a hit that is due stores itself alone
   there. Its line may have been evicted since the hit and be fetched again, with loads waiting in the same place: those of another core, or
   under another address of the line, are dropped and never answered, so the window of their core fills up and it stops for good. It needs a line that is
   evicted within the latency of the cache after a hit. Cores that keep to their own lines, each under one address, are not affected: who loses its place
   is answered by the hit itself (`OwnLinesFinish`, run `o3_cache`).

Behaviours that are worth knowing though no run states them. The first two are why theorems have hypotheses:

- SimpleO3: the index of an address is masked with the number of sets less one, and the tag begins after that number's logarithm, rounded
  down (`llc.cpp:19-22`); both fit powers of two only. The number of sets grows with the number of traces (`simpleO3.cpp:65`) and is not checked: with three of the
  default 2 MB it is 12288, and bit 12 of the index is in neither. Two such lines have the same index and tag, but MSHRs of their own, so `assert(false)` at
  `llc.cpp:193` ("Due to MSHR, the program can't reach here") is reached; in a release build the set outgrows its ways, and later accesses to one line hit the
  other. `SimpleO3` models these sets as they are: with `NumSets = 3` and one load of a different line (`a`, `y`, `b` of `MCSimpleO3`) on each of three cores
  TLC finds `TagsAreNew` violated. With powers of two the assertion holds (`AssertHolds`).
- Transformer: `generate_attention_records` goes by the phase of the attention manifest (2474-2475), the generators of whole decoding layers do not look
  at it. Given a prefill manifest of the same sizes they return, without an error, a trace in which the tiles of K and V that the scores take are made by no record,
  against the docstring at 2540: only the prefill generator connects them. `Supported` accepts such workloads, as the code does, and `ImplementsTensorGraph` is false of
  them; the run's workloads satisfy `PhaseFits`. The commands of the repository do not mix phases, the public functions let their callers do it.
- `serve_completed_reads` stops at the first pending read that is not due. A forwarded read is due in the next cycle but queued behind
  reads that are due later, and waits for them; the comment there says the deque is sorted by departure.
- With auto-precharge `m_active_per_bank` counts a request twice. ClosedCAP turns a row
  hit into RDA/WRA after `would_close_active` has looked at the plain command, which closes the
  row under an active request; that request is opened again out of the active buffer and
  promoted from the active buffer to itself. The comment in `controller_base.h` says the count is that
  of the active buffer. `ActiveCountExact` is checked and proved without auto-precharge.
- A write-back that the memory refuses is passed over by `SimpleO3LLC::tick`, so a later fetch of the line may reach the memory before it.
- A second way to finding 1: a host read whose row is open when its rank leaves host mode waits for SB; the next refresh waits for the
  read's row; SB waits until no refresh is queued. The refreshes pile up until the simulation throws.
- PIM_MAC_AB is launched without a look at PIM_MACs still in flight in its rank, so a block may execute both, and the latency of neither reflects it.
- Lowering: `mac_mode` "all_bank" without interleaving issues per-bank commands; a serial stream with a burst length above one
  is spread over fewer banks than its sequence names; a compact record does not bring its banks into the controller's
  order, as `_addr_vec_from_semantic` does for a record whose mapping policy asks for it.
- Transformer: the router and the experts of a mixture take the hidden state from before the attention; the records of later layers keep the byte addresses of
  layer 0; `overlap_independent_heads` is accepted by the resolver and refused by the feed-forward manifest.
- Experiment: for a built-in model the trace is generated for the data type of the registered model (int8), whatever the manifest
  says; the check of equality in `config.py` is between the manifest's workload and its hardware.
- Experiment: `validate-trace` passes no DRAM class to the validator; the branch of `_run_process` for a worker that
  died with an unreadable pipe is not reachable, since the end of the pipe makes it readable.

## 7. What is not modelled, and why

Statistics, logging, recorders, the live streamer, the component framework and C++ code generation influence no
decision of the simulation. Requests other than reads and writes do not occur with the generic DDR
controller. Windows that span several commands (nFAW) need more banks than the small instances have; the planned timing
module takes them up. The other controllers, refresh managers, mappers and plugins, and the bhO3 processor, are the open items of the plan.

Of the tool chain: the text of JSON files and the type checks of single values (the model begins where a
value has its type), byte addresses and row placement of the transformer's records and their annotations for reports, the older decode-only
generator, and the subcommands of `ramulator-pimscope` that only read and print. The manifest's fingerprint is
modelled by the manifest itself: a collision of digests is not considered.

Everything left out is listed per component in `PROJECT.json`, with the reason or its place in the plan.
