---------------------------- MODULE PIMController ----------------------------
(***************************************************************************)
(* The LPDDR5-PIM memory controller (lpddr5_pim_controller.cpp) with the   *)
(* parts of ControllerBase it drives, the FRFCFS scheduler, the Open row   *)
(* policy and the AllBank refresh manager.                                 *)
(*                                                                         *)
(* Beside reads and writes it schedules per-bank multiplications           *)
(* (PIM_MAC), which execute for a while after they were launched, and      *)
(* all-bank ones (PIM_MAC_AB), for which the rank leaves its host mode SB  *)
(* for HAB (a broadcast, PIM_BCAST, loads the operands) and HAB_PIM. A row *)
(* is opened by ACT1 and, within nAAD cycles, ACT2; the data clock is      *)
(* synchronised by a CAS command before a column command that finds it     *)
(* stopped.                                                                *)
(*                                                                         *)
(* As in GenericDDR requests are identifiers, the clock advances only over *)
(* cycles with an arrival, and times are kept as the cycles left.          *)
(***************************************************************************)
EXTENDS PIMDevice, SequencesExt

CONSTANTS
  Addrs,           \* request addresses
  AddrBank,        \* AddrBank[a], AddrRow[a]: what the address mapper makes of a;
  AddrRow,         \* two addresses of one row differ in their column
  BanksPerBlock,   \* pim_banks_per_block
  BlocksPerBank,   \* pim_blocks_per_bank: the slots of a bank
  SlotsPerRequest, \* pim_slots_per_request
  Serial,          \* pim_mac_execution_model is shared_block_serial
  PimLatency,      \* pipeline + movement + writeback cycles of a PIM_MAC
  nAAD,            \* cycles between ACT1 and ACT2 at most
  CasGuard,        \* m_cas_deadline_guard: max(2, nCAS)
  ReadLatency,     \* m_spec->read_latency
  WckTime,         \* WckTime[c]: how long column command c keeps the clock running
  ReadSize, WriteSize, PrioritySize,
  WriteHigh,       \* switch to writes when more than WriteHigh are buffered
  WriteLow,        \* switch to reads when fewer than WriteLow are buffered
  NREFI,           \* refresh interval in cycles, 0 for the NoRefresh manager
  Workload,        \* Workload[i]: what the frontend may send as its i-th request
  Window           \* Window[c]: it sends a request with final command c while fewer
                   \* than that many are unanswered

Accesses == {"RD", "WR"}
Finals == Accesses \cup {"PIM_MAC", "PIM_BCAST", "PIM_MAC_AB"} \cup Modes
MaxSend == Len(Workload)

ASSUME PIMControllerAssumption ==
  /\ Addrs # {} /\ AddrBank \in [Addrs -> Banks] /\ AddrRow \in [Addrs -> Rows]
  /\ {BanksPerBlock, BlocksPerBank, SlotsPerRequest, PimLatency, nAAD, CasGuard, ReadSize,
      WriteSize, PrioritySize} \subseteq Nat \ {0}
  /\ BanksPerRank % BanksPerBlock = 0
  /\ SlotsPerRequest <= BlocksPerBank
  /\ CasGuard >= 2 /\ ReadLatency >= 2
  /\ {ReadLatency, WriteHigh, WriteLow, NREFI} \subseteq Nat
  /\ WckTime \in [Accesses -> Nat]
  /\ Serial \in BOOLEAN
  /\ Workload \in Seq(SUBSET [final : Finals, addr : Addrs])
  /\ Window \in [Finals -> Nat \ {0}]

(* The guard covers nCAS, all that a CAS delays the access it is issued    *)
(* for by.                                                                 *)
ASSUME CasGuardAssumption ==
  \A p \in {<<"CAS_RD", "RD">>, <<"CAS_WR", "WR">>} : RankLat[p] <= CasGuard /\ BankLat[p] <= CasGuard

VARIABLES
  sent,          \* number of requests accepted by send
  req,           \* req[i]: final command, address and arrival time of request i
  clk,           \* m_clk, cycles without an arrival skipped
  readBuf,       \* m_read_buffer: reads, PIM work and mode commands
  writeBuf,      \* m_write_buffer
  activating,    \* m_activating_buffer: requests between ACT1 and ACT2
  active,        \* m_active_buffer
  priority,      \* m_priority_buffer: ranks waiting for their REFab
  pending,       \* m_pending: reads waiting for their latency
  activePerBank, \* m_active_per_bank
  buffered,      \* m_buffered_write_addrs
  writeMode,     \* m_is_write_mode
  owner,         \* banks with m_act2_owner_valid
  deadline,      \* deadline[b]: cycles left for the ACT2 of b, if owned
  wckIn,         \* cycles until m_wck_expiry
  casReq,        \* the request a CAS was issued for, or 0 (m_cas_issued is false)
  mode,          \* mode[r]: m_pim_rank_states[r].mode
  loadReady,     \* loadReady[r]: m_pim_rank_states[r].all_bank_load_ready
  ab,            \* the PIM_MAC_AB in flight, or 0
  abLeft,        \* cycles until it is done
  inflight,      \* m_inflight_pim: PIM_MACs in flight, with the cycles left
  slots,         \* m_pim_slots_in_use
  refreshIn,     \* cycles until the next refresh is due
  failed,        \* the refresh manager threw: the simulation has stopped
  replies        \* replies[i]: how often the callback of request i has run

bufferVars == <<readBuf, writeBuf, buffered>>
openingVars == <<activating, owner, deadline>>
pimVars == <<mode, loadReady, ab, abLeft, inflight, slots>>
vars == <<deviceVars, bufferVars, openingVars, pimVars, sent, req, clk, active, activePerBank,
          priority, pending, writeMode, wckIn, casReq, refreshIn, failed, replies>>

Ids == 1 .. MaxSend
Requests == [final : Finals, addr : Addrs, arrive : Nat]
Timers == [id : Ids, left : Nat]

Final(i)  == req[i].final
BankOf(i) == AddrBank[req[i].addr]
RowOf(i)  == AddrRow[req[i].addr]
RankOfRequest(i) == RankOf(BankOf(i))
IsHost(i) == Final(i) \in Accesses

-----------------------------------------------------------------------------
(* send: the frontend offers a request. A refused request leaves the       *)
(* controller as it was, so only acceptance is a step.                     *)

Outstanding == {i \in 1 .. sent : replies[i] = 0}

Accept(final, a) ==
  /\ sent < MaxSend /\ ~failed
  /\ Cardinality(Outstanding) < Window[final]
  /\ [final |-> final, addr |-> a] \in Workload[sent + 1]
  /\ sent' = sent + 1
  /\ req' = [req EXCEPT ![sent + 1] = [final |-> final, addr |-> a, arrive |-> clk]]
  /\ UNCHANGED <<deviceVars, openingVars, pimVars, clk, active, activePerBank, priority,
                 writeMode, wckIn, casReq, refreshIn, failed>>

(* A read of a buffered write's address is answered by forwarding.         *)
SendForwardedRead(a) ==
  /\ a \in buffered
  /\ Accept("RD", a)
  /\ pending' = Append(pending, [id |-> sent + 1, left |-> 1])
  /\ UNCHANGED <<bufferVars, replies>>

(* A write to a buffered write's address is absorbed by it.                *)
SendCoalescedWrite(a) ==
  /\ a \in buffered
  /\ Accept("WR", a)
  /\ replies' = [replies EXCEPT ![sent + 1] = @ + 1]
  /\ UNCHANGED <<bufferVars, pending>>

SendWrite(a) ==
  /\ a \notin buffered /\ Len(writeBuf) < WriteSize
  /\ Accept("WR", a)
  /\ writeBuf' = Append(writeBuf, sent + 1)
  /\ buffered' = buffered \cup {a}
  /\ UNCHANGED <<readBuf, pending, replies>>

(* Everything else queues with the reads. A PIM_MAC_AB is refused while    *)
(* another one is in flight.                                               *)
SendQueued(final, a) ==
  /\ final # "WR" /\ (final = "RD" => a \notin buffered)
  /\ final = "PIM_MAC_AB" => ab = 0
  /\ Len(readBuf) < ReadSize
  /\ Accept(final, a)
  /\ readBuf' = Append(readBuf, sent + 1)
  /\ UNCHANGED <<writeBuf, buffered, pending, replies>>

Send == \E a \in Addrs : \/ SendForwardedRead(a) \/ SendCoalescedWrite(a) \/ SendWrite(a)
                         \/ \E final \in Finals : SendQueued(final, a)
-----------------------------------------------------------------------------
(* The first part of a tick: one cycle passes, completed reads and PIM     *)
(* work are answered, the refresh manager queues its requests.             *)

ClkNow == IF \E i \in 1 .. sent : req[i].arrive = clk THEN clk + 1 ELSE clk

(* serve_completed_reads drains the queue up to the first read that is not *)
(* yet due: the first n pending reads are served.                          *)
Aged == [k \in DOMAIN pending |-> [pending[k] EXCEPT !.left = Larger(@ - 1, 0)]]

Drains(n) ==
  /\ \A k \in 1 .. n : Aged[k].left = 0
  /\ n < Len(pending) => Aged[n + 1].left # 0

DeadlineNow == [b \in Banks |-> IF b \in owner THEN deadline[b] - 1 ELSE 0]
(* Seeded fault: the clock's expiry time is not compared with the clock.   *)
WckRunsDown == wckIn - 1

WckNow == Larger(wckIn - 1, 0)

(* complete_pim_if_ready. The completion of an all-bank operation makes    *)
(* the operands of its rank usable for the next one.                       *)
AbDone == ab # 0 /\ abLeft <= 1
AbNow == IF AbDone THEN 0 ELSE ab
AbLeftNow == IF AbDone \/ ab = 0 THEN 0 ELSE abLeft - 1
LoadReadyNow == [r \in Ranks |-> loadReady[r] \/ (AbDone /\ RankOfRequest(ab) = r)]

MacsDone == {f \in inflight : f.left <= 1}
(* Seeded fault: completed work is answered but stays in flight.           *)
InflightLingers == {[f EXCEPT !.left = Larger(@ - 1, 1)] : f \in inflight}

InflightNow == {[f EXCEPT !.left = @ - 1] : f \in inflight \ MacsDone}
OnBank(F, b) == {f \in F : BankOf(f.id) = b}
SlotsNow == [b \in Banks |-> slots[b] - SlotsPerRequest * Cardinality(OnBank(MacsDone, b))]

Served(n) == {pending[k].id : k \in 1 .. n} \cup {f.id : f \in MacsDone}
             \cup (IF AbDone THEN {ab} ELSE {})

(* The answers of this tick: those that were due, and those to the         *)
(* requests S; the reads P go into the pending queue.                      *)
Answer(n, S, P) ==
  /\ pending' = SubSeq(Aged, n + 1, Len(pending)) \o P
  /\ replies' = [i \in Ids |-> replies[i] + (IF i \in Served(n) THEN 1 ELSE 0)
                                          + (IF i \in S THEN 1 ELSE 0)]

(* AllBankRefresh::tick_all_at_once: one REFab for each rank.              *)
RefreshDue == NREFI # 0 /\ refreshIn = 1
RefreshInNow == IF NREFI = 0 THEN 0 ELSE IF RefreshDue THEN NREFI ELSE refreshIn - 1
PriorityNow ==
  IF RefreshDue THEN priority \o [k \in 1 .. Cardinality(Ranks) |-> k - 1] ELSE priority
RefreshFails == Len(PriorityNow) > PrioritySize
-----------------------------------------------------------------------------
(* Who may issue what.                                                     *)

Command(i) == PreqCommand(Final(i), BankOf(i), RowOf(i))

(* Seeded fault: hosts wait for execution only, not for its preparation.   *)
HostBlockedInExecution(i) == IsHost(i) /\ mode[RankOfRequest(i)] = "HAB_PIM"

(* would_block_host_request.                                               *)
HostBlocked(i) == IsHost(i) /\ mode[RankOfRequest(i)] # "SB"

(* Seeded fault: banks are dealt out to the blocks instead of grouped.     *)
BlockDealt(b) == {x \in Banks : /\ RankOf(x) = RankOf(b)
                                /\ x % BanksPerBlock = b % BanksPerBlock}

(* The banks that share a PIM block with b; blocks do not cross ranks.     *)
Block(b) == {x \in Banks : /\ RankOf(x) = RankOf(b)
                           /\ (x % BanksPerRank) \div BanksPerBlock
                                = (b % BanksPerRank) \div BanksPerBlock}

(* Seeded fault: only slots are looked at, not what they work on.          *)
MacBlockedBySlots(i) ==
  LET b == BankOf(i) IN
  \/ mode[RankOf(b)] # "SB"
  \/ Serial /\ \E x \in Block(b) : OnBank(InflightNow, x) # {}
  \/ SlotsNow[b] + SlotsPerRequest > BlocksPerBank

(* Seeded fault: the request's own slots are not counted.                  *)
MacBlockedLate(i) ==
  LET b == BankOf(i) IN
  \/ mode[RankOf(b)] # "SB"
  \/ \E f \in OnBank(InflightNow, b) : req[f.id].addr = req[i].addr
  \/ Serial /\ \E x \in Block(b) : OnBank(InflightNow, x) # {}
  \/ SlotsNow[b] > BlocksPerBank

(* would_block_pim_launch, for the launch of a PIM_MAC: the rank is in its *)
(* host mode, nothing in flight at the bank uses the same operand, the     *)
(* block is free if it is shared serially, and there are slots left.       *)
MacBlocked(i) ==
  LET b == BankOf(i) IN
  \/ mode[RankOf(b)] # "SB"
  \/ \E f \in OnBank(InflightNow, b) : req[f.id].addr = req[i].addr
  \/ Serial /\ \E x \in Block(b) : OnBank(InflightNow, x) # {}
  \/ SlotsNow[b] + SlotsPerRequest > BlocksPerBank

(* ... for a PIM_MAC_AB that has reached its mode.                         *)
AllBankBlocked(i) ==
  LET r == RankOfRequest(i) IN mode[r] # "HAB_PIM" \/ ~LoadReadyNow[r] \/ AbNow # 0

(* Seeded fault: a load is not held back, though it changes the mode too.  *)
ModeBlockedNotLoad(i) ==
  /\ Final(i) \in Modes
  /\ AbNow # 0 /\ RankOfRequest(AbNow) = RankOfRequest(i)

(* ... and for the commands that change the mode of a rank or load its     *)
(* operands, while an all-bank operation is in flight there.               *)
ModeBlocked(i) ==
  /\ Final(i) \in Modes \cup {"PIM_BCAST"}
  /\ AbNow # 0 /\ RankOfRequest(AbNow) = RankOfRequest(i)

LaunchBlocked(i) ==
  LET c == Command(i) IN
  \/ ModeBlocked(i)
  \/ Final(i) = "PIM_BCAST"  /\ c # "HAB" /\ mode[RankOfRequest(i)] # "HAB"
  \/ Final(i) = "PIM_MAC_AB" /\ c # "HAB_PIM" /\ AllBankBlocked(i)
  \/ Final(i) = "PIM_MAC"    /\ c = "PIM_MAC" /\ MacBlocked(i)

Eligible(i) ==
  /\ ~HostBlocked(i)
  /\ ~(AbNow # 0 /\ Final(i) \in {"PIM_MAC", "PIM_MAC_AB"})
  /\ ~LaunchBlocked(i)

(* Seeded fault: work in flight at a bank does not protect its row.        *)
ActivationBlockedByOpening(c, b) ==
  Disturbs(c) /\ (AbNow # 0 \/ \E x \in Targets(c, b) : x \in owner)

(* would_block_activating: precharges and refreshes wait for banks between *)
(* ACT1 and ACT2, for banks with work in flight, and for all-bank work.    *)
ActivationBlocked(c, b) ==
  /\ Disturbs(c)
  /\ \/ AbNow # 0
     \/ \E x \in Targets(c, b) : x \in owner \/ OnBank(InflightNow, x) # {}

WouldCloseActive(c, b) ==
  /\ IsClosing(c) /\ active # <<>>
  /\ \E x \in Targets(c, b) : activePerBank[x] > 0
-----------------------------------------------------------------------------
(* select_normal_candidate.                                                *)

(* Seeded fault: an empty read buffer is no reason to drain the writes.    *)
WriteModeAtMark ==
  IF ~writeMode THEN Len(writeBuf) > WriteHigh ELSE ~(Len(writeBuf) < WriteLow)

(* set_write_mode.                                                         *)
WriteModeNow ==
  IF ~writeMode
  THEN Len(writeBuf) > WriteHigh \/ readBuf = <<>>
  ELSE ~(Len(writeBuf) < WriteLow /\ readBuf # <<>>)

Buffer(buf) == CASE buf = "active" -> active [] buf = "read" -> readBuf [] buf = "write" -> writeBuf

(* Seeded fault: a request to an opening bank may issue its ACT2.          *)
UndisturbingActives(i) ==
  LET c == Command(i) IN
  ~WouldCloseActive(c, BankOf(i)) /\ ~ActivationBlocked(c, BankOf(i))

(* Requests of the active buffer need only be eligible and legal; others   *)
(* must not disturb those, nor banks that are being activated.             *)
Undisturbing(i) ==
  LET c == Command(i) IN
  c # "ACT2" /\ ~WouldCloseActive(c, BankOf(i)) /\ ~ActivationBlocked(c, BankOf(i))

Ready(buf) ==
  {k \in DOMAIN Buffer(buf) :
     LET i == Buffer(buf)[k] IN
     /\ CheckTiming(Elapsed, Command(i), BankOf(i))
     /\ Eligible(i)
     /\ buf = "active" \/ Undisturbing(i)}

(* FRFCFS: the ready request that arrived first.                           *)
IsBest(buf, k) ==
  /\ k \in Ready(buf)
  /\ \A j \in Ready(buf) :
       LET a == req[Buffer(buf)[k]].arrive
           o == req[Buffer(buf)[j]].arrive
       IN a < o \/ (a = o /\ k <= j)

RefreshBank == Head(PriorityNow) * BanksPerRank
RefreshCommand == PreqCommand("REFab", RefreshBank, Closed)

(* pick_priority_if: the head of the priority buffer, or nothing.          *)
MaintenanceReady ==
  /\ PriorityNow # <<>>
  /\ CheckTiming(Elapsed, RefreshCommand, RefreshBank)
  /\ ~WouldCloseActive(RefreshCommand, RefreshBank)
  /\ ~ActivationBlocked(RefreshCommand, RefreshBank)

ReadWriteBuffer == IF WriteModeNow THEN "write" ELSE "read"

SelectsMaintenance == Ready("active") = {} /\ MaintenanceReady
Selects(buf, k) ==
  /\ IsBest(buf, k)
  /\ buf # "active" => /\ Ready("active") = {} /\ PriorityNow = <<>>
                       /\ buf = ReadWriteBuffer
SelectsNothing ==
  /\ Ready("active") = {} /\ ~MaintenanceReady
  /\ PriorityNow = <<>> => Ready(ReadWriteBuffer) = {}

WriteModeSelected ==
  IF Ready("active") = {} /\ PriorityNow = <<>> THEN WriteModeNow ELSE writeMode

(* The activating request whose ACT2 is due first.                         *)
FirstDue(k) ==
  /\ k \in DOMAIN activating
  /\ \A j \in DOMAIN activating :
       LET d == DeadlineNow[BankOf(activating[k])]
           e == DeadlineNow[BankOf(activating[j])]
       IN \/ d < e
          \/ d = e /\ req[activating[k]].arrive <= req[activating[j]].arrive

(* pick_urgent_act2.                                                       *)
Urgent == \E k \in DOMAIN activating : DeadlineNow[BankOf(activating[k])] <= 0

(* Seeded fault: a CAS lets an ACT2 ahead only when that is already late.   *)
CasBlocksDueOnly == \E b \in owner : DeadlineNow[b] <= 0

CasWouldBlockDeadline == \E b \in owner : DeadlineNow[b] <= CasGuard
-----------------------------------------------------------------------------
(* The steps of a tick.                                                    *)

(* The request at position k of buf leaves it.                             *)
Leave(buf, k) ==
  LET rest == RemoveAt(Buffer(buf), k) IN
  /\ active'   = IF buf = "active" THEN rest ELSE active
  /\ readBuf'  = IF buf = "read" THEN rest ELSE readBuf
  /\ writeBuf' = IF buf = "write" THEN rest ELSE writeBuf
  /\ buffered' = IF buf = "write" THEN buffered \ {req[writeBuf[k]].addr} ELSE buffered

Stay == UNCHANGED <<active, bufferVars>>

(* Seeded fault: the count goes down for requests that never were active.  *)
ReleaseAlways(buf, b) == activePerBank' = [activePerBank EXCEPT ![b] = @ - 1]

ReleaseBank(buf, b) ==
  activePerBank' = IF buf = "active" THEN [activePerBank EXCEPT ![b] = @ - 1] ELSE activePerBank

OpeningGoesOn == deadline' = DeadlineNow /\ UNCHANGED <<activating, owner>>

AbGoesOn == ab' = AbNow /\ abLeft' = AbLeftNow
MacsGoOn == inflight' = InflightNow /\ slots' = SlotsNow
RanksStay == mode' = mode /\ loadReady' = LoadReadyNow
PimGoesOn == AbGoesOn /\ MacsGoOn /\ RanksStay

TickStart ==
  /\ ~failed /\ ~RefreshFails
  /\ clk' = ClkNow /\ refreshIn' = RefreshInNow
  /\ UNCHANGED <<sent, req, failed>>

(* handle_mode_or_bcast_completion.                                        *)
ModeAfter(c, r) == IF c \in Modes THEN [mode EXCEPT ![r] = c] ELSE mode
LoadReadyAfter(c, r) ==
  CASE c \in {"SB", "HAB"} -> [LoadReadyNow EXCEPT ![r] = FALSE]
    [] c = "PIM_BCAST"     -> [LoadReadyNow EXCEPT ![r] = TRUE]
    [] OTHER               -> LoadReadyNow

EnterMode(c, r) == mode' = ModeAfter(c, r) /\ loadReady' = LoadReadyAfter(c, r)

(* retire_request: a read waits for its data, everything else is answered. *)
Retire(n, i) ==
  IF Final(i) = "RD" THEN Answer(n, {}, <<[id |-> i, left |-> ReadLatency]>>)
                     ELSE Answer(n, {i}, <<>>)

(* extend_wck_expiry.                                                      *)
WckAfter(c) == IF c \in Accesses THEN Larger(WckNow, WckTime[c]) ELSE WckNow

(* The final command of a host access, a load or a mode change.            *)
Perform(n, buf, k) ==
  LET i == Buffer(buf)[k]
      c == Final(i)
  IN /\ Command(i) = c /\ c \notin {"PIM_MAC", "PIM_MAC_AB"}
     /\ IssueCommand(c, BankOf(i), RowOf(i))
     /\ wckIn' = WckAfter(c)
     /\ EnterMode(c, RankOfRequest(i))
     /\ Leave(buf, k) /\ ReleaseBank(buf, BankOf(i))
     /\ Retire(n, i)
     /\ OpeningGoesOn /\ AbGoesOn /\ MacsGoOn

(* A prerequisite other than an activation: a precharge, or the mode       *)
(* change that a load or an all-bank operation asks for.                   *)
Prepare(n, buf, k) ==
  LET i == Buffer(buf)[k]
      c == Command(i)
  IN /\ c \notin {Final(i), "ACT1"}
     /\ IssueCommand(c, BankOf(i), RowOf(i))
     /\ EnterMode(c, RankOfRequest(i))
     /\ wckIn' = WckNow
     /\ Stay /\ UNCHANGED activePerBank
     /\ Answer(n, {}, <<>>)
     /\ OpeningGoesOn /\ AbGoesOn /\ MacsGoOn

(* ACT1, move_to_activating.                                               *)
Activate(n, buf, k) ==
  LET i == Buffer(buf)[k]
      b == BankOf(i)
  IN /\ Command(i) = "ACT1"
     /\ IssueCommand("ACT1", b, RowOf(i))
     /\ Leave(buf, k) /\ UNCHANGED activePerBank
     /\ activating' = Append(activating, i)
     /\ owner' = owner \cup {b}
     /\ deadline' = [DeadlineNow EXCEPT ![b] = nAAD]
     /\ wckIn' = WckNow
     /\ Answer(n, {}, <<>>)
     /\ PimGoesOn

(* launch_inflight_pim.                                                    *)
Launch(n, buf, k) ==
  LET i == Buffer(buf)[k]
      b == BankOf(i)
  IN /\ Command(i) = "PIM_MAC" /\ Final(i) = "PIM_MAC"
     /\ IssueCommand("PIM_MAC", b, RowOf(i))
     /\ Leave(buf, k) /\ ReleaseBank(buf, b)
     /\ inflight' = InflightNow \cup {[id |-> i, left |-> PimLatency]}
     /\ slots' = [SlotsNow EXCEPT ![b] = @ + SlotsPerRequest]
     /\ wckIn' = WckNow
     /\ Answer(n, {}, <<>>)
     /\ OpeningGoesOn /\ AbGoesOn /\ RanksStay

(* launch_inflight_pim_ab.                                                 *)
LaunchAllBank(n, buf, k) ==
  LET i == Buffer(buf)[k]
  IN /\ Command(i) = "PIM_MAC_AB" /\ Final(i) = "PIM_MAC_AB"
     /\ IssueCommand("PIM_MAC_AB", BankOf(i), RowOf(i))
     /\ Leave(buf, k) /\ UNCHANGED activePerBank
     /\ ab' = i /\ abLeft' = PimLatency * BanksPerBlock
     /\ loadReady' = [LoadReadyNow EXCEPT ![RankOfRequest(i)] = FALSE]
     /\ wckIn' = WckNow
     /\ Answer(n, {}, <<>>)
     /\ OpeningGoesOn /\ MacsGoOn /\ UNCHANGED mode

(* issue_owned_act2 and promote_from_activating.                           *)
OpenRow(n, k) ==
  LET i == activating[k]
      b == BankOf(i)
  IN /\ IssueCommand("ACT2", b, RowOf(i))
     /\ owner' = owner \ {b}
     /\ deadline' = [DeadlineNow EXCEPT ![b] = 0]
     /\ IF Len(active) < NBanks
        THEN /\ active' = Append(active, i)
             /\ activePerBank' = [activePerBank EXCEPT ![b] = @ + 1]
             /\ activating' = RemoveAt(activating, k)
        ELSE UNCHANGED <<active, activePerBank, activating>>
     /\ wckIn' = WckNow
     /\ Answer(n, {}, <<>>)
     /\ PimGoesOn /\ UNCHANGED bufferVars

Wait(n) ==
  /\ IssueNothing
  /\ wckIn' = WckNow
  /\ Answer(n, {}, <<>>)
  /\ OpeningGoesOn /\ PimGoesOn /\ Stay /\ UNCHANGED activePerBank

(* CAS for the selected access: it will follow, whatever else is ready.    *)
Synchronise(n, buf, k) ==
  LET i == Buffer(buf)[k]
  IN /\ IssueCommand(IF Final(i) = "RD" THEN "CAS_RD" ELSE "CAS_WR", BankOf(i), RowOf(i))
     /\ casReq' = i
     /\ wckIn' = WckNow
     /\ Answer(n, {}, <<>>)
     /\ OpeningGoesOn /\ PimGoesOn /\ Stay /\ UNCHANGED activePerBank
-----------------------------------------------------------------------------
(* tick.                                                                   *)

(* 1. A CAS has been issued: its access follows as soon as it is legal.    *)
TickSynchronised(n) ==
  /\ casReq # 0
  /\ TickStart /\ priority' = PriorityNow /\ UNCHANGED writeMode
  /\ IF CheckTiming(Elapsed, Final(casReq), BankOf(casReq))
     THEN /\ casReq' = 0
          /\ \E buf \in {"active", "read", "write"} : \E k \in DOMAIN Buffer(buf) :
               Buffer(buf)[k] = casReq /\ Perform(n, buf, k)
     ELSE Wait(n) /\ UNCHANGED casReq

(* 2. Otherwise an ACT2 whose deadline has come.                           *)
TickUrgent(n) ==
  /\ casReq = 0 /\ Urgent
  /\ TickStart /\ priority' = PriorityNow /\ UNCHANGED <<writeMode, casReq>>
  /\ \E k \in DOMAIN activating : FirstDue(k) /\ OpenRow(n, k)

(* 3. Otherwise the head of the priority buffer, if it is selected.        *)
TickMaintenance(n) ==
  /\ casReq = 0 /\ ~Urgent /\ SelectsMaintenance
  /\ TickStart /\ UNCHANGED <<writeMode, casReq>>
  /\ IssueCommand(RefreshCommand, RefreshBank, Closed)
  /\ priority' = IF RefreshCommand = "REFab" THEN Tail(PriorityNow) ELSE PriorityNow
  /\ wckIn' = WckNow
  /\ Answer(n, {}, <<>>)
  /\ OpeningGoesOn /\ PimGoesOn /\ Stay /\ UNCHANGED activePerBank

(* 4. Otherwise the selected request. An access that finds the data clock  *)
(*    stopped is preceded by a CAS, unless that could delay an ACT2 past   *)
(*    its deadline: then the ACT2 goes first.                              *)
NeedsSync(i) == Command(i) \in Accesses /\ WckNow = 0

TickSelected(n) ==
  \E buf \in {"active", "read", "write"} : \E k \in DOMAIN Buffer(buf) :
    LET sync == NeedsSync(Buffer(buf)[k])
    IN /\ casReq = 0 /\ ~Urgent /\ Selects(buf, k)
       /\ TickStart /\ priority' = PriorityNow /\ writeMode' = WriteModeSelected
       /\ \/ /\ sync /\ CasWouldBlockDeadline /\ UNCHANGED casReq
             /\ \E j \in DOMAIN activating : FirstDue(j) /\ OpenRow(n, j)
          \/ sync /\ ~CasWouldBlockDeadline /\ Synchronise(n, buf, k)
          \/ /\ ~sync /\ UNCHANGED casReq
             /\ \/ Perform(n, buf, k) \/ Prepare(n, buf, k) \/ Activate(n, buf, k)
                \/ Launch(n, buf, k) \/ LaunchAllBank(n, buf, k)

(* 5. Otherwise an ACT2 ahead of its deadline, or nothing.                 *)
TickDeferred(n) ==
  /\ casReq = 0 /\ ~Urgent /\ SelectsNothing
  /\ TickStart /\ priority' = PriorityNow /\ writeMode' = WriteModeSelected /\ UNCHANGED casReq
  /\ IF activating = <<>> THEN Wait(n)
     ELSE \E k \in DOMAIN activating : FirstDue(k) /\ OpenRow(n, k)

(* The refresh manager finds the priority buffer full and throws.          *)
TickThrow(n) ==
  /\ ~failed /\ RefreshFails /\ failed' = TRUE
  /\ clk' = ClkNow /\ refreshIn' = RefreshInNow
  /\ priority' = SubSeq(PriorityNow, 1, PrioritySize)
  /\ Wait(n)
  /\ UNCHANGED <<sent, req, writeMode, casReq>>

Tick ==
  \E n \in 0 .. Len(pending) :
    /\ Drains(n)
    /\ \/ TickSynchronised(n) \/ TickUrgent(n) \/ TickMaintenance(n) \/ TickSelected(n)
       \/ TickDeferred(n) \/ TickThrow(n)
-----------------------------------------------------------------------------
Init ==
  /\ PIMDeviceInit
  /\ sent = 0 /\ clk = 0
  /\ req = [i \in Ids |-> [final |-> "RD", addr |-> CHOOSE a \in Addrs : TRUE, arrive |-> 0]]
  /\ readBuf = <<>> /\ writeBuf = <<>> /\ activating = <<>> /\ active = <<>>
  /\ priority = <<>> /\ pending = <<>>
  /\ activePerBank = [b \in Banks |-> 0]
  /\ buffered = {} /\ owner = {} /\ inflight = {}
  /\ writeMode = FALSE /\ failed = FALSE
  /\ deadline = [b \in Banks |-> 0]
  /\ slots = [b \in Banks |-> 0]
  /\ wckIn = 0 /\ casReq = 0 /\ ab = 0 /\ abLeft = 0
  /\ mode = [r \in Ranks |-> "SB"]
  /\ loadReady = [r \in Ranks |-> FALSE]
  /\ refreshIn = NREFI
  /\ replies = [i \in Ids |-> 0]

Next == Send \/ Tick

Spec == Init /\ [][Next]_vars

(* The memory system ticks every controller on every cycle, for ever.      *)
FairSpec == Spec /\ WF_vars(Tick)

(* A frontend that offers its next request on every cycle until accepted.  *)
FairFrontendSpec == FairSpec /\ WF_vars(Send)
-----------------------------------------------------------------------------
(* The types of the variables.                                             *)
TypeOK ==
  /\ PIMDeviceTypeOK
  /\ sent \in 0 .. MaxSend
  /\ req \in [Ids -> Requests]
  /\ clk \in Nat
  /\ {readBuf, writeBuf, activating, active} \subseteq Seq(Ids)
  /\ priority \in Seq(Ranks)
  /\ pending \in Seq(Timers)
  /\ activePerBank \in [Banks -> Int]
  /\ buffered \subseteq Addrs
  /\ owner \subseteq Banks
  /\ deadline \in [Banks -> Int]
  /\ {wckIn, abLeft, refreshIn} \subseteq Nat
  /\ {casReq, ab} \subseteq 0 .. MaxSend
  /\ mode \in [Ranks -> Modes]
  /\ loadReady \in [Ranks -> BOOLEAN]
  /\ inflight \subseteq Timers
  /\ slots \in [Banks -> Int]
  /\ {writeMode, failed} \subseteq BOOLEAN
  /\ replies \in [Ids -> Nat]

(* An accepted request is in exactly one place - a buffer, the pending     *)
(* queue, in flight - or has been answered once.                           *)
Occurrences(q, i) == Cardinality({k \in DOMAIN q : q[k] = i})

Conserved ==
  \A i \in Ids :
    Occurrences(readBuf, i) + Occurrences(writeBuf, i) + Occurrences(activating, i)
      + Occurrences(active, i) + Cardinality({k \in DOMAIN pending : pending[k].id = i})
      + Cardinality({f \in inflight : f.id = i}) + (IF ab = i THEN 1 ELSE 0) + replies[i]
    = IF i <= sent THEN 1 ELSE 0

(* pick_urgent_act2, issue_owned_act2: an ACT2 is issued at its deadline   *)
(* at the latest, whatever CAS commands, urgent ACT2s of other banks and   *)
(* column commands compete for the cycle (assert(m_clk <= deadline)), and  *)
(* none becomes urgent before a synchronised access has followed its CAS   *)
(* (assert(!urgent_act2.valid)), until the refresh manager has thrown.     *)
DeadlinesKept ==
  ~failed => \A b \in owner : deadline[b] >= 1 /\ (casReq # 0 => deadline[b] >= 2)

(* A bank is between ACT1 and ACT2 exactly while one request of the        *)
(* activating buffer owns it; a request waiting in the active buffer has   *)
(* its row open.                                                           *)
ActivationExact ==
  /\ \A b \in Banks :
       /\ open[b] = Activating <=> b \in owner
       /\ Cardinality({k \in DOMAIN activating : BankOf(activating[k]) = b})
            = IF b \in owner THEN 1 ELSE 0
  /\ \A k \in DOMAIN active : open[BankOf(active[k])] = RowOf(active[k])

(* The count that protects the rows of active requests is the number of    *)
(* active requests of the bank, also after a launch has removed one.       *)
ActiveCountExact ==
  \A b \in Banks : activePerBank[b] = Cardinality({k \in DOMAIN active : BankOf(active[k]) = b})

(* The slots in use are those of the work in flight, and never more than   *)
(* the bank has.                                                           *)
SlotsExact ==
  \A b \in Banks : /\ slots[b] = SlotsPerRequest * Cardinality(OnBank(inflight, b))
                   /\ slots[b] <= BlocksPerBank

(* README: shared_block_serial permits only one in-flight per-bank MAC in  *)
(* each group of pim_banks_per_block banks, in the order of the bank IDs.  *)
BlockExclusive ==
  Serial => \A f, g \in inflight :
              BankOf(f.id) \div BanksPerBlock = BankOf(g.id) \div BanksPerBlock => f = g

(* Work on the same operand of a bank is never in flight twice, also where *)
(* pieces of work overlap (the dependency identity of m_inflight_pim).     *)
DependentsSerialized == \A f, g \in inflight : req[f.id].addr = req[g.id].addr => f = g

(* README: refresh and closing commands wait for affected in-flight work.  *)
(* While a PIM_MAC executes its bank keeps its row open and its rank stays *)
(* short of the execution of a refresh.                                    *)
ExecutingRowOpen == \A f \in inflight : open[BankOf(f.id)] = RowOf(f.id)

(* No refresh is issued anywhere while an all-bank operation is in flight. *)
RefreshWaitsForAllBank == [][ab # 0 /\ ab' = ab => Len(priority') >= Len(priority)]_vars

(* README: host reads and writes do not issue while the rank is in an      *)
(* all-bank mode. A host request leaves the buffers when its column        *)
(* command issues. The mode is the device's, not the controller's idea of it. *)
Buffered(i) == \E q \in {readBuf, writeBuf, activating, active} : \E k \in DOMAIN q : q[k] = i

HostNeedsHostMode ==
  [][\A i \in 1 .. sent : IsHost(i) /\ Buffered(i) /\ ~Buffered(i)'
                            => rankState[RankOfRequest(i)] = "SB"]_vars

(* The controller implements the port and, for every rank, the protocol of *)
(* its modes.                                                              *)
Port == INSTANCE MemoryPort
ImplementsPort == Port!PortSpec

Session == INSTANCE PIMSession WITH
             mode <- rankState,
             busy <- {RankOfRequest(i) : i \in {ab} \ {0}},
             loaded <- {r \in Ranks : loadReady[r]}
ImplementsSession == Session!SessionSpec

(* Every accepted request is answered.                                     *)
EveryRequestAnswered == []<>(\A i \in 1 .. sent : replies[i] = 1)

(* LPDDRPIMConcreteTrace::is_finished: the trace is sent to its end and     *)
(* answered, across its mode changes and whatever refreshes fall due.      *)
TraceFinishes == <>[](sent = MaxSend /\ \A i \in Ids : replies[i] = 1)

(* README: SB returns to host single-bank mode. An accepted SB is carried  *)
(* out.                                                                    *)
SBIsCarriedOut == \A i \in Ids : i <= sent /\ Final(i) = "SB" ~> replies[i] = 1
=============================================================================
