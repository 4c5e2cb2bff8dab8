----------------------------- MODULE GenericDDR -----------------------------
(***************************************************************************)
(* The generic DDR memory controller: ControllerBase (request buffers,     *)
(* write forwarding and coalescing, the promotion of a request to the      *)
(* active buffer, write-mode watermarks, the pending-read queue), the tick *)
(* of GenericDDRController, the FRFCFS scheduler, the Open and ClosedCAP   *)
(* row policies and the AllBank refresh manager.                           *)
(*                                                                         *)
(* A request is known by its identifier, the order of its acceptance; its  *)
(* attributes are in req. The buffers are lists of identifiers, as they    *)
(* are lists of requests in the code. m_clk is compressed to clk, which    *)
(* advances only over cycles in which a request arrived: it is read only   *)
(* to compare arrival times. The completion time of a pending read is kept *)
(* as the number of cycles left.                                           *)
(***************************************************************************)
EXTENDS DRAMDevice, SequencesExt

CONSTANTS
  Addrs,         \* request addresses
  AddrBank,      \* AddrBank[a], AddrRow[a]: what the address mapper makes of a
  AddrRow,
  ReadSize,      \* m_read_buffer.max_size
  WriteSize,     \* m_write_buffer.max_size
  PrioritySize,  \* m_priority_buffer.max_size
  WriteHigh,     \* switch to writes when more than WriteHigh are buffered
  WriteLow,      \* switch to reads when fewer than WriteLow are buffered
  ReadLatency,   \* m_spec->read_latency
  RowPolicy,     \* "Open" or "ClosedCAP"
  Cap,           \* ClosedCAP: column accesses before a row is closed
  HasAutoPre,    \* ClosedCAP: the standard has RDA and WRA (m_has_ap)
  NREFI,         \* refresh interval in cycles, 0 for the NoRefresh manager
  MaxSend        \* bound: number of requests the frontend sends

ASSUME ControllerAssumption ==
  /\ Addrs # {}
  /\ AddrBank \in [Addrs -> Banks]
  /\ AddrRow \in [Addrs -> Rows]
  /\ {ReadSize, WriteSize, PrioritySize, MaxSend} \subseteq Nat \ {0}
  /\ {WriteHigh, WriteLow, Cap, NREFI} \subseteq Nat
  /\ ReadLatency \in Nat \ {0, 1}
  /\ RowPolicy \in {"Open", "ClosedCAP"}
  /\ HasAutoPre \in BOOLEAN

(* The tables of the standards list RDA and WRA wherever RD and WR follow: *)
(* an access that is ready is ready with auto-precharge.                   *)
ASSUME AutoPreAssumption ==
  HasAutoPre =>
    \A c \in Cmd, p \in {<<"RDA", "RD">>, <<"WRA", "WR">>} :
      /\ RankLat[<<c, p[1]>>] <= RankLat[<<c, p[2]>>]
      /\ BankLat[<<c, p[1]>>] <= BankLat[<<c, p[2]>>]

VARIABLES
  sent,          \* number of requests accepted by send
  req,           \* req[i]: type, address and arrival time of request i
  clk,           \* m_clk, cycles without an arrival skipped
  readBuf,       \* m_read_buffer
  writeBuf,      \* m_write_buffer
  active,        \* m_active_buffer
  priority,      \* m_priority_buffer: final command and bank of a maintenance request
  pending,       \* m_pending: reads waiting for their latency
  activePerBank, \* m_active_per_bank
  buffered,      \* m_buffered_write_addrs
  writeMode,     \* m_is_write_mode
  colAccesses,   \* ClosedCAP: m_col_accesses
  injected,      \* ClosedCAP: m_prepb_injected
  refreshIn,     \* cycles until the next refresh is due
  failed,        \* the refresh manager threw: the simulation has stopped
  replies        \* replies[i]: how often the callback of request i has run

queueVars  == <<readBuf, writeBuf, active, priority, pending>>
policyVars == <<colAccesses, injected, refreshIn, failed>>
vars == <<deviceVars, sent, req, clk, queueVars, activePerBank, buffered,
          writeMode, policyVars, replies>>

Ids == 1 .. MaxSend
Maintenance == [final : {"PREpb", "REFab"}, bank : Banks]
Pending == [id : Ids, left : Nat]
Requests == [type : {"Read", "Write"}, addr : Addrs, arrive : Nat]

BankOf(i) == AddrBank[req[i].addr]
RowOf(i)  == AddrRow[req[i].addr]

(* The terminal command of a request, supported_requests[type_id].         *)
FinalCommand(i) == IF req[i].type = "Read" THEN "RD" ELSE "WR"

-----------------------------------------------------------------------------
(* send: the frontend offers a request. A refused request (its buffer is   *)
(* full) leaves the controller as it was, so only acceptance is a step.    *)

Accept(type, a) ==
  /\ sent < MaxSend
  /\ ~failed
  /\ sent' = sent + 1
  /\ req' = [req EXCEPT ![sent + 1] = [type |-> type, addr |-> a, arrive |-> clk]]
  /\ UNCHANGED <<deviceVars, clk, active, priority, activePerBank, writeMode, policyVars>>

(* A read of a buffered write's address is answered by forwarding: it will *)
(* depart in the next cycle.                                               *)
SendForwardedRead(a) ==
  /\ a \in buffered
  /\ Accept("Read", a)
  /\ pending' = Append(pending, [id |-> sent + 1, left |-> 1])
  /\ UNCHANGED <<readBuf, writeBuf, buffered, replies>>

(* Seeded fault: send looks for room before it looks for a buffered write. *)
SendReadUnforwarded(a) ==
  /\ Len(readBuf) < ReadSize
  /\ Accept("Read", a)
  /\ readBuf' = Append(readBuf, sent + 1)
  /\ UNCHANGED <<writeBuf, pending, buffered, replies>>

SendRead(a) ==
  /\ a \notin buffered
  /\ Len(readBuf) < ReadSize
  /\ Accept("Read", a)
  /\ readBuf' = Append(readBuf, sent + 1)
  /\ UNCHANGED <<writeBuf, pending, buffered, replies>>

(* A write to a buffered write's address is absorbed by it.                *)
SendCoalescedWrite(a) ==
  /\ a \in buffered
  /\ Accept("Write", a)
  /\ replies' = [replies EXCEPT ![sent + 1] = @ + 1]
  /\ UNCHANGED <<readBuf, writeBuf, pending, buffered>>

SendWrite(a) ==
  /\ a \notin buffered
  /\ Len(writeBuf) < WriteSize
  /\ Accept("Write", a)
  /\ writeBuf' = Append(writeBuf, sent + 1)
  /\ buffered' = buffered \cup {a}
  /\ UNCHANGED <<readBuf, pending, replies>>

Send == \E a \in Addrs : \/ SendForwardedRead(a) \/ SendRead(a)
                         \/ SendCoalescedWrite(a) \/ SendWrite(a)
-----------------------------------------------------------------------------
(* The first part of a tick: one cycle passes, completed reads are served, *)
(* the refresh manager and the row policy queue their maintenance.         *)

ClkNow == IF \E i \in 1 .. sent : req[i].arrive = clk THEN clk + 1 ELSE clk

(* serve_completed_reads drains the queue up to the first read that is not *)
(* yet due: the first n pending reads are served.                          *)
Aged == [k \in DOMAIN pending |-> [pending[k] EXCEPT !.left = Larger(@ - 1, 0)]]

Drains(n) ==
  /\ \A k \in 1 .. n : Aged[k].left = 0
  /\ n < Len(pending) => Aged[n + 1].left # 0

(* Seeded fault: the last served read is left in the queue.                *)
PendingNotPopped(n) == SubSeq(Aged, IF n = 0 THEN 1 ELSE n, Len(pending))

PendingNow(n) == SubSeq(Aged, n + 1, Len(pending))

RepliesNow(n) ==
  [i \in Ids |-> replies[i] + (IF \E k \in 1 .. n : pending[k].id = i THEN 1 ELSE 0)]

(* AllBankRefresh::tick_all_at_once.                                       *)
RefreshDue == NREFI # 0 /\ refreshIn = 1
RefreshInNow == IF NREFI = 0 THEN 0 ELSE IF RefreshDue THEN NREFI ELSE refreshIn - 1
RefreshFails == RefreshDue /\ Len(priority) >= PrioritySize
PriorityRefreshed ==
  IF RefreshDue THEN Append(priority, [final |-> "REFab", bank |-> 0]) ELSE priority

(* Seeded fault: the row is closed one access late.                        *)
CapPassed(b) == RowPolicy = "ClosedCAP" /\ colAccesses[b] > Cap

CapReached(b) == RowPolicy = "ClosedCAP" /\ colAccesses[b] >= Cap

(* ClosedCAPRowPolicy::pre_schedule: an explicit PREpb for every bank that *)
(* has reached the cap, in bank order, as far as the buffer has room.      *)
WantsPrecharge(b) == CapReached(b) /\ ~injected[b] /\ CheckTiming(Elapsed, "PREpb", b)

Injects(inj) ==
  /\ \A j, k \in DOMAIN inj : j < k => inj[j] < inj[k]
  /\ \A k \in DOMAIN inj : WantsPrecharge(inj[k])
  /\ Len(PriorityRefreshed) + Len(inj) <= PrioritySize
  /\ \A b \in Banks : WantsPrecharge(b) =>
       \/ \E k \in DOMAIN inj : inj[k] = b
       \/ /\ Len(PriorityRefreshed) + Len(inj) = PrioritySize
          /\ \A k \in DOMAIN inj : inj[k] < b

Injections == {inj \in BoundedSeq(Banks, NBanks) : Injects(inj)}

PriorityNow(inj) ==
  PriorityRefreshed \o [k \in DOMAIN inj |-> [final |-> "PREpb", bank |-> inj[k]]]

(* Seeded fault: a bank is marked although priority_send refused.          *)
InjectedWanted(inj) == [b \in Banks |-> injected[b] \/ WantsPrecharge(b)]

InjectedNow(inj) == [b \in Banks |-> injected[b] \/ \E k \in DOMAIN inj : inj[k] = b]
-----------------------------------------------------------------------------
(* Scheduling.                                                             *)

Command(i) == PreqCommand(FinalCommand(i), BankOf(i), RowOf(i))

(* Seeded fault: one waiting request does not protect its row.             *)
WouldCloseActiveOffByOne(c, b) ==
  /\ IsClosing(c) /\ active # <<>>
  /\ \E x \in Targets(c, b) : activePerBank[x] > 1

(* Seeded fault: only single-bank precharges are held back.                *)
WouldCloseActiveSingle(c, b) ==
  /\ IsClosing(c) /\ active # <<>> /\ ~TargetsAll(c)
  /\ activePerBank[b] > 0

WouldCloseActive(c, b) ==
  /\ IsClosing(c) /\ active # <<>>
  /\ \E x \in Targets(c, b) : activePerBank[x] > 0

(* FRFCFS: positions of q whose request is eligible and ready, and the one *)
(* that arrived first among them (the earlier in the list on a tie).       *)
ReadyIn(q, closingAllowed) ==
  {k \in DOMAIN q : /\ CheckTiming(Elapsed, Command(q[k]), BankOf(q[k]))
                    /\ closingAllowed \/ ~WouldCloseActive(Command(q[k]), BankOf(q[k]))}

IsBest(k, q, ready) ==
  /\ k \in ready
  /\ \A j \in ready : \/ req[q[k]].arrive < req[q[j]].arrive
                      \/ req[q[k]].arrive = req[q[j]].arrive /\ k <= j

ReadyActive == ReadyIn(active, TRUE)

(* pick_priority_if: the head of the buffer q, or nothing.                 *)
PriorityCommand(q) == PreqCommand(Head(q).final, Head(q).bank, Closed)

(* Seeded fault: maintenance yields to requests, which in turn wait for it. *)
PriorityReadyLast(q) ==
  /\ q # <<>> /\ readBuf = <<>> /\ writeBuf = <<>>
  /\ CheckTiming(Elapsed, PriorityCommand(q), Head(q).bank)
  /\ ~WouldCloseActive(PriorityCommand(q), Head(q).bank)

PriorityReady(q) ==
  /\ q # <<>>
  /\ CheckTiming(Elapsed, PriorityCommand(q), Head(q).bank)
  /\ ~WouldCloseActive(PriorityCommand(q), Head(q).bank)

(* Seeded fault: the controller does not return to reads.                  *)
WriteModeSticky == writeMode \/ Len(writeBuf) > WriteHigh \/ readBuf = <<>>

(* set_write_mode.                                                         *)
WriteModeNow ==
  IF ~writeMode
  THEN Len(writeBuf) > WriteHigh \/ readBuf = <<>>
  ELSE ~(Len(writeBuf) < WriteLow /\ readBuf # <<>>)

ReadWriteBuf == IF WriteModeNow THEN writeBuf ELSE readBuf
ReadyReadWrite == ReadyIn(ReadWriteBuf, FALSE)

(* ClosedCAPRowPolicy::try_upgrade_command: auto-precharge at the cap.     *)
Upgrade(c, b) ==
  IF CapReached(b) /\ HasAutoPre
  THEN CASE c = "RD" /\ CheckTiming(Elapsed, "RDA", b) -> "RDA"
         [] c = "WR" /\ CheckTiming(Elapsed, "WRA", b) -> "WRA"
         [] OTHER -> c
  ELSE c

(* ClosedCAPRowPolicy::on_issue: a closing command resets the count and    *)
(* the mark of its banks, an access that leaves the row open is counted.   *)
AccessesAfter(c, b) ==
  [x \in Banks |-> IF x \notin Targets(c, b) THEN colAccesses[x]
                   ELSE IF IsClosing(c) THEN 0
                   ELSE IF IsAccessing(c) THEN colAccesses[x] + 1
                   ELSE colAccesses[x]]

InjectedAfter(inj, c, b) ==
  [x \in Banks |-> InjectedNow(inj)[x] /\ ~(IsClosing(c) /\ x \in Targets(c, b))]

Issue(inj, c, b, r) ==
  /\ IssueCommand(Elapsed, c, b, r)
  /\ IF RowPolicy = "ClosedCAP"
     THEN colAccesses' = AccessesAfter(c, b) /\ injected' = InjectedAfter(inj, c, b)
     ELSE UNCHANGED <<colAccesses, injected>>

(* Once its final command has issued, a read waits for its data and a      *)
(* write is answered (retire_request).                                     *)
Complete(n, i) ==
  IF req[i].type = "Read"
  THEN /\ pending' = Append(PendingNow(n), [id |-> i, left |-> ReadLatency])
       /\ replies' = RepliesNow(n)
  ELSE /\ replies' = [RepliesNow(n) EXCEPT ![i] = @ + 1]
       /\ pending' = PendingNow(n)

CompleteNone(n) == pending' = PendingNow(n) /\ replies' = RepliesNow(n)

(* The bookkeeping of promote_to_active and retire_request.                *)
Entered(b) == [activePerBank EXCEPT ![b] = @ + 1]

(* Seeded fault: retiring a request does not release its bank.             *)
LeftCounted(b) == activePerBank

Left(b) == [activePerBank EXCEPT ![b] = @ - 1]

(* Seeded fault: a write that leaves the buffer stays in the forwarding set. *)
StillBuffered(i) == buffered

NoLongerBuffered(i) == buffered \ {req[i].addr}

(* A request is done when its final command issues; it is promoted when    *)
(* its opening command does, if the active buffer has room.                *)
Done(i) == Command(i) = FinalCommand(i)
Promoted(i) == ~Done(i) /\ IsOpening(Command(i)) /\ Len(active) < NBanks

TickStart ==
  /\ ~failed /\ ~RefreshFails
  /\ clk' = ClkNow
  /\ refreshIn' = RefreshInNow
  /\ UNCHANGED <<sent, req, failed>>

(* 1. A request of the active buffer is ready. When its row has been       *)
(*    closed under it, it is opened again and the request is promoted from *)
(*    the active buffer to the active buffer.                              *)
TickActive(n, inj) ==
  \E k \in DOMAIN active :
    LET i == active[k]
        b == BankOf(i)
    IN /\ IsBest(k, active, ReadyActive)
       /\ TickStart
       /\ Issue(inj, Upgrade(Command(i), b), b, RowOf(i))
       /\ priority' = PriorityNow(inj)
       /\ IF Done(i) THEN Complete(n, i) ELSE CompleteNone(n)
       /\ active' = IF Done(i) THEN RemoveAt(active, k)
                    ELSE IF Promoted(i) THEN RemoveAt(Append(active, i), k)
                    ELSE active
       /\ activePerBank' = IF Done(i) THEN Left(b)
                           ELSE IF Promoted(i) THEN Entered(b)
                           ELSE activePerBank
       /\ UNCHANGED <<readBuf, writeBuf, buffered, writeMode>>

(* 2. Otherwise the head of the priority buffer is ready.                  *)
TickPriority(n, inj) ==
  LET q == PriorityNow(inj)
      m == Head(q)
      c == PriorityCommand(q)
  IN /\ ReadyActive = {} /\ PriorityReady(q)
     /\ TickStart
     /\ Issue(inj, c, m.bank, Closed)
     /\ priority' = IF c = m.final THEN Tail(q) ELSE q
     /\ CompleteNone(n)
     /\ UNCHANGED <<readBuf, writeBuf, active, activePerBank, buffered, writeMode>>

(* 3. Otherwise, if no maintenance is queued, a read or a write.           *)
TickReadWrite(n, inj) ==
  \E k \in DOMAIN ReadWriteBuf :
    LET i == ReadWriteBuf[k]
        b == BankOf(i)
        leaves == Done(i) \/ Promoted(i)
        rest == IF leaves THEN RemoveAt(ReadWriteBuf, k) ELSE ReadWriteBuf
    IN /\ ReadyActive = {} /\ PriorityNow(inj) = <<>>
       /\ IsBest(k, ReadWriteBuf, ReadyReadWrite)
       /\ TickStart
       /\ Issue(inj, Upgrade(Command(i), b), b, RowOf(i))
       /\ priority' = PriorityNow(inj)
       /\ IF Done(i) THEN Complete(n, i) ELSE CompleteNone(n)
       /\ writeMode' = WriteModeNow
       /\ readBuf' = IF WriteModeNow THEN readBuf ELSE rest
       /\ writeBuf' = IF WriteModeNow THEN rest ELSE writeBuf
       /\ buffered' = IF WriteModeNow /\ leaves THEN NoLongerBuffered(i) ELSE buffered
       /\ active' = IF Promoted(i) THEN Append(active, i) ELSE active
       /\ activePerBank' = IF Promoted(i) THEN Entered(b) ELSE activePerBank

(* 4. Otherwise the cycle passes without a command.                        *)
TickIdle(n, inj) ==
  LET q == PriorityNow(inj)
  IN /\ ReadyActive = {} /\ ~PriorityReady(q)
     /\ q = <<>> => ReadyReadWrite = {}
     /\ TickStart
     /\ priority' = q
     /\ injected' = InjectedNow(inj)
     /\ wait' = Elapsed
     /\ CompleteNone(n)
     /\ writeMode' = IF q = <<>> THEN WriteModeNow ELSE writeMode
     /\ UNCHANGED <<open, readBuf, writeBuf, active, activePerBank, buffered, colAccesses>>

(* 5. The refresh manager finds the priority buffer full and throws.       *)
TickThrow(n) ==
  /\ ~failed /\ RefreshFails
  /\ failed' = TRUE
  /\ clk' = ClkNow
  /\ CompleteNone(n)
  /\ refreshIn' = RefreshInNow
  /\ wait' = Elapsed
  /\ UNCHANGED <<open, sent, req, readBuf, writeBuf, active, priority, activePerBank,
                 buffered, writeMode, colAccesses, injected>>

Tick ==
  \E n \in 0 .. Len(pending) :
    /\ Drains(n)
    /\ \/ TickThrow(n)
       \/ \E inj \in Injections : \/ TickActive(n, inj) \/ TickPriority(n, inj)
                                   \/ TickReadWrite(n, inj) \/ TickIdle(n, inj)
-----------------------------------------------------------------------------
Init ==
  /\ DeviceInit
  /\ sent = 0
  /\ req = [i \in Ids |-> [type |-> "Read", addr |-> CHOOSE a \in Addrs : TRUE, arrive |-> 0]]
  /\ clk = 0
  /\ readBuf = <<>> /\ writeBuf = <<>> /\ active = <<>>
  /\ priority = <<>> /\ pending = <<>>
  /\ activePerBank = [b \in Banks |-> 0]
  /\ buffered = {}
  /\ writeMode = FALSE
  /\ colAccesses = [b \in Banks |-> 0]
  /\ injected = [b \in Banks |-> FALSE]
  /\ refreshIn = NREFI
  /\ failed = FALSE
  /\ replies = [i \in Ids |-> 0]

Next == Send \/ Tick

Spec == Init /\ [][Next]_vars

(* The memory system ticks every controller on every cycle, for ever.      *)
FairSpec == Spec /\ WF_vars(Tick)
-----------------------------------------------------------------------------
(* The types of the variables.                                             *)
TypeOK ==
  /\ DeviceTypeOK
  /\ sent \in 0 .. MaxSend
  /\ req \in [Ids -> Requests]
  /\ clk \in Nat
  /\ {readBuf, writeBuf, active} \subseteq Seq(Ids)
  /\ priority \in Seq(Maintenance)
  /\ pending \in Seq(Pending)
  /\ activePerBank \in [Banks -> Int]
  /\ buffered \subseteq Addrs
  /\ writeMode \in BOOLEAN
  /\ colAccesses \in [Banks -> Nat]
  /\ injected \in [Banks -> BOOLEAN]
  /\ refreshIn \in IF NREFI = 0 THEN {0} ELSE 1 .. NREFI
  /\ failed \in BOOLEAN
  /\ replies \in [Ids -> Nat]

(* An accepted request is in exactly one of the buffers or has been        *)
(* answered once: no step of its way (forwarding, coalescing, promotion,   *)
(* retirement, service) loses or duplicates it.                            *)
Occurrences(q, i) == Cardinality({k \in DOMAIN q : q[k] = i})

Conserved ==
  \A i \in Ids :
    Occurrences(readBuf, i) + Occurrences(writeBuf, i) + Occurrences(active, i)
      + Cardinality({k \in DOMAIN pending : pending[k].id = i}) + replies[i]
    = IF i <= sent THEN 1 ELSE 0

(* The forwarding set is exactly the addresses of the write buffer, which  *)
(* holds at most one write per address; a stale entry would answer reads   *)
(* and writes that no buffered write covers.                               *)
ForwardSetExact ==
  /\ buffered = {req[writeBuf[k]].addr : k \in DOMAIN writeBuf}
  /\ \A j, k \in DOMAIN writeBuf :
       req[writeBuf[j]].addr = req[writeBuf[k]].addr => j = k

(* A read waits in the read buffer behind no older buffered write of its   *)
(* address: whatever the scheduler does, it cannot overtake one there.     *)
NoStaleRead ==
  \A k \in DOMAIN readBuf, j \in DOMAIN writeBuf :
    req[readBuf[k]].addr = req[writeBuf[j]].addr => readBuf[k] < writeBuf[j]

(* The row that was opened for a request of the active buffer stays open   *)
(* until the request has used it: would_close_active protects it from the  *)
(* row conflicts, precharges and refreshes of everyone else.               *)
ActiveRowOpen == \A k \in DOMAIN active : open[BankOf(active[k])] = RowOf(active[k])

(* controller_base.h: m_active_per_bank is the per-bank count of requests  *)
(* in the active buffer.                                                   *)
ActiveCountExact ==
  \A b \in Banks : activePerBank[b] = Cardinality({k \in DOMAIN active : BankOf(active[k]) = b})

(* With auto-precharge a row serves at most Cap + 1 column accesses: the   *)
(* count of those that left it open never passes the cap.                  *)
CapBound == RowPolicy = "ClosedCAP" /\ HasAutoPre => \A b \in Banks : colAccesses[b] <= Cap

(* A bank marked as having an injected precharge has one in the priority   *)
(* buffer; a mark without one would keep the fallback from ever closing    *)
(* the bank again.                                                         *)
InjectedIsQueued ==
  \A b \in Banks : injected[b] =>
    \E k \in DOMAIN priority : priority[k] = [final |-> "PREpb", bank |-> b]

(* A refresh is carried out before the next one falls due, so the refresh  *)
(* manager never finds the priority buffer full.                           *)
RefreshOnTime ==
  /\ ~failed
  /\ Cardinality({k \in DOMAIN priority : priority[k].final = "REFab"}) <= 1

(* The controller implements the port: every request it accepts is         *)
(* answered at most once, and only accepted requests are answered.         *)
Port == INSTANCE MemoryPort
ImplementsPort == Port!PortSpec

(* Every accepted request is answered, whatever else is accepted and       *)
(* however refreshes and precharges interleave: time and again nothing is  *)
(* outstanding (the frontend sends finitely many requests).                *)
EveryRequestAnswered == []<>(\A i \in 1 .. sent : replies[i] = 1)
=============================================================================
