-------------------------- MODULE GenericDDR_proofs --------------------------
(***************************************************************************)
(* Theorems about the generic DDR controller, for every number of banks,   *)
(* every buffer size, every timing table and every number of requests.     *)
(***************************************************************************)
EXTENDS GenericDDR, BufferLemmas, FiniteSetTheorems

-----------------------------------------------------------------------------
(* Type correctness.                                                       *)

LEMMA ConstantTypes ==
  /\ NBanks \in Nat \ {0} /\ 0 \in Banks
  /\ ReadSize \in Nat /\ WriteSize \in Nat /\ PrioritySize \in Nat /\ MaxSend \in Nat
  /\ NREFI \in Nat /\ Cap \in Nat /\ ReadLatency \in Nat
BY DeviceAssumption, ControllerAssumption DEF Banks

(* What a step may rely on about the buffers.                              *)
LEMMA BufferTypes ==
  ASSUME TypeOK
  PROVE  /\ readBuf \in Seq(Ids) /\ writeBuf \in Seq(Ids) /\ active \in Seq(Ids)
         /\ \A k \in DOMAIN readBuf : readBuf[k] \in Ids
         /\ \A k \in DOMAIN writeBuf : writeBuf[k] \in Ids
         /\ \A k \in DOMAIN active : active[k] \in Ids
<1>1. readBuf \in Seq(Ids) /\ writeBuf \in Seq(Ids) /\ active \in Seq(Ids)
  BY DEF TypeOK
<1> QED
  BY <1>1, LenProperties, ElementOfSeq

(* Requests decode to banks and rows of the device.                        *)
LEMMA AddressTypes ==
  ASSUME TypeOK, NEW i \in Ids
  PROVE  /\ req[i] \in Requests
         /\ BankOf(i) \in Banks /\ RowOf(i) \in Rows
         /\ FinalCommand(i) \in {"RD", "WR"}
         /\ Command(i) \in {"ACT", "PREpb", "RD", "WR"}
BY ControllerAssumption DEF TypeOK, Requests, BankOf, RowOf, FinalCommand, Command, PreqCommand

(* Waits stay natural numbers.                                             *)
LEMMA DeviceTypes ==
  ASSUME TypeOK, NEW c, NEW b \in Banks, NEW r \in Rows \cup {Closed},
         c \in Cmd, ~(IsOpening(c) /\ r = Closed), IssueCommand(Elapsed, c, b, r)
  PROVE  DeviceTypeOK'
<1>1. /\ wait \in [Banks -> [Cmd -> Nat]] /\ open \in [Banks -> Rows \cup {Closed}]
      /\ \A n \in Cmd : RankLat[<<c, n>>] \in Nat /\ BankLat[<<c, n>>] \in Nat
  BY DeviceAssumption DEF TypeOK, DeviceTypeOK
<1>2. \A x \in Banks, n \in Cmd : Elapsed[x][n] \in Nat
  BY <1>1 DEF Elapsed, Larger
<1>3. wait' \in [Banks -> [Cmd -> Nat]]
  BY <1>1, <1>2 DEF IssueCommand, UpdateTiming, Larger
<1>4. open' \in [Banks -> Rows \cup {Closed}]
  BY <1>1 DEF IssueCommand, ApplyAction
<1> QED
  BY <1>3, <1>4 DEF DeviceTypeOK

(* A cycle that passes keeps the types of what it changes.                 *)
LEMMA PassingTypes ==
  ASSUME TypeOK, NEW n \in 0 .. Len(pending)
  PROVE  /\ PendingNow(n) \in Seq(Pending)
         /\ RepliesNow(n) \in [Ids -> Nat]
         /\ ClkNow \in Nat
         /\ RefreshInNow \in IF NREFI = 0 THEN {0} ELSE 1 .. NREFI
         /\ Elapsed \in [Banks -> [Cmd -> Nat]]
<1>1. pending \in Seq(Pending) /\ Len(pending) \in Nat /\ DOMAIN pending = 1 .. Len(pending)
      /\ \A k \in 1 .. Len(pending) : pending[k] \in Pending
  BY LenProperties, ElementOfSeq DEF TypeOK
<1>2. \A k \in 1 .. Len(pending) : Aged[k] \in Pending
  BY <1>1 DEF Aged, Pending, Larger
<1>3. PendingNow(n) \in Seq(Pending)
  <2>1. \A k \in n + 1 .. Len(pending) : Aged[k] \in Pending
    BY <1>1, <1>2
  <2> QED BY <1>1, <2>1, SubSeqProperties DEF PendingNow
<1>4. RepliesNow(n) \in [Ids -> Nat]
  BY DEF TypeOK, RepliesNow
<1>5. ClkNow \in Nat
  BY DEF TypeOK, ClkNow
<1>6. RefreshInNow \in IF NREFI = 0 THEN {0} ELSE 1 .. NREFI
  BY ConstantTypes DEF TypeOK, RefreshInNow, RefreshDue
<1>7. Elapsed \in [Banks -> [Cmd -> Nat]]
  BY DEF TypeOK, DeviceTypeOK, Elapsed, Larger
<1> QED
  BY <1>3, <1>4, <1>5, <1>6, <1>7

(* The priority buffer and the marks after the maintenance has been queued. *)
LEMMA MaintenanceTypes ==
  ASSUME TypeOK, NEW inj \in Injections
  PROVE  /\ inj \in Seq(Banks)
         /\ PriorityNow(inj) \in Seq(Maintenance)
         /\ InjectedNow(inj) \in [Banks -> BOOLEAN]
<1>1. inj \in Seq(Banks)
  BY DEF Injections, BoundedSeq, SeqOf
<1>2. Len(inj) \in Nat /\ DOMAIN inj = 1 .. Len(inj) /\ \A k \in 1 .. Len(inj) : inj[k] \in Banks
  BY <1>1, LenProperties, ElementOfSeq
<1>3. [k \in DOMAIN inj |-> [final |-> "PREpb", bank |-> inj[k]]] \in Seq(Maintenance)
  BY <1>2 DEF Maintenance
<1>4. PriorityRefreshed \in Seq(Maintenance)
  <2>1. priority \in Seq(Maintenance) /\ [final |-> "REFab", bank |-> 0] \in Maintenance
    BY ConstantTypes DEF TypeOK, Maintenance
  <2> QED BY <2>1, AppendProperties DEF PriorityRefreshed
<1>5. PriorityNow(inj) \in Seq(Maintenance)
  BY <1>3, <1>4, ConcatProperties DEF PriorityNow
<1>6. InjectedNow(inj) \in [Banks -> BOOLEAN]
  BY DEF TypeOK, InjectedNow
<1> QED
  BY <1>1, <1>5, <1>6

(* Taking a request out of a list, or adding one, keeps its type.          *)
LEMMA ListTypes ==
  ASSUME NEW q \in Seq(Ids), NEW i \in Ids
  PROVE  /\ Append(q, i) \in Seq(Ids)
         /\ \A k \in DOMAIN q : /\ RemoveAt(q, k) \in Seq(Ids)
                                /\ RemoveAt(Append(q, i), k) \in Seq(Ids)
<1>1. Append(q, i) \in Seq(Ids) /\ Len(Append(q, i)) = Len(q) + 1
  BY AppendProperties
<1>2. ASSUME NEW k \in DOMAIN q
      PROVE  RemoveAt(q, k) \in Seq(Ids) /\ RemoveAt(Append(q, i), k) \in Seq(Ids)
  <2>1. k \in DOMAIN Append(q, i)
    BY <1>1, LenProperties
  <2> QED BY <1>1, <2>1, RemoveAtProperties
<1> QED BY <1>1, <1>2

(* The frontend's step.                                                    *)
LEMMA SendTypes == TypeOK /\ Send => TypeOK'
<1> SUFFICES ASSUME TypeOK, Send PROVE TypeOK'
  OBVIOUS
<1>1. PICK a \in Addrs : \/ SendForwardedRead(a) \/ SendRead(a)
                         \/ SendCoalescedWrite(a) \/ SendWrite(a)
  BY DEF Send
<1>2. PICK type \in {"Read", "Write"} : Accept(type, a)
  BY <1>1 DEF SendForwardedRead, SendRead, SendCoalescedWrite, SendWrite
<1>3. /\ sent + 1 \in Ids /\ sent' \in 0 .. MaxSend /\ req' \in [Ids -> Requests]
  BY <1>2, ConstantTypes DEF Accept, TypeOK, Ids, Requests
<1>4. /\ readBuf' \in Seq(Ids) /\ writeBuf' \in Seq(Ids) /\ active' \in Seq(Ids)
      /\ pending' \in Seq(Pending)
  <2>1. [id |-> sent + 1, left |-> 1] \in Pending
    BY <1>3 DEF Pending
  <2>2. Append(pending, [id |-> sent + 1, left |-> 1]) \in Seq(Pending)
    BY <2>1, AppendProperties DEF TypeOK
  <2>3. readBuf \in Seq(Ids) /\ writeBuf \in Seq(Ids) /\ active' \in Seq(Ids)
    BY <1>2, BufferTypes DEF Accept
  <2>4. Append(readBuf, sent + 1) \in Seq(Ids) /\ Append(writeBuf, sent + 1) \in Seq(Ids)
    BY <1>3, <2>3, ListTypes
  <2> QED
    BY <1>1, <2>2, <2>3, <2>4
       DEF TypeOK, SendForwardedRead, SendRead, SendCoalescedWrite, SendWrite
<1>5. replies' \in [Ids -> Nat] /\ buffered' \subseteq Addrs
  BY <1>1 DEF TypeOK, SendForwardedRead, SendRead, SendCoalescedWrite, SendWrite
<1>6. /\ UNCHANGED <<clk, activePerBank, writeMode, priority>>
      /\ UNCHANGED deviceVars /\ UNCHANGED policyVars
  BY <1>2 DEF Accept
<1>7. DeviceTypeOK'
  BY <1>6 DEF TypeOK, DeviceTypeOK, deviceVars
<1> QED
  BY <1>3, <1>4, <1>5, <1>6, <1>7 DEF TypeOK, policyVars

(* Issuing a command keeps the types of the device and of the row policy.  *)
LEMMA IssueTypes ==
  ASSUME TypeOK, NEW inj \in Injections, NEW c \in Cmd, NEW b \in Banks,
         NEW r \in Rows \cup {Closed}, ~(IsOpening(c) /\ r = Closed), Issue(inj, c, b, r)
  PROVE  /\ DeviceTypeOK'
         /\ colAccesses' \in [Banks -> Nat] /\ injected' \in [Banks -> BOOLEAN]
<1>1. DeviceTypeOK'
  BY DeviceTypes DEF Issue
<1>2. colAccesses' \in [Banks -> Nat]
  <2>1. colAccesses \in [Banks -> Nat]
    BY DEF TypeOK
  <2>2. \A x \in Banks : AccessesAfter(c, b)[x] \in Nat
    BY <2>1 DEF AccessesAfter
  <2>3. AccessesAfter(c, b) \in [Banks -> Nat]
    BY <2>2 DEF AccessesAfter
  <2> QED BY <2>1, <2>3 DEF Issue
<1>3. injected' \in [Banks -> BOOLEAN]
  BY MaintenanceTypes DEF Issue, InjectedAfter, TypeOK
<1> QED BY <1>1, <1>2, <1>3

(* Completing request i keeps the types of the answers.                    *)
LEMMA CompleteTypes ==
  ASSUME TypeOK, NEW n \in 0 .. Len(pending), NEW i \in Ids,
         Complete(n, i) \/ CompleteNone(n)
  PROVE  pending' \in Seq(Pending) /\ replies' \in [Ids -> Nat]
<1>1. /\ PendingNow(n) \in Seq(Pending) /\ RepliesNow(n) \in [Ids -> Nat]
      /\ [id |-> i, left |-> ReadLatency] \in Pending
  BY PassingTypes, ConstantTypes DEF Pending
<1>2. Append(PendingNow(n), [id |-> i, left |-> ReadLatency]) \in Seq(Pending)
  BY <1>1, AppendProperties
<1>3. [RepliesNow(n) EXCEPT ![i] = @ + 1] \in [Ids -> Nat]
  BY <1>1
<1> QED
  BY <1>1, <1>2, <1>3 DEF Complete, CompleteNone

(* A request's command is a command of the device, upgraded or not.        *)
LEMMA UpgradeTypes ==
  ASSUME TypeOK, NEW i \in Ids
  PROVE  /\ Upgrade(Command(i), BankOf(i)) \in Cmd
         /\ BankOf(i) \in Banks /\ RowOf(i) \in Rows
         /\ RowOf(i) # Closed
BY AddressTypes, DeviceAssumption DEF Upgrade, Cmd

(* Entering and leaving the active buffer.                                 *)
LEMMA CountTypes ==
  ASSUME TypeOK, NEW b \in Banks
  PROVE  Entered(b) \in [Banks -> Int] /\ Left(b) \in [Banks -> Int]
BY DEF TypeOK, Entered, Left

(* The part of the type invariant that every tick keeps in the same way.   *)
LEMMA TickStartTypes ==
  ASSUME TypeOK, TickStart, NEW n \in 0 .. Len(pending)
  PROVE  /\ clk' \in Nat
         /\ refreshIn' \in IF NREFI = 0 THEN {0} ELSE 1 .. NREFI
         /\ sent' \in 0 .. MaxSend /\ req' \in [Ids -> Requests] /\ failed' \in BOOLEAN
BY PassingTypes DEF TickStart, TypeOK

LEMMA TickActiveTypes ==
  ASSUME TypeOK, NEW n \in 0 .. Len(pending), NEW inj \in Injections, TickActive(n, inj)
  PROVE  TypeOK'
<1>1. PICK k \in DOMAIN active :
        /\ TickStart
        /\ Issue(inj, Upgrade(Command(active[k]), BankOf(active[k])),
                 BankOf(active[k]), RowOf(active[k]))
        /\ priority' = PriorityNow(inj)
        /\ Complete(n, active[k]) \/ CompleteNone(n)
        /\ active' \in {RemoveAt(active, k), RemoveAt(Append(active, active[k]), k), active}
        /\ activePerBank' \in {Left(BankOf(active[k])), Entered(BankOf(active[k])), activePerBank}
        /\ UNCHANGED <<readBuf, writeBuf, buffered, writeMode>>
  BY DEF TickActive
<1> DEFINE i == active[k]
<1>2. i \in Ids
  BY BufferTypes
<1>3. DeviceTypeOK' /\ colAccesses' \in [Banks -> Nat] /\ injected' \in [Banks -> BOOLEAN]
  BY <1>1, <1>2, UpgradeTypes, IssueTypes
<1>4. pending' \in Seq(Pending) /\ replies' \in [Ids -> Nat]
  BY <1>1, <1>2, CompleteTypes
<1>5. active' \in Seq(Ids)
  BY <1>1, <1>2, BufferTypes, ListTypes
<1>6. activePerBank' \in [Banks -> Int]
  BY <1>1, <1>2, AddressTypes, CountTypes DEF TypeOK
<1>7. priority' \in Seq(Maintenance)
  BY <1>1, MaintenanceTypes
<1> QED
  BY <1>1, <1>3, <1>4, <1>5, <1>6, <1>7, TickStartTypes DEF TypeOK

LEMMA TickPriorityTypes ==
  ASSUME TypeOK, NEW n \in 0 .. Len(pending), NEW inj \in Injections, TickPriority(n, inj)
  PROVE  TypeOK'
<1> DEFINE q == PriorityNow(inj)
<1>1. /\ PriorityReady(q) /\ TickStart
      /\ Issue(inj, PriorityCommand(q), Head(q).bank, Closed)
      /\ priority' \in {Tail(q), q}
      /\ CompleteNone(n)
      /\ UNCHANGED <<readBuf, writeBuf, active, activePerBank, buffered, writeMode>>
  BY DEF TickPriority
<1>2. q \in Seq(Maintenance) /\ q # <<>>
  BY <1>1, MaintenanceTypes DEF PriorityReady
<1>3. Head(q) \in Maintenance /\ Tail(q) \in Seq(Maintenance)
  BY <1>2, HeadTailProperties
<1>4. /\ Head(q).bank \in Banks
      /\ PriorityCommand(q) \in {"PREpb", "PREab", "REFab"}
  BY <1>3 DEF Maintenance, PriorityCommand, PreqCommand
<1>5. DeviceTypeOK' /\ colAccesses' \in [Banks -> Nat] /\ injected' \in [Banks -> BOOLEAN]
  BY <1>1, <1>4, IssueTypes DEF Cmd, IsOpening
<1>6. pending' \in Seq(Pending) /\ replies' \in [Ids -> Nat]
  BY <1>1, PassingTypes DEF CompleteNone
<1>7. priority' \in Seq(Maintenance)
  BY <1>1, <1>2, <1>3
<1> QED
  BY <1>1, <1>5, <1>6, <1>7, TickStartTypes DEF TypeOK

LEMMA TickReadWriteTypes ==
  ASSUME TypeOK, NEW n \in 0 .. Len(pending), NEW inj \in Injections, TickReadWrite(n, inj)
  PROVE  TypeOK'
<1>1. PICK k \in DOMAIN ReadWriteBuf :
        /\ TickStart
        /\ Issue(inj, Upgrade(Command(ReadWriteBuf[k]), BankOf(ReadWriteBuf[k])),
                 BankOf(ReadWriteBuf[k]), RowOf(ReadWriteBuf[k]))
        /\ priority' = PriorityNow(inj)
        /\ Complete(n, ReadWriteBuf[k]) \/ CompleteNone(n)
        /\ writeMode' = WriteModeNow
        /\ {readBuf', writeBuf'} \subseteq {readBuf, writeBuf, RemoveAt(ReadWriteBuf, k)}
        /\ buffered' \in {NoLongerBuffered(ReadWriteBuf[k]), buffered}
        /\ active' \in {Append(active, ReadWriteBuf[k]), active}
        /\ activePerBank' \in {Entered(BankOf(ReadWriteBuf[k])), activePerBank}
  BY DEF TickReadWrite, ReadWriteBuf
<1> DEFINE i == ReadWriteBuf[k]
<1>2. ReadWriteBuf \in Seq(Ids) /\ i \in Ids
  BY BufferTypes DEF ReadWriteBuf
<1>3. DeviceTypeOK' /\ colAccesses' \in [Banks -> Nat] /\ injected' \in [Banks -> BOOLEAN]
  BY <1>1, <1>2, UpgradeTypes, IssueTypes
<1>4. pending' \in Seq(Pending) /\ replies' \in [Ids -> Nat]
  BY <1>1, <1>2, CompleteTypes
<1>5. readBuf' \in Seq(Ids) /\ writeBuf' \in Seq(Ids) /\ active' \in Seq(Ids)
  BY <1>1, <1>2, BufferTypes, ListTypes
<1>6. activePerBank' \in [Banks -> Int]
  BY <1>1, <1>2, AddressTypes, CountTypes DEF TypeOK
<1>7. priority' \in Seq(Maintenance) /\ buffered' \subseteq Addrs
  BY <1>1, MaintenanceTypes DEF TypeOK, NoLongerBuffered
<1>8. writeMode' \in BOOLEAN
  BY <1>1 DEF WriteModeNow
<1> QED
  BY <1>1, <1>3, <1>4, <1>5, <1>6, <1>7, <1>8, TickStartTypes DEF TypeOK

LEMMA TickIdleTypes ==
  ASSUME TypeOK, NEW n \in 0 .. Len(pending), NEW inj \in Injections, TickIdle(n, inj)
  PROVE  TypeOK'
<1>1. /\ TickStart
      /\ priority' = PriorityNow(inj) /\ injected' = InjectedNow(inj) /\ wait' = Elapsed
      /\ CompleteNone(n)
      /\ writeMode' \in {WriteModeNow, writeMode}
      /\ UNCHANGED <<open, readBuf, writeBuf, active, activePerBank, buffered, colAccesses>>
  BY DEF TickIdle
<1>2. DeviceTypeOK' /\ pending' \in Seq(Pending) /\ replies' \in [Ids -> Nat]
  BY <1>1, PassingTypes DEF CompleteNone, TypeOK, DeviceTypeOK
<1>3. priority' \in Seq(Maintenance) /\ injected' \in [Banks -> BOOLEAN]
  BY <1>1, MaintenanceTypes
<1>4. writeMode' \in BOOLEAN
  BY <1>1 DEF WriteModeNow, TypeOK
<1> QED
  BY <1>1, <1>2, <1>3, <1>4, TickStartTypes DEF TypeOK

LEMMA TickThrowTypes ==
  ASSUME TypeOK, NEW n \in 0 .. Len(pending), TickThrow(n)
  PROVE  TypeOK'
<1>1. DeviceTypeOK' /\ pending' \in Seq(Pending) /\ replies' \in [Ids -> Nat]
  BY PassingTypes DEF TickThrow, CompleteNone, TypeOK, DeviceTypeOK
<1> QED
  BY <1>1, PassingTypes DEF TickThrow, TypeOK

(* Every variable keeps its type.                                          *)
LEMMA TypeInductive == TypeOK /\ [Next]_vars => TypeOK'
<1>1. ASSUME TypeOK, Tick PROVE TypeOK'
  BY <1>1, TickActiveTypes, TickPriorityTypes, TickReadWriteTypes, TickIdleTypes,
     TickThrowTypes DEF Tick
<1>2. ASSUME TypeOK, UNCHANGED vars PROVE TypeOK'
  BY <1>2 DEF TypeOK, DeviceTypeOK, vars, deviceVars, queueVars, policyVars
<1> QED
  BY <1>1, <1>2, SendTypes DEF Next

LEMMA TypeInitially == Init => TypeOK
<1> SUFFICES ASSUME Init PROVE TypeOK
  OBVIOUS
<1>1. DeviceTypeOK
  BY DEF Init, DeviceInit, DeviceTypeOK
<1>2. req \in [Ids -> Requests]
  BY ControllerAssumption DEF Init, Requests
<1>3. readBuf \in Seq(Ids) /\ writeBuf \in Seq(Ids) /\ active \in Seq(Ids)
      /\ priority \in Seq(Maintenance) /\ pending \in Seq(Pending)
  BY EmptySeq DEF Init
<1>4. sent \in 0 .. MaxSend /\ clk \in Nat /\ buffered \subseteq Addrs
  BY ConstantTypes DEF Init
<1>5. refreshIn \in IF NREFI = 0 THEN {0} ELSE 1 .. NREFI
  BY ConstantTypes DEF Init
<1>6. /\ activePerBank \in [Banks -> Int] /\ colAccesses \in [Banks -> Nat]
      /\ replies \in [Ids -> Nat]
  BY DEF Init
<1>7. writeMode \in BOOLEAN /\ injected \in [Banks -> BOOLEAN] /\ failed \in BOOLEAN
  BY DEF Init
<1> QED
  BY <1>1, <1>2, <1>3, <1>4, <1>5, <1>6, <1>7 DEF TypeOK

(* The type invariant holds in every state the controller reaches.         *)
THEOREM TypeCorrect == Spec => []TypeOK
<1> QED
  BY TypeInitially, TypeInductive, PTL DEF Spec

-----------------------------------------------------------------------------
(* Forwarding. NoStaleRead is not inductive by itself: that a new read has *)
(* no older write of its address follows from the exactness of the         *)
(* forwarding set, and that a new write is younger than every read from    *)
(* the numbering of the requests.                                          *)
ForwardInv ==
  /\ \A k \in DOMAIN readBuf : readBuf[k] <= sent
  /\ \A k \in DOMAIN writeBuf : writeBuf[k] <= sent
  /\ ForwardSetExact
  /\ NoStaleRead

(* Appending a request to a list puts it at a new last position.           *)
LEMMA AppendElements ==
  ASSUME NEW S, NEW q \in Seq(S), NEW i \in S
  PROVE  /\ DOMAIN q = 1 .. Len(q) /\ Len(q) \in Nat
         /\ DOMAIN Append(q, i) = DOMAIN q \cup {Len(q) + 1}
         /\ Append(q, i)[Len(q) + 1] = i
         /\ \A k \in DOMAIN q : Append(q, i)[k] = q[k]
<1>1. DOMAIN q = 1 .. Len(q) /\ Len(q) \in Nat
  BY LenProperties
<1>2. /\ Append(q, i) \in Seq(S) /\ Len(Append(q, i)) = Len(q) + 1
      /\ Append(q, i)[Len(q) + 1] = i
      /\ \A k \in 1 .. Len(q) : Append(q, i)[k] = q[k]
  BY AppendProperties
<1>3. DOMAIN Append(q, i) = 1 .. Len(q) + 1
  BY <1>2, LenProperties
<1> QED
  BY <1>1, <1>2, <1>3

(* The requests already accepted are not changed by a new one.             *)
LEMMA AcceptKeeps ==
  ASSUME TypeOK, NEW t \in {"Read", "Write"}, NEW a \in Addrs, Accept(t, a)
  PROVE  /\ sent \in Nat /\ sent' = sent + 1 /\ sent + 1 \in Ids
         /\ \A i \in Ids : i <= sent => req'[i] = req[i]
         /\ req'[sent + 1].addr = a
<1>1. sent \in Nat /\ sent' = sent + 1 /\ sent + 1 \in Ids
  BY ConstantTypes DEF TypeOK, Accept, Ids
<1>2. req' = [req EXCEPT ![sent + 1] = [type |-> t, addr |-> a, arrive |-> clk]]
      /\ req \in [Ids -> Requests]
  BY DEF Accept, TypeOK
<1>3. ASSUME NEW i \in Ids, i <= sent PROVE req'[i] = req[i]
  BY <1>1, <1>2, <1>3
<1> QED
  BY <1>1, <1>2, <1>3

LEMMA ForwardSend == TypeOK /\ ForwardInv /\ Send => ForwardInv'
<1> SUFFICES ASSUME TypeOK, ForwardInv, Send PROVE ForwardInv'
  OBVIOUS
<1>1. PICK a \in Addrs : \/ SendForwardedRead(a) \/ SendRead(a)
                         \/ SendCoalescedWrite(a) \/ SendWrite(a)
  BY DEF Send
<1>2. PICK t \in {"Read", "Write"} : Accept(t, a)
  BY <1>1 DEF SendForwardedRead, SendRead, SendCoalescedWrite, SendWrite
<1>3. /\ sent \in Nat /\ sent' = sent + 1 /\ sent + 1 \in Ids
      /\ \A i \in Ids : i <= sent => req'[i] = req[i]
      /\ req'[sent + 1].addr = a
  BY <1>2, AcceptKeeps
<1>4. /\ readBuf \in Seq(Ids) /\ writeBuf \in Seq(Ids)
      /\ \A k \in DOMAIN readBuf : readBuf[k] \in Ids /\ readBuf[k] <= sent
                                   /\ req'[readBuf[k]] = req[readBuf[k]]
      /\ \A k \in DOMAIN writeBuf : writeBuf[k] \in Ids /\ writeBuf[k] <= sent
                                    /\ req'[writeBuf[k]] = req[writeBuf[k]]
  BY <1>3, BufferTypes DEF ForwardInv
<1>5. CASE UNCHANGED <<readBuf, writeBuf, buffered>>
  <2>1. /\ (\A k \in DOMAIN readBuf : readBuf[k] <= sent)'
        /\ (\A k \in DOMAIN writeBuf : writeBuf[k] <= sent)'
    BY <1>3, <1>4, <1>5 DEF Ids
  <2>2. ForwardSetExact'
    BY <1>4, <1>5 DEF ForwardInv, ForwardSetExact
  <2>3. NoStaleRead'
    BY <1>4, <1>5 DEF ForwardInv, NoStaleRead
  <2> QED BY <2>1, <2>2, <2>3 DEF ForwardInv
<1>6. CASE SendRead(a)
  <2>1. /\ a \notin buffered /\ readBuf' = Append(readBuf, sent + 1)
        /\ UNCHANGED <<writeBuf, buffered>>
    BY <1>6 DEF SendRead
  <2>2. /\ DOMAIN readBuf' = DOMAIN readBuf \cup {Len(readBuf) + 1}
        /\ readBuf'[Len(readBuf) + 1] = sent + 1
        /\ \A k \in DOMAIN readBuf : readBuf'[k] = readBuf[k]
    BY <1>3, <1>4, <2>1, AppendElements
  <2>3. \A j \in DOMAIN writeBuf : req[writeBuf[j]].addr # a
    BY <2>1 DEF ForwardInv, ForwardSetExact
  <2>4. NoStaleRead'
    <3> SUFFICES ASSUME NEW k \in DOMAIN readBuf', NEW j \in DOMAIN writeBuf,
                        req'[readBuf'[k]].addr = req'[writeBuf[j]].addr
                 PROVE  readBuf'[k] < writeBuf[j]
      BY <2>1 DEF NoStaleRead
    <3>1. k # Len(readBuf) + 1
      BY <1>3, <1>4, <2>2, <2>3
    <3>2. k \in DOMAIN readBuf /\ readBuf'[k] = readBuf[k]
      BY <2>2, <3>1
    <3> QED BY <1>4, <3>2 DEF ForwardInv, NoStaleRead
  <2>5. ForwardSetExact'
    BY <1>4, <2>1 DEF ForwardInv, ForwardSetExact
  <2>6. (\A k \in DOMAIN readBuf : readBuf[k] <= sent)'
    BY <1>3, <1>4, <2>2 DEF Ids
  <2>7. (\A k \in DOMAIN writeBuf : writeBuf[k] <= sent)'
    BY <1>3, <1>4, <2>1 DEF Ids
  <2> QED
    BY <2>4, <2>5, <2>6, <2>7 DEF ForwardInv
<1>7. CASE SendWrite(a)
  <2>1. /\ a \notin buffered /\ writeBuf' = Append(writeBuf, sent + 1)
        /\ buffered' = buffered \cup {a} /\ UNCHANGED readBuf
    BY <1>7 DEF SendWrite
  <2>2. /\ DOMAIN writeBuf' = DOMAIN writeBuf \cup {Len(writeBuf) + 1}
        /\ Len(writeBuf) + 1 \notin DOMAIN writeBuf
        /\ writeBuf'[Len(writeBuf) + 1] = sent + 1
        /\ \A k \in DOMAIN writeBuf : writeBuf'[k] = writeBuf[k]
    BY <1>3, <1>4, <2>1, AppendElements
  <2>3. \A j \in DOMAIN writeBuf : req[writeBuf[j]].addr # a
    BY <2>1 DEF ForwardInv, ForwardSetExact
  <2>4. NoStaleRead'
    <3> SUFFICES ASSUME NEW k \in DOMAIN readBuf', NEW j \in DOMAIN writeBuf',
                        req'[readBuf'[k]].addr = req'[writeBuf'[j]].addr
                 PROVE  readBuf'[k] < writeBuf'[j]
      BY DEF NoStaleRead
    <3>1. CASE j = Len(writeBuf) + 1
      BY <1>3, <1>4, <2>1, <2>2, <3>1 DEF Ids
    <3>2. CASE j \in DOMAIN writeBuf
      BY <1>3, <1>4, <2>1, <2>2, <3>2 DEF ForwardInv, NoStaleRead
    <3> QED BY <2>2, <3>1, <3>2
  <2>5. ForwardSetExact'
    <3>1. buffered' = {req'[writeBuf'[k]].addr : k \in DOMAIN writeBuf'}
      <4>1. {req'[writeBuf'[k]].addr : k \in DOMAIN writeBuf'}
              = {req[writeBuf[k]].addr : k \in DOMAIN writeBuf} \cup {a}
        BY <1>3, <1>4, <2>2
      <4> QED BY <2>1, <4>1 DEF ForwardInv, ForwardSetExact
    <3>2. \A j, k \in DOMAIN writeBuf' :
            req'[writeBuf'[j]].addr = req'[writeBuf'[k]].addr => j = k
      BY <1>3, <1>4, <2>2, <2>3 DEF ForwardInv, ForwardSetExact
    <3> QED BY <3>1, <3>2 DEF ForwardSetExact
  <2>6. (\A k \in DOMAIN writeBuf : writeBuf[k] <= sent)'
    BY <1>3, <1>4, <2>2 DEF Ids
  <2>7. (\A k \in DOMAIN readBuf : readBuf[k] <= sent)'
    BY <1>3, <1>4, <2>1 DEF Ids
  <2> QED
    BY <2>4, <2>5, <2>6, <2>7 DEF ForwardInv
<1> QED
  BY <1>1, <1>5, <1>6, <1>7 DEF SendForwardedRead, SendCoalescedWrite

(* What a tick does to the buffers: at most one request leaves one of them, *)
(* and a write takes its address with it.                                  *)
BufferStep ==
  \/ UNCHANGED <<readBuf, writeBuf, buffered>>
  \/ /\ \E k \in DOMAIN readBuf : readBuf' = RemoveAt(readBuf, k)
     /\ UNCHANGED <<writeBuf, buffered>>
  \/ \E k \in DOMAIN writeBuf :
       /\ writeBuf' = RemoveAt(writeBuf, k)
       /\ buffered' = NoLongerBuffered(writeBuf[k])
       /\ UNCHANGED readBuf

LEMMA TickBuffers == Tick => BufferStep /\ UNCHANGED <<sent, req>>
<1> SUFFICES ASSUME Tick PROVE BufferStep /\ UNCHANGED <<sent, req>>
  OBVIOUS
<1>1. PICK n, inj : \/ TickThrow(n) \/ TickActive(n, inj) \/ TickPriority(n, inj)
                    \/ TickReadWrite(n, inj) \/ TickIdle(n, inj)
  BY DEF Tick
<1>2. CASE TickReadWrite(n, inj)
  <2>1. PICK k \in DOMAIN ReadWriteBuf :
          LET i == ReadWriteBuf[k]
              leaves == Done(i) \/ Promoted(i)
              rest == IF leaves THEN RemoveAt(ReadWriteBuf, k) ELSE ReadWriteBuf
          IN /\ TickStart
             /\ readBuf' = IF WriteModeNow THEN readBuf ELSE rest
             /\ writeBuf' = IF WriteModeNow THEN rest ELSE writeBuf
             /\ buffered' = IF WriteModeNow /\ leaves THEN NoLongerBuffered(i) ELSE buffered
    BY <1>2 DEF TickReadWrite
  <2>2. CASE WriteModeNow
    BY <2>1, <2>2 DEF ReadWriteBuf, BufferStep, TickStart
  <2>3. CASE ~WriteModeNow
    BY <2>1, <2>3 DEF ReadWriteBuf, BufferStep, TickStart
  <2> QED BY <2>2, <2>3
<1>3. CASE ~TickReadWrite(n, inj)
  BY <1>1, <1>3 DEF TickThrow, TickActive, TickPriority, TickIdle, TickStart, BufferStep
<1> QED BY <1>2, <1>3

LEMMA ForwardTick == TypeOK /\ ForwardInv /\ Tick => ForwardInv'
<1> SUFFICES ASSUME TypeOK, ForwardInv, Tick PROVE ForwardInv'
  OBVIOUS
<1>1. BufferStep /\ UNCHANGED <<sent, req>>
  BY TickBuffers
<1>2. readBuf \in Seq(Ids) /\ writeBuf \in Seq(Ids)
  BY BufferTypes
<1>3. CASE UNCHANGED <<readBuf, writeBuf, buffered>>
  BY <1>1, <1>3 DEF ForwardInv, ForwardSetExact, NoStaleRead
<1>4. ASSUME NEW k \in DOMAIN readBuf, readBuf' = RemoveAt(readBuf, k),
             UNCHANGED <<writeBuf, buffered>>
      PROVE  ForwardInv'
  <2>1. \A j \in DOMAIN readBuf' : \E m \in DOMAIN readBuf : readBuf'[j] = readBuf[m]
    BY <1>2, <1>4, RemoveAtElements
  <2> QED
    BY <1>1, <1>4, <2>1 DEF ForwardInv, ForwardSetExact, NoStaleRead
<1>5. ASSUME NEW k \in DOMAIN writeBuf, writeBuf' = RemoveAt(writeBuf, k),
             buffered' = NoLongerBuffered(writeBuf[k]), UNCHANGED readBuf
      PROVE  ForwardInv'
  <2>1. /\ \A j \in DOMAIN writeBuf' : \E m \in DOMAIN writeBuf : m # k /\ writeBuf'[j] = writeBuf[m]
        /\ \A m \in DOMAIN writeBuf \ {k} : \E j \in DOMAIN writeBuf' : writeBuf'[j] = writeBuf[m]
        /\ \A i, j \in DOMAIN writeBuf' : i # j =>
             \E m, n \in DOMAIN writeBuf : /\ m # k /\ n # k /\ m # n
                                           /\ writeBuf'[i] = writeBuf[m]
                                           /\ writeBuf'[j] = writeBuf[n]
    BY <1>2, <1>5, RemoveAtElements
  <2>2. \A i, j \in DOMAIN writeBuf' :
          req[writeBuf'[i]].addr = req[writeBuf'[j]].addr => i = j
    BY <2>1 DEF ForwardInv, ForwardSetExact
  <2>3. buffered' = {req[writeBuf'[j]].addr : j \in DOMAIN writeBuf'}
    <3>1. buffered' = {req[writeBuf[m]].addr : m \in DOMAIN writeBuf \ {k}}
      BY <1>5 DEF ForwardInv, ForwardSetExact, NoLongerBuffered
    <3> QED BY <2>1, <3>1
  <2>4. ForwardSetExact'
    BY <1>1, <2>2, <2>3 DEF ForwardSetExact
  <2> QED
    BY <1>1, <1>5, <2>1, <2>4 DEF ForwardInv, NoStaleRead
<1> QED
  BY <1>1, <1>3, <1>4, <1>5 DEF BufferStep

LEMMA ForwardInitially == Init => ForwardInv
BY DEF Init, ForwardInv, ForwardSetExact, NoStaleRead

LEMMA ForwardInductive == TypeOK /\ ForwardInv /\ [Next]_vars => ForwardInv'
<1>1. ASSUME ForwardInv, UNCHANGED vars PROVE ForwardInv'
  BY <1>1 DEF ForwardInv, ForwardSetExact, NoStaleRead, vars, queueVars
<1> QED
  BY <1>1, ForwardSend, ForwardTick DEF Next

THEOREM ForwardInvariant == Spec => []ForwardInv
<1> QED
  BY TypeCorrect, ForwardInitially, ForwardInductive, PTL DEF Spec

(* The forwarding set is exact: controller_base.cpp answers reads and      *)
(* absorbs writes by m_buffered_write_addrs only for writes that are there. *)
THEOREM ForwardingExact == Spec => []ForwardSetExact
<1>1. ForwardInv => ForwardSetExact
  BY DEF ForwardInv
<1> QED
  BY <1>1, ForwardInvariant, PTL

(* No buffered read has an older buffered write of its address.            *)
THEOREM ReadsFresh == Spec => []NoStaleRead
<1>1. ForwardInv => NoStaleRead
  BY DEF ForwardInv
<1> QED
  BY <1>1, ForwardInvariant, PTL
-----------------------------------------------------------------------------
(* Rows of active requests. Without auto-precharge every command that      *)
(* closes a row passes would_close_active, which looks at the counts only: *)
(* the argument needs the counts to be exact, and they are because a bank  *)
(* never holds two active requests: the second would have to open a row    *)
(* that is already open.                                                   *)
NoAutoPrecharge == RowPolicy = "Open" \/ ~HasAutoPre

OneActivePerBank ==
  \A j, k \in DOMAIN active : BankOf(active[j]) = BankOf(active[k]) => j = k

HasActive(b) == \E k \in DOMAIN active : BankOf(active[k]) = b

CountsActive == \A b \in Banks : activePerBank[b] = IF HasActive(b) THEN 1 ELSE 0

ActiveInv ==
  /\ \A k \in DOMAIN active : active[k] <= sent
  /\ ActiveRowOpen
  /\ OneActivePerBank
  /\ CountsActive

(* What a command does to the rows.                                        *)
LEMMA RowsAfter ==
  ASSUME TypeOK, NEW inj, NEW c, NEW b \in Banks, NEW r, Issue(inj, c, b, r)
  PROVE  /\ ~IsOpening(c) /\ ~IsClosing(c) => open' = open
         /\ \A x \in Banks : x \notin Targets(c, b) => open'[x] = open[x]
         /\ IsOpening(c) => open' = [open EXCEPT ![b] = r]
<1>1. open \in [Banks -> Rows \cup {Closed}]
  BY DEF TypeOK, DeviceTypeOK
<1>2. open' = ApplyAction(c, b, r)
  BY DEF Issue, IssueCommand
<1>3. IsOpening(c) => Targets(c, b) = {b}
  BY DEF IsOpening, Targets, TargetsAll
<1> QED
  BY <1>1, <1>2, <1>3 DEF ApplyAction

(* The closing commands that are not held back hit no active request.      *)
LEMMA ClosingMisses ==
  ASSUME TypeOK, ActiveInv, NEW c \in Cmd, NEW b \in Banks, NEW r, NEW inj,
         Issue(inj, c, b, r), ~IsOpening(c), ~WouldCloseActive(c, b)
  PROVE  \A k \in DOMAIN active : open'[BankOf(active[k])] = open[BankOf(active[k])]
<1> SUFFICES ASSUME NEW k \in DOMAIN active
             PROVE  open'[BankOf(active[k])] = open[BankOf(active[k])]
  OBVIOUS
<1>1. BankOf(active[k]) \in Banks /\ activePerBank[BankOf(active[k])] = 1
  BY BufferTypes, AddressTypes DEF ActiveInv, CountsActive, HasActive
<1>2. CASE ~IsClosing(c)
  BY <1>2, RowsAfter
<1>3. CASE IsClosing(c)
  <2>1. BankOf(active[k]) \notin Targets(c, b)
    BY <1>1, <1>3, BufferTypes DEF WouldCloseActive
  <2> QED BY <1>1, <2>1, RowsAfter
<1> QED BY <1>2, <1>3

(* If the active buffer and the rows of its requests stay, so does the     *)
(* invariant.                                                              *)
LEMMA ActiveUnchanged ==
  ASSUME TypeOK, ActiveInv, UNCHANGED <<sent, req, active, activePerBank>>,
         \A k \in DOMAIN active : open'[BankOf(active[k])] = open[BankOf(active[k])]
  PROVE  ActiveInv'
BY DEF ActiveInv, ActiveRowOpen, OneActivePerBank, CountsActive, HasActive, BankOf, RowOf

LEMMA ActiveSend == TypeOK /\ ActiveInv /\ Send => ActiveInv'
<1> SUFFICES ASSUME TypeOK, ActiveInv, Send PROVE ActiveInv'
  OBVIOUS
<1>1. PICK a \in Addrs, t \in {"Read", "Write"} : Accept(t, a)
  BY DEF Send, SendForwardedRead, SendRead, SendCoalescedWrite, SendWrite
<1>2. /\ sent \in Nat /\ sent' = sent + 1
      /\ \A i \in Ids : i <= sent => req'[i] = req[i]
  BY <1>1, AcceptKeeps
<1>3. UNCHANGED <<open, active, activePerBank>>
  BY <1>1 DEF Accept, deviceVars
<1>4. \A k \in DOMAIN active : /\ active[k] \in Ids /\ active[k] <= sent
                               /\ req'[active[k]] = req[active[k]]
  BY <1>2, BufferTypes DEF ActiveInv
<1>5. \A k \in DOMAIN active : /\ (BankOf(active[k]))' = BankOf(active[k])
                               /\ (RowOf(active[k]))' = RowOf(active[k])
  BY <1>3, <1>4 DEF BankOf, RowOf
<1>6. (\A k \in DOMAIN active : active[k] <= sent)'
  BY <1>2, <1>3, <1>4 DEF Ids
<1> QED
  BY <1>3, <1>5, <1>6 DEF ActiveInv, ActiveRowOpen, OneActivePerBank, CountsActive, HasActive

(* 1. The row of an active request is open, so its next command is its     *)
(* final one: it leaves, and its bank has no active request any more.      *)
LEMMA ActiveTickActive ==
  ASSUME TypeOK, ActiveInv, NoAutoPrecharge, NEW n, NEW inj, TickActive(n, inj)
  PROVE  ActiveInv'
<1>1. PICK k \in DOMAIN active :
        LET i == active[k]
            b == BankOf(i)
        IN /\ TickStart
           /\ Issue(inj, Upgrade(Command(i), b), b, RowOf(i))
           /\ Done(i) => active' = RemoveAt(active, k) /\ activePerBank' = Left(b)
  BY DEF TickActive
<1> DEFINE i == active[k]
           b == BankOf(i)
<1>2. i \in Ids /\ b \in Banks /\ RowOf(i) \in Rows /\ FinalCommand(i) \in {"RD", "WR"}
  BY BufferTypes, AddressTypes
<1>3. open[b] = RowOf(i) /\ RowOf(i) # Closed
  BY <1>2, DeviceAssumption DEF ActiveInv, ActiveRowOpen
<1>4. Command(i) = FinalCommand(i) /\ Done(i)
  BY <1>2, <1>3 DEF Command, PreqCommand, Done
<1>5. Upgrade(Command(i), b) = Command(i)
  BY DEF Upgrade, NoAutoPrecharge, CapReached
<1>6. open' = open
  BY <1>1, <1>2, <1>4, <1>5, RowsAfter DEF IsOpening, IsClosing
<1>7. /\ active' = RemoveAt(active, k) /\ activePerBank' = Left(b)
      /\ UNCHANGED <<sent, req>>
  BY <1>1, <1>4 DEF TickStart
<1>8. /\ \A j \in DOMAIN active' : \E m \in DOMAIN active : m # k /\ active'[j] = active[m]
      /\ \A m \in DOMAIN active \ {k} : \E j \in DOMAIN active' : active'[j] = active[m]
      /\ \A g, h \in DOMAIN active' : g # h =>
           \E m, l \in DOMAIN active : /\ m # k /\ l # k /\ m # l
                                       /\ active'[g] = active[m] /\ active'[h] = active[l]
  BY <1>7, BufferTypes, RemoveAtElements
<1>9. \A j : (BankOf(j))' = BankOf(j) /\ (RowOf(j))' = RowOf(j)
  BY <1>7 DEF BankOf, RowOf
<1>10. (\A j \in DOMAIN active : active[j] <= sent)'
  BY <1>7, <1>8 DEF ActiveInv
<1>11. ActiveRowOpen'
  BY <1>6, <1>7, <1>8 DEF ActiveInv, ActiveRowOpen, BankOf, RowOf
<1>12. OneActivePerBank'
  BY <1>7, <1>8 DEF ActiveInv, OneActivePerBank, BankOf
<1>13. CountsActive'
  <2> SUFFICES ASSUME NEW x \in Banks
               PROVE  activePerBank'[x] = IF HasActive(x)' THEN 1 ELSE 0
    BY DEF CountsActive
  <2>1. activePerBank' = [activePerBank EXCEPT ![b] = @ - 1]
        /\ activePerBank \in [Banks -> Int]
    BY <1>7 DEF Left, TypeOK
  <2>2. CASE x = b
    <3>1. activePerBank'[x] = 0
      BY <1>2, <2>1, <2>2 DEF ActiveInv, CountsActive, HasActive
    <3>2. ~HasActive(x)'
      BY <1>7, <1>8, <2>2 DEF ActiveInv, OneActivePerBank, HasActive, BankOf
    <3> QED BY <3>1, <3>2
  <2>3. CASE x # b
    <3>1. activePerBank'[x] = activePerBank[x]
      BY <2>1, <2>3
    <3>2. HasActive(x)' <=> HasActive(x)
      BY <1>7, <1>8, <2>3 DEF HasActive, BankOf
    <3> QED BY <3>1, <3>2 DEF ActiveInv, CountsActive, HasActive
  <2> QED BY <2>2, <2>3
<1> QED
  BY <1>10, <1>11, <1>12, <1>13 DEF ActiveInv

(* 2. Maintenance is held back as long as it would close an active row.    *)
LEMMA ActiveTickPriority ==
  ASSUME TypeOK, ActiveInv, NEW n, NEW inj \in Injections, TickPriority(n, inj)
  PROVE  ActiveInv'
<1> DEFINE q == PriorityNow(inj)
           c == PriorityCommand(q)
<1>1. /\ PriorityReady(q) /\ TickStart /\ Issue(inj, c, Head(q).bank, Closed)
      /\ UNCHANGED <<active, activePerBank>>
  BY DEF TickPriority
<1>2. q \in Seq(Maintenance) /\ q # <<>>
  BY <1>1, MaintenanceTypes DEF PriorityReady
<1>3. Head(q) \in Maintenance
  BY <1>2, HeadTailProperties
<1>4. Head(q).bank \in Banks /\ c \in {"PREpb", "PREab", "REFab"}
  BY <1>3 DEF Maintenance, PriorityCommand, PreqCommand
<1>5. ~IsOpening(c) /\ ~WouldCloseActive(c, Head(q).bank) /\ c \in Cmd
  BY <1>1, <1>4 DEF PriorityReady, IsOpening, Cmd
<1>6. \A k \in DOMAIN active : open'[BankOf(active[k])] = open[BankOf(active[k])]
  BY <1>1, <1>4, <1>5, ClosingMisses
<1> QED
  BY <1>1, <1>6, ActiveUnchanged DEF TickStart

(* 3. A request that opens a row finds the bank closed, so no request is   *)
(* active there; a row conflict is held back.                              *)
LEMMA ActiveTickReadWrite ==
  ASSUME TypeOK, ForwardInv, ActiveInv, NoAutoPrecharge, NEW n, NEW inj, TickReadWrite(n, inj)
  PROVE  ActiveInv'
<1>1. PICK k \in DOMAIN ReadWriteBuf :
        LET i == ReadWriteBuf[k]
            b == BankOf(i)
        IN /\ TickStart
           /\ k \in ReadyReadWrite
           /\ Issue(inj, Upgrade(Command(i), b), b, RowOf(i))
           /\ active' = IF Promoted(i) THEN Append(active, i) ELSE active
           /\ activePerBank' = IF Promoted(i) THEN Entered(b) ELSE activePerBank
  BY DEF TickReadWrite, IsBest
<1> DEFINE i == ReadWriteBuf[k]
           b == BankOf(i)
<1>2. /\ i \in Ids /\ i <= sent
      /\ b \in Banks /\ RowOf(i) \in Rows
      /\ Command(i) \in {"ACT", "PREpb", "RD", "WR"}
  BY BufferTypes, AddressTypes DEF ReadWriteBuf, ForwardInv
<1>3. Upgrade(Command(i), b) = Command(i)
  BY DEF Upgrade, NoAutoPrecharge, CapReached
<1>4. ~WouldCloseActive(Command(i), b)
  BY <1>1 DEF ReadyReadWrite, ReadyIn
<1>5. Issue(inj, Command(i), b, RowOf(i)) /\ UNCHANGED <<sent, req>>
  BY <1>1, <1>3 DEF TickStart
<1>6. CASE Command(i) # "ACT"
  <2>1. ~IsOpening(Command(i)) /\ Command(i) \in Cmd /\ ~Promoted(i)
    BY <1>2, <1>6 DEF IsOpening, Cmd, Promoted
  <2>2. \A j \in DOMAIN active : open'[BankOf(active[j])] = open[BankOf(active[j])]
    BY <1>2, <1>4, <1>5, <2>1, ClosingMisses
  <2> QED BY <1>1, <1>5, <2>1, <2>2, ActiveUnchanged
<1>7. CASE Command(i) = "ACT"
  <2>1. open[b] = Closed /\ open' = [open EXCEPT ![b] = RowOf(i)]
    BY <1>2, <1>5, <1>7, AddressTypes, RowsAfter
       DEF Command, PreqCommand, IsOpening, FinalCommand
  <2>2. \A j \in DOMAIN active : active[j] \in Ids /\ BankOf(active[j]) \in Banks
                                 /\ BankOf(active[j]) # b
    BY <2>1, BufferTypes, AddressTypes, DeviceAssumption DEF ActiveInv, ActiveRowOpen
  <2>3. open \in [Banks -> Rows \cup {Closed}]
    BY DEF TypeOK, DeviceTypeOK
  <2>4. \A j \in DOMAIN active : open'[BankOf(active[j])] = open[BankOf(active[j])]
    BY <2>1, <2>2, <2>3
  <2>5. CASE ~Promoted(i)
    BY <1>1, <1>5, <2>4, <2>5, ActiveUnchanged
  <2>6. CASE Promoted(i)
    <3>1. active' = Append(active, i) /\ activePerBank' = [activePerBank EXCEPT ![b] = @ + 1]
      BY <1>1, <2>6 DEF Entered
    <3>2. /\ DOMAIN active = 1 .. Len(active) /\ Len(active) \in Nat
          /\ DOMAIN active' = DOMAIN active \cup {Len(active) + 1}
          /\ active'[Len(active) + 1] = i
          /\ \A j \in DOMAIN active : active'[j] = active[j]
      BY <1>2, <3>1, BufferTypes, AppendElements
    <3>3. \A j : (BankOf(j))' = BankOf(j) /\ (RowOf(j))' = RowOf(j)
      BY <1>5 DEF BankOf, RowOf
    <3>4. (\A j \in DOMAIN active : active[j] <= sent)'
      BY <1>2, <1>5, <3>2 DEF ActiveInv
    <3>5. ActiveRowOpen'
      <4>1. open'[b] = RowOf(i)
        BY <1>2, <2>1, <2>3
      <4> QED BY <2>4, <3>2, <3>3, <4>1 DEF ActiveInv, ActiveRowOpen
    <3>6. OneActivePerBank'
      BY <2>2, <3>2, <3>3 DEF ActiveInv, OneActivePerBank
    <3>7. CountsActive'
      <4> SUFFICES ASSUME NEW x \in Banks
                   PROVE  activePerBank'[x] = IF HasActive(x)' THEN 1 ELSE 0
        BY DEF CountsActive
      <4>1. activePerBank \in [Banks -> Int]
        BY DEF TypeOK
      <4>2. CASE x = b
        <5>1. activePerBank'[x] = 1
          BY <1>2, <2>2, <3>1, <4>1, <4>2 DEF ActiveInv, CountsActive, HasActive
        <5>2. HasActive(x)'
          BY <1>5, <3>2, <4>2 DEF HasActive, BankOf
        <5> QED BY <5>1, <5>2
      <4>3. CASE x # b
        <5>1. activePerBank'[x] = activePerBank[x]
          BY <3>1, <4>1, <4>3
        <5>2. HasActive(x)' <=> HasActive(x)
          BY <1>5, <3>2, <4>3 DEF HasActive, BankOf
        <5> QED BY <5>1, <5>2 DEF ActiveInv, CountsActive, HasActive
      <4> QED BY <4>2, <4>3
    <3> QED
      BY <3>4, <3>5, <3>6, <3>7 DEF ActiveInv
  <2> QED BY <2>5, <2>6
<1> QED
  BY <1>6, <1>7

LEMMA ActiveTick ==
  ASSUME TypeOK, ForwardInv, ActiveInv, NoAutoPrecharge, Tick
  PROVE  ActiveInv'
<1>1. PICK n \in 0 .. Len(pending) :
        \/ TickThrow(n)
        \/ \E inj \in Injections : \/ TickActive(n, inj) \/ TickPriority(n, inj)
                                   \/ TickReadWrite(n, inj) \/ TickIdle(n, inj)
  BY DEF Tick
<1>2. CASE TickThrow(n)
  BY <1>2, ActiveUnchanged DEF TickThrow
<1>3. ASSUME NEW inj \in Injections, TickIdle(n, inj) PROVE ActiveInv'
  BY <1>3, ActiveUnchanged DEF TickIdle, TickStart
<1> QED
  BY <1>1, <1>2, <1>3, ActiveTickActive, ActiveTickPriority, ActiveTickReadWrite

LEMMA ActiveInitially == Init => ActiveInv
BY DEF Init, ActiveInv, ActiveRowOpen, OneActivePerBank, CountsActive, HasActive

LEMMA ActiveInductive ==
  TypeOK /\ ForwardInv /\ (NoAutoPrecharge => ActiveInv) /\ [Next]_vars
    => (NoAutoPrecharge => ActiveInv')
<1>1. ASSUME TypeOK, ActiveInv, UNCHANGED vars PROVE ActiveInv'
  BY <1>1, ActiveUnchanged DEF vars, deviceVars, queueVars
<1> QED
  BY <1>1, ActiveSend, ActiveTick DEF Next

THEOREM ActiveInvariant == Spec => [](NoAutoPrecharge => ActiveInv)
<1>1. (NoAutoPrecharge => ActiveInv)' <=> (NoAutoPrecharge => ActiveInv')
  BY DEF NoAutoPrecharge
<1> QED
  BY <1>1, TypeCorrect, ForwardInvariant, ActiveInitially, ActiveInductive, PTL DEF Spec

(* Without auto-precharge nobody closes the row an active request waits to *)
(* use: would_close_active covers every command that could.                *)
THEOREM ActiveRowSafe == Spec => [](NoAutoPrecharge => ActiveRowOpen)
<1>1. (NoAutoPrecharge => ActiveInv) => (NoAutoPrecharge => ActiveRowOpen)
  BY DEF ActiveInv
<1> QED
  BY <1>1, ActiveInvariant, PTL

(* Without auto-precharge m_active_per_bank is the count controller_base.h *)
(* says it is.                                                             *)
THEOREM ActiveCountCorrect == Spec => [](NoAutoPrecharge => ActiveCountExact)
<1>1. ASSUME ActiveInv, NEW b \in Banks
      PROVE  activePerBank[b] = Cardinality({k \in DOMAIN active : BankOf(active[k]) = b})
  <2> DEFINE here == {k \in DOMAIN active : BankOf(active[k]) = b}
  <2>1. CASE here = {}
    BY <1>1, <2>1, FS_EmptySet DEF ActiveInv, CountsActive, HasActive
  <2>2. CASE here # {}
    <3>1. PICK k : here = {k}
      BY <1>1, <2>2 DEF ActiveInv, OneActivePerBank
    <3> QED BY <1>1, <2>2, <3>1, FS_Singleton DEF ActiveInv, CountsActive, HasActive
  <2> QED BY <2>1, <2>2
<1>2. (NoAutoPrecharge => ActiveInv) => (NoAutoPrecharge => ActiveCountExact)
  BY <1>1 DEF ActiveCountExact
<1> QED
  BY <1>2, ActiveInvariant, PTL
-----------------------------------------------------------------------------
(* Requests. A request moves from the read or the write buffer, through    *)
(* the active buffer or past it, to the reads that wait for their data and *)
(* is answered, and is in one of these places at a time. That the answers  *)
(* of a cycle go by the set of requests whose data have come relies on it. *)

Same(i, j) == IF i = j THEN 1 ELSE 0
Sent(i)    == IF i <= sent THEN 1 ELSE 0

(* How often request i is held and how often it waits for its data.        *)
Held(i)    == Occurrences(readBuf, i) + Occurrences(writeBuf, i) + Occurrences(active, i)
Waiting(i) == Cardinality({k \in DOMAIN pending : pending[k].id = i})
Total(i)   == Held(i) + Waiting(i) + replies[i]

ConservedInv == TypeOK /\ Conserved

LEMMA ConservedParts ==
  Conserved <=> \A i \in Ids : Total(i) = Sent(i)
BY DEF Conserved, Total, Held, Waiting, Sent

LEMMA OccurrencesCount ==
  ASSUME NEW q \in Seq(Ids), NEW i
  PROVE  /\ Occurrences(q, i) \in Nat
         /\ \A j \in Ids : Occurrences(Append(q, j), i) = Occurrences(q, i) + Same(i, j)
         /\ \A k \in DOMAIN q : Occurrences(RemoveAt(q, k), i) = Occurrences(q, i) - Same(i, q[k])
<1>1. \A l : Occurrences(l, i) = CountIn(l, {i})
  BY DEF Occurrences, CountIn
<1>2. ASSUME NEW j \in Ids PROVE Occurrences(Append(q, j), i) = Occurrences(q, i) + Same(i, j)
  BY <1>1, CountAppend DEF Same
<1>3. ASSUME NEW k \in DOMAIN q
      PROVE  Occurrences(RemoveAt(q, k), i) = Occurrences(q, i) - Same(i, q[k])
  BY <1>1, CountRemoveAt DEF Same
<1>4. Occurrences(q, i) \in Nat
  <2>1. CountIn(q, {i}) \in Nat
    BY CountNat
  <2> QED BY <1>1, <2>1
<1> QED BY <1>2, <1>3, <1>4

(* Waiting requests are counted as elements of the queue.                  *)
LEMMA WaitingCount ==
  ASSUME NEW q \in Seq(Pending), NEW i
  PROVE  /\ Cardinality({k \in DOMAIN q : q[k].id = i}) = CountIn(q, {t \in Pending : t.id = i})
         /\ Cardinality({k \in DOMAIN q : q[k].id = i}) \in Nat
<1> DEFINE T == {t \in Pending : t.id = i}
<1>1. \A k \in DOMAIN q : q[k] \in T <=> q[k].id = i
  BY LenProperties, ElementOfSeq
<1>2. {k \in DOMAIN q : q[k].id = i} = {k \in DOMAIN q : q[k] \in T}
  BY <1>1
<1> HIDE DEF T
<1>3. CountIn(q, T) \in Nat
  BY CountNat
<1> QED BY <1>2, <1>3 DEF CountIn, T

LEMMA Amounts ==
  ASSUME TypeOK, NEW i \in Ids
  PROVE  /\ Occurrences(readBuf, i) \in Nat /\ Occurrences(writeBuf, i) \in Nat
         /\ Occurrences(active, i) \in Nat
         /\ Held(i) \in Nat /\ Waiting(i) \in Nat /\ replies[i] \in Nat
<1>1. /\ Occurrences(readBuf, i) \in Nat /\ Occurrences(writeBuf, i) \in Nat
      /\ Occurrences(active, i) \in Nat
  BY BufferTypes, OccurrencesCount
<1>2. Held(i) \in Nat
  BY <1>1 DEF Held
<1>3. Waiting(i) \in Nat
  BY WaitingCount DEF Waiting, TypeOK
<1>4. replies[i] \in Nat
  BY DEF TypeOK
<1> QED BY <1>1, <1>2, <1>3, <1>4

(* A request is in one place at most.                                      *)
LEMMA OnePlace ==
  ASSUME ConservedInv, NEW i \in Ids
  PROVE  Waiting(i) + replies[i] <= Sent(i) /\ Sent(i) \in {0, 1}
<1>1. Held(i) \in Nat /\ Waiting(i) \in Nat /\ replies[i] \in Nat
  BY Amounts DEF ConservedInv
<1>2. Held(i) + Waiting(i) + replies[i] = Sent(i)
  BY ConservedParts DEF ConservedInv, Total
<1>3. Waiting(i) + replies[i] <= Sent(i)
  BY ONLY <1>1, <1>2
<1> QED BY <1>3 DEF Sent

(* A cycle's service of request i, with a more of it on the way.           *)
Answers(i, a) ==
  /\ Waiting(i)' \in Nat /\ replies'[i] \in Nat
  /\ Waiting(i)' + replies'[i] = Waiting(i) + replies[i] + a

LEMMA Serves ==
  ASSUME ConservedInv, NEW n \in 0 .. Len(pending), NEW i \in Ids
  PROVE  \E w \in Nat : /\ w <= Waiting(i)
                        /\ PendingNow(n) \in Seq(Pending)
                        /\ CountIn(PendingNow(n), {t \in Pending : t.id = i}) = Waiting(i) - w
                        /\ RepliesNow(n)[i] = replies[i] + w
<1> DEFINE T == {t \in Pending : t.id = i}
           A == SubSeq(Aged, 1, Len(pending))
           C == {k \in 1 .. n : A[k] \in T}
           w == Cardinality(C)
<1>1. TypeOK /\ pending \in Seq(Pending) /\ PendingNow(n) \in Seq(Pending)
  BY PassingTypes DEF ConservedInv, TypeOK
<1>2. /\ Len(pending) \in Nat /\ DOMAIN pending = 1 .. Len(pending)
      /\ \A k \in 1 .. Len(pending) : pending[k] \in Pending
  BY <1>1, LenProperties, ElementOfSeq
<1>3. \A k \in 1 .. Len(pending) : Aged[k] \in Pending /\ Aged[k].id = pending[k].id
  BY <1>2 DEF Aged, Pending, Larger
<1>4. /\ A \in Seq(Pending) /\ Len(A) = Len(pending) /\ DOMAIN A = 1 .. Len(pending)
      /\ \A k \in 1 .. Len(pending) : A[k] = Aged[k]
      /\ PendingNow(n) = SubSeq(A, n + 1, Len(pending))
  <2>1. \A k \in 1 .. Len(pending) : Aged[k] \in Pending
    BY <1>3
  <2> QED BY ONLY <1>2, <2>1, TailOfFunction DEF PendingNow
<1> HIDE DEF A
<1>5. CountIn(A, T) = Waiting(i)
  <2>1. {k \in DOMAIN pending : pending[k].id = i} = {k \in DOMAIN A : A[k] \in T}
    BY <1>2, <1>3, <1>4
  <2> QED BY <2>1 DEF Waiting, CountIn
<1>6. IsFiniteSet(C) /\ CountIn(PendingNow(n), T) = Waiting(i) - w
  <2>1. n \in 0 .. Len(A)
    BY <1>4
  <2> HIDE DEF T
  <2>2. /\ IsFiniteSet({k \in 1 .. n : A[k] \in T})
        /\ CountIn(SubSeq(A, n + 1, Len(A)), T)
             = CountIn(A, T) - Cardinality({k \in 1 .. n : A[k] \in T})
    BY <1>4, <2>1, CountSubSeq
  <2> QED BY <1>4, <1>5, <2>2
<1>7. w \in Nat /\ w <= Waiting(i) /\ (w = 0 <=> C = {})
  <2>1. w \in Nat /\ CountIn(PendingNow(n), T) \in Nat /\ (w = 0 <=> C = {})
    <3> HIDE DEF T, C
    <3> QED BY <1>1, <1>6, CountNat, FS_CardinalityType, FS_EmptySet
  <2>2. Waiting(i) \in Nat
    BY <1>1, Amounts
  <2> HIDE DEF w, T
  <2> QED BY <1>6, <2>1, <2>2
<1>8. C = {} <=> \A k \in 1 .. n : pending[k].id # i
  BY <1>2, <1>3, <1>4
<1>9. w <= 1
  <2>1. Waiting(i) \in Nat /\ replies[i] \in Nat
    BY <1>1, Amounts
  <2> HIDE DEF w
  <2> QED BY <1>7, <2>1, OnePlace
<1>10. RepliesNow(n)[i] = replies[i] + w
  <2> HIDE DEF w, C
  <2> QED BY <1>7, <1>8, <1>9 DEF RepliesNow
<1> HIDE DEF w, T
<1> QED BY <1>1, <1>6, <1>7, <1>10 DEF T

(* What is due in a cycle is answered once.                                *)
LEMMA AnswerMoves ==
  ASSUME ConservedInv, NEW n \in 0 .. Len(pending), NEW i \in Ids
  PROVE  /\ CompleteNone(n) => Answers(i, 0)
         /\ \A j \in Ids : Complete(n, j) => Answers(i, Same(i, j))
<1> DEFINE T == {t \in Pending : t.id = i}
<1>1. PICK w \in Nat : /\ w <= Waiting(i)
                       /\ PendingNow(n) \in Seq(Pending)
                       /\ CountIn(PendingNow(n), T) = Waiting(i) - w
                       /\ RepliesNow(n)[i] = replies[i] + w
  BY Serves
<1>2. TypeOK /\ Waiting(i) \in Nat /\ replies[i] \in Nat /\ RepliesNow(n) \in [Ids -> Nat]
  BY Amounts, PassingTypes DEF ConservedInv
<1>3. ASSUME pending' \in Seq(Pending) PROVE Waiting(i)' = CountIn(pending', T)
  BY <1>3, WaitingCount DEF Waiting
<1>4. pending' = PendingNow(n) => Waiting(i)' = Waiting(i) - w
  <2> HIDE DEF T
  <2> QED BY <1>1, <1>3
<1>5. ASSUME CompleteNone(n) PROVE Answers(i, 0)
  <2>1. Waiting(i)' = Waiting(i) - w /\ replies'[i] = replies[i] + w
    BY <1>1, <1>4, <1>5 DEF CompleteNone
  <2> QED BY <1>1, <1>2, <2>1 DEF Answers
<1>6. ASSUME NEW j \in Ids, Complete(n, j) PROVE Answers(i, Same(i, j))
  <2>1. Same(i, j) \in Nat
    BY DEF Same
  <2>2. CASE req[j].type = "Read"
    <3> DEFINE t == [id |-> j, left |-> ReadLatency]
    <3>1. t \in Pending /\ (t \in T <=> i = j)
      BY ConstantTypes DEF Pending
    <3>2. pending' = Append(PendingNow(n), t) /\ replies'[i] = replies[i] + w
      BY <1>1, <1>6, <2>2 DEF Complete
    <3> HIDE DEF t, T
    <3>3. CountIn(Append(PendingNow(n), t), T) = CountIn(PendingNow(n), T) + Same(i, j)
      BY <1>1, <3>1, CountAppend DEF Same
    <3>4. pending' \in Seq(Pending)
      BY <1>1, <3>1, <3>2, AppendProperties
    <3>5. Waiting(i)' = Waiting(i) - w + Same(i, j)
      BY <1>1, <1>3, <3>2, <3>3, <3>4
    <3> QED BY <1>1, <1>2, <2>1, <3>2, <3>5 DEF Answers
  <2>3. CASE req[j].type # "Read"
    <3>1. pending' = PendingNow(n) /\ replies' = [RepliesNow(n) EXCEPT ![j] = @ + 1]
      BY <1>6, <2>3 DEF Complete
    <3>2. replies'[i] = replies[i] + w + Same(i, j)
      BY <1>1, <1>2, <3>1 DEF Same
    <3>3. Waiting(i)' = Waiting(i) - w
      BY <1>4, <3>1
    <3> QED BY <1>1, <1>2, <2>1, <3>2, <3>3 DEF Answers
  <2> QED BY <2>2, <2>3
<1> QED BY <1>5, <1>6

Keeps == \A i \in Ids : Total(i)' = Total(i)

LEMMA Balance ==
  ASSUME ConservedInv, NEW i \in Ids, NEW a \in Nat, Answers(i, a), Held(i)' = Held(i) - a
  PROVE  Total(i)' = Total(i)
<1>1. Held(i) \in Nat /\ Waiting(i) \in Nat /\ replies[i] \in Nat
  BY Amounts DEF ConservedInv
<1>2. Total(i)' = Held(i)' + Waiting(i)' + replies'[i]
  BY DEF Total
<1> QED BY <1>1, <1>2 DEF Answers, Total

(* The buffers after a step.                                               *)
LEMMA HeldAfter ==
  ASSUME NEW i
  PROVE  Held(i)' = Occurrences(readBuf', i) + Occurrences(writeBuf', i) + Occurrences(active', i)
BY DEF Held, Occurrences

LEMMA RestKeeps ==
  ASSUME ConservedInv, NEW n \in 0 .. Len(pending), CompleteNone(n),
         UNCHANGED <<readBuf, writeBuf, active>>
  PROVE  Keeps
<1> SUFFICES ASSUME NEW i \in Ids PROVE Total(i)' = Total(i)
  BY DEF Keeps
<1>1. Held(i)' = Held(i) - 0
  <2>1. Held(i) \in Nat
    BY Amounts DEF ConservedInv
  <2>2. Held(i)' = Held(i)
    BY HeldAfter DEF Held
  <2> QED BY <2>1, <2>2
<1> QED BY <1>1, AnswerMoves, Balance

(* The request leaves the active buffer when it is done. One whose row is  *)
(* opened again is promoted from the active buffer to the active buffer.   *)
LEMMA TickActiveKeeps ==
  ASSUME ConservedInv, NEW n \in 0 .. Len(pending), NEW inj, TickActive(n, inj)
  PROVE  Keeps
<1> SUFFICES ASSUME NEW i \in Ids PROVE Total(i)' = Total(i)
  BY DEF Keeps
<1>1. PICK k \in DOMAIN active :
        LET j == active[k] IN
        /\ IF Done(j) THEN Complete(n, j) ELSE CompleteNone(n)
        /\ active' = IF Done(j) THEN RemoveAt(active, k)
                     ELSE IF Promoted(j) THEN RemoveAt(Append(active, j), k)
                     ELSE active
        /\ UNCHANGED <<readBuf, writeBuf>>
  BY DEF TickActive
<1>2. /\ active \in Seq(Ids) /\ active[k] \in Ids
      /\ Occurrences(readBuf, i) \in Nat /\ Occurrences(writeBuf, i) \in Nat
      /\ Occurrences(active, i) \in Nat /\ Held(i) \in Nat
  BY BufferTypes, Amounts DEF ConservedInv
<1>3. Same(i, active[k]) \in Nat
  BY DEF Same
<1>4. Held(i)' = Occurrences(readBuf, i) + Occurrences(writeBuf, i) + Occurrences(active', i)
  BY <1>1, HeldAfter
<1>5. CASE Done(active[k])
  <2>1. Occurrences(active', i) = Occurrences(active, i) - Same(i, active[k])
    BY <1>1, <1>2, <1>5, OccurrencesCount
  <2>2. Held(i)' = Held(i) - Same(i, active[k])
    BY <1>2, <1>3, <1>4, <2>1 DEF Held
  <2> QED BY <1>1, <1>2, <1>3, <1>5, <2>2, AnswerMoves, Balance
<1>6. CASE ~Done(active[k])
  <2> DEFINE q == Append(active, active[k])
  <2>1. q \in Seq(Ids) /\ k \in DOMAIN q /\ q[k] = active[k]
    BY <1>2, AppendElements, AppendProperties
  <2>2. Occurrences(q, i) = Occurrences(active, i) + Same(i, active[k])
    BY <1>2, OccurrencesCount
  <2> HIDE DEF q
  <2>3. Occurrences(RemoveAt(q, k), i) = Occurrences(q, i) - Same(i, active[k])
    BY <2>1, OccurrencesCount
  <2>4. Occurrences(active', i) = Occurrences(active, i)
    BY <1>1, <1>2, <1>3, <1>6, <2>2, <2>3 DEF q
  <2>5. Held(i)' = Held(i) - 0
    BY <1>2, <1>4, <2>4 DEF Held
  <2> QED BY <1>1, <1>6, <2>5, AnswerMoves, Balance
<1> QED BY <1>5, <1>6

(* The request leaves its buffer, answered or promoted.                    *)
LEMMA TickReadWriteKeeps ==
  ASSUME ConservedInv, NEW n \in 0 .. Len(pending), NEW inj, TickReadWrite(n, inj)
  PROVE  Keeps
<1> SUFFICES ASSUME NEW i \in Ids PROVE Total(i)' = Total(i)
  BY DEF Keeps
<1>1. PICK k \in DOMAIN ReadWriteBuf :
        LET j == ReadWriteBuf[k]
            rest == IF Done(j) \/ Promoted(j) THEN RemoveAt(ReadWriteBuf, k) ELSE ReadWriteBuf
        IN /\ IF Done(j) THEN Complete(n, j) ELSE CompleteNone(n)
           /\ readBuf' = IF WriteModeNow THEN readBuf ELSE rest
           /\ writeBuf' = IF WriteModeNow THEN rest ELSE writeBuf
           /\ active' = IF Promoted(j) THEN Append(active, j) ELSE active
  BY DEF TickReadWrite
<1> DEFINE j == ReadWriteBuf[k]
<1>2. /\ ReadWriteBuf \in Seq(Ids) /\ j \in Ids /\ active \in Seq(Ids)
      /\ Occurrences(readBuf, i) \in Nat /\ Occurrences(writeBuf, i) \in Nat
      /\ Occurrences(active, i) \in Nat /\ Held(i) \in Nat
  BY BufferTypes, Amounts DEF ConservedInv, ReadWriteBuf
<1>3. Same(i, j) \in Nat
  BY DEF Same
<1>4. Occurrences(readBuf', i) + Occurrences(writeBuf', i)
        = Occurrences(readBuf, i) + Occurrences(writeBuf, i)
            - (IF Done(j) \/ Promoted(j) THEN Same(i, j) ELSE 0)
  <2>1. Occurrences(RemoveAt(ReadWriteBuf, k), i) = Occurrences(ReadWriteBuf, i) - Same(i, j)
    BY <1>2, OccurrencesCount
  <2>2. CASE WriteModeNow
    BY <1>1, <1>2, <1>3, <2>1, <2>2 DEF ReadWriteBuf
  <2>3. CASE ~WriteModeNow
    BY <1>1, <1>2, <1>3, <2>1, <2>3 DEF ReadWriteBuf
  <2> QED BY <2>2, <2>3
<1>5. Occurrences(active', i) = Occurrences(active, i) + (IF Promoted(j) THEN Same(i, j) ELSE 0)
  BY <1>1, <1>2, OccurrencesCount
<1>6. Promoted(j) => ~Done(j)
  BY DEF Promoted
<1> HIDE DEF j
<1>7. Held(i)' = Held(i) - (IF Done(j) THEN Same(i, j) ELSE 0)
  <2> DEFINE r == Occurrences(readBuf', i)
             v == Occurrences(writeBuf', i)
             l == IF Done(j) \/ Promoted(j) THEN Same(i, j) ELSE 0
             p == IF Promoted(j) THEN Same(i, j) ELSE 0
             d == IF Done(j) THEN Same(i, j) ELSE 0
  <2>1. Held(i)' = r + v + Occurrences(active', i)
    BY HeldAfter
  <2>2. l \in Nat /\ p \in Nat /\ d \in Nat /\ l = p + d
    BY <1>3, <1>6
  <2> HIDE DEF r, v, l, p, d
  <2>3. Held(i)' = (Occurrences(readBuf, i) + Occurrences(writeBuf, i) - l)
                     + (Occurrences(active, i) + p)
    BY <1>4, <1>5, <2>1 DEF r, v, l, p
  <2>4. Held(i)' = Held(i) - d
    BY <1>2, <2>2, <2>3 DEF Held
  <2> QED BY <2>4 DEF d
<1>8. CASE Done(j)
  <2>1. Complete(n, j)
    BY <1>1, <1>8 DEF j
  <2> QED BY <1>2, <1>3, <1>7, <1>8, <2>1, AnswerMoves, Balance
<1>9. CASE ~Done(j)
  <2>1. CompleteNone(n)
    BY <1>1, <1>9 DEF j
  <2> QED BY <1>7, <1>9, <2>1, AnswerMoves, Balance
<1> QED BY <1>8, <1>9

LEMMA TickKeeps == ASSUME ConservedInv, Tick PROVE Keeps /\ UNCHANGED sent
<1>1. PICK n \in 0 .. Len(pending) :
        \/ TickThrow(n)
        \/ \E inj \in Injections : \/ TickActive(n, inj) \/ TickPriority(n, inj)
                                   \/ TickReadWrite(n, inj) \/ TickIdle(n, inj)
  BY DEF Tick
<1>2. UNCHANGED sent
  BY TickBuffers
<1>3. CASE TickThrow(n)
  BY <1>2, <1>3, RestKeeps DEF TickThrow
<1>4. ASSUME NEW inj \in Injections, TickPriority(n, inj) \/ TickIdle(n, inj) PROVE Keeps
  BY <1>4, RestKeeps DEF TickPriority, TickIdle
<1> QED BY <1>1, <1>2, <1>3, <1>4, TickActiveKeeps, TickReadWriteKeeps

(* A request that is sent is new, and put in one place.                    *)
LEMMA SendKeeps ==
  ASSUME ConservedInv, Send, NEW i \in Ids
  PROVE  Total(i)' = Total(i) + Same(i, sent + 1) /\ sent' = sent + 1
<1> DEFINE x == sent + 1
<1>1. PICK a \in Addrs : \/ SendForwardedRead(a) \/ SendRead(a)
                         \/ SendCoalescedWrite(a) \/ SendWrite(a)
  BY DEF Send
<1>2. x \in Ids /\ sent' = x /\ active' = active
  BY <1>1, ConstantTypes DEF SendForwardedRead, SendRead, SendCoalescedWrite, SendWrite, Accept,
                             ConservedInv, TypeOK, Ids
<1>3. /\ readBuf \in Seq(Ids) /\ writeBuf \in Seq(Ids)
      /\ pending \in Seq(Pending) /\ replies \in [Ids -> Nat]
  BY DEF ConservedInv, TypeOK
<1>4. /\ Occurrences(readBuf, i) \in Nat /\ Occurrences(writeBuf, i) \in Nat
      /\ Occurrences(active, i) \in Nat
      /\ Held(i) \in Nat /\ Waiting(i) \in Nat /\ replies[i] \in Nat /\ Same(i, x) \in Nat
  BY Amounts DEF ConservedInv, Same
<1>5. Held(i)' = Occurrences(readBuf', i) + Occurrences(writeBuf', i) + Occurrences(active, i)
  BY <1>2, HeldAfter
<1>6. Total(i)' = Held(i)' + Waiting(i)' + replies'[i]
  BY DEF Total
<1>7. /\ UNCHANGED pending => Waiting(i)' = Waiting(i)
      /\ UNCHANGED <<readBuf, writeBuf>> => Held(i)' = Held(i)
  BY <1>5 DEF Waiting, Held
<1>8. CASE SendForwardedRead(a)
  <2> DEFINE t == [id |-> x, left |-> 1]
             T == {y \in Pending : y.id = i}
  <2>1. /\ pending' = Append(pending, t) /\ UNCHANGED <<readBuf, writeBuf, replies>>
        /\ t \in Pending /\ (t \in T <=> i = x)
    BY <1>2, <1>8 DEF SendForwardedRead, Pending
  <2>2. pending' \in Seq(Pending)
    BY <1>3, <2>1, AppendProperties
  <2>3. Waiting(i) = CountIn(pending, T) /\ Waiting(i)' = CountIn(pending', T)
    BY <1>3, <2>2, WaitingCount DEF Waiting
  <2> HIDE DEF t, T, x
  <2>4. CountIn(Append(pending, t), T) = CountIn(pending, T) + Same(i, x)
    BY <1>3, <2>1, CountAppend DEF Same
  <2>5. Waiting(i)' = Waiting(i) + Same(i, x)
    BY <2>1, <2>3, <2>4
  <2> QED BY <1>2, <1>4, <1>6, <1>7, <2>1, <2>5 DEF Total, x
<1>9. CASE SendCoalescedWrite(a)
  <2>1. replies' = [replies EXCEPT ![x] = @ + 1] /\ UNCHANGED <<readBuf, writeBuf, pending>>
    BY <1>9 DEF SendCoalescedWrite
  <2>2. replies'[i] = replies[i] + Same(i, x)
    BY <1>3, <2>1 DEF Same
  <2> HIDE DEF x
  <2> QED BY <1>2, <1>4, <1>6, <1>7, <2>1, <2>2 DEF Total, x
<1>10. CASE SendRead(a) \/ SendWrite(a)
  <2>1. /\ \/ readBuf' = Append(readBuf, x) /\ UNCHANGED writeBuf
           \/ writeBuf' = Append(writeBuf, x) /\ UNCHANGED readBuf
        /\ UNCHANGED <<pending, replies>>
    BY <1>10 DEF SendRead, SendWrite
  <2> HIDE DEF x
  <2>2. \A q \in Seq(Ids) : Occurrences(Append(q, x), i) = Occurrences(q, i) + Same(i, x)
    BY <1>2, OccurrencesCount
  <2>3. Held(i)' = Held(i) + Same(i, x)
    <3>1. CASE readBuf' = Append(readBuf, x) /\ UNCHANGED writeBuf
      BY <1>3, <1>4, <1>5, <2>2, <3>1 DEF Held
    <3>2. CASE writeBuf' = Append(writeBuf, x) /\ UNCHANGED readBuf
      BY <1>3, <1>4, <1>5, <2>2, <3>2 DEF Held
    <3> QED BY <2>1, <3>1, <3>2
  <2> QED BY <1>2, <1>4, <1>6, <1>7, <2>1, <2>3 DEF Total, x
<1> QED BY <1>1, <1>8, <1>9, <1>10

LEMMA ConservedInductive == ConservedInv /\ [Next]_vars => ConservedInv'
<1> SUFFICES ASSUME ConservedInv, [Next]_vars PROVE ConservedInv'
  OBVIOUS
<1>1. TypeOK' /\ sent \in Nat
  BY TypeInductive, ConstantTypes DEF ConservedInv, TypeOK
<1>2. \A i \in Ids : Total(i) = Sent(i)
  BY ConservedParts DEF ConservedInv
<1>3. ASSUME \A i \in Ids : Total(i)' = Sent(i)' PROVE Conserved'
  BY <1>3 DEF Conserved, Total, Held, Waiting, Sent, Occurrences
<1>4. CASE Tick
  <2>1. \A i \in Ids : Total(i)' = Sent(i)'
    BY <1>2, <1>4, TickKeeps DEF Keeps, Sent
  <2> QED BY <1>1, <1>3, <2>1 DEF ConservedInv
<1>5. CASE Send
  <2>1. ASSUME NEW i \in Ids PROVE Total(i)' = Sent(i)'
    <3>1. Total(i)' = Total(i) + Same(i, sent + 1) /\ sent' = sent + 1
      BY <1>5, SendKeeps
    <3>2. Sent(i)' = Sent(i) + Same(i, sent + 1)
      BY <1>1, <3>1, ConstantTypes DEF Sent, Same, Ids
    <3> QED BY <1>2, <3>1, <3>2
  <2> QED BY <1>1, <1>3, <2>1 DEF ConservedInv
<1>6. CASE UNCHANGED vars
  <2>1. Conserved'
    BY <1>6 DEF ConservedInv, Conserved, Occurrences, vars, queueVars
  <2> QED BY <1>1, <2>1 DEF ConservedInv
<1> QED BY <1>4, <1>5, <1>6 DEF Next

LEMMA ConservedInitially == Init => ConservedInv
<1> SUFFICES ASSUME Init PROVE ConservedInv
  OBVIOUS
<1>1. ASSUME NEW i \in Ids PROVE Total(i) = Sent(i)
  <2>1. Occurrences(<<>>, i) = 0 /\ Cardinality({k \in DOMAIN <<>> : <<>>[k].id = i}) = 0
    <3>1. {k \in DOMAIN <<>> : <<>>[k] = i} = {} /\ {k \in DOMAIN <<>> : <<>>[k].id = i} = {}
      OBVIOUS
    <3> QED BY <3>1, FS_EmptySet DEF Occurrences
  <2>2. Held(i) = 0 /\ Waiting(i) = 0 /\ replies[i] = 0
    BY <2>1 DEF Init, Held, Waiting
  <2>3. Sent(i) = 0
    BY ConstantTypes DEF Init, Sent, Ids
  <2> QED BY <2>2, <2>3 DEF Total
<1> QED BY <1>1, TypeInitially, ConservedParts DEF ConservedInv

LEMMA ConservedInvariant == Spec => []ConservedInv
<1> QED
  BY ConservedInitially, ConservedInductive, PTL DEF Spec

(* An accepted request is in one buffer, waits for its data or has been    *)
(* answered once, through forwarding, coalescing, promotion and service.   *)
THEOREM RequestsConserved == Spec => []Conserved
<1>1. ConservedInv => Conserved
  BY DEF ConservedInv
<1> QED BY <1>1, ConservedInvariant, PTL

-----------------------------------------------------------------------------
(* The port. No step takes an answer back, and none is given twice.        *)

LEMMA AnswersStay == ASSUME ConservedInv, Tick PROVE \A i \in Ids : replies'[i] >= replies[i]
<1>1. replies \in [Ids -> Nat]
  BY DEF ConservedInv, TypeOK
<1>2. PICK n : CompleteNone(n) \/ \E j : Complete(n, j)
  BY DEF Tick, TickThrow, TickActive, TickPriority, TickReadWrite, TickIdle
<1>3. \/ replies' = RepliesNow(n)
      \/ \E j : replies' = [RepliesNow(n) EXCEPT ![j] = @ + 1]
  BY <1>2 DEF CompleteNone, Complete
<1>4. ASSUME NEW i \in Ids PROVE replies'[i] >= replies[i]
  <2>1. i \in DOMAIN RepliesNow(n) /\ RepliesNow(n)[i] \in Nat /\ RepliesNow(n)[i] >= replies[i]
    BY <1>1 DEF RepliesNow
  <2>2. replies'[i] = RepliesNow(n)[i] \/ replies'[i] = RepliesNow(n)[i] + 1
    <3> HIDE DEF RepliesNow
    <3> QED BY <1>3, <2>1
  <2> QED BY <1>1, <2>1, <2>2
<1> QED BY <1>4

(* A request is answered once at most, and only when it has been sent.     *)
LEMMA AnsweredOnce ==
  ASSUME ConservedInv
  PROVE  /\ replies \in [Ids -> {0, 1}] /\ sent \in 0 .. MaxSend
         /\ \A i \in Ids : i > sent => replies[i] = 0
<1>1. TypeOK /\ replies \in [Ids -> Nat] /\ sent \in 0 .. MaxSend
  BY DEF ConservedInv, TypeOK
<1>2. ASSUME NEW i \in Ids PROVE replies[i] \in {0, 1} /\ (i > sent => replies[i] = 0)
  <2>1. Waiting(i) \in Nat /\ replies[i] \in Nat
    BY <1>1, Amounts
  <2>2. Sent(i) \in {0, 1} /\ (i > sent => Sent(i) = 0)
    BY <1>1, ConstantTypes DEF Sent, Ids
  <2> QED BY <2>1, <2>2, OnePlace
<1> QED BY <1>1, <1>2

LEMMA PortStep ==
  ASSUME ConservedInv, ConservedInv', [Next]_vars
  PROVE  Port!PortNext \/ UNCHANGED Port!portVars
<1>1. /\ replies \in [Ids -> {0, 1}] /\ sent \in 0 .. MaxSend
      /\ \A i \in Ids : i > sent => replies[i] = 0
  BY AnsweredOnce
<1>2. replies' \in [Ids -> {0, 1}] /\ \A i \in Ids : i > sent' => replies'[i] = 0
  <2>1. ConservedInv' => /\ (replies \in [Ids -> {0, 1}])'
                         /\ (\A i \in Ids : i > sent => replies[i] = 0)'
    BY AnsweredOnce, PTL
  <2> QED BY <2>1
<1>3. CASE Tick
  <2>1. UNCHANGED sent /\ \A i \in Ids : replies'[i] >= replies[i]
    BY <1>3, TickKeeps, AnswersStay
  <2> DEFINE S == {i \in Ids : replies[i] = 0 /\ replies'[i] = 1}
  <2>2. S \in SUBSET Port!Unanswered
    BY <1>1, <1>2, <2>1, ConstantTypes DEF Port!Unanswered, Ids
  <2>3. \A i \in Ids : replies'[i] = IF i \in S THEN 1 ELSE replies[i]
    BY <1>1, <1>2, <2>1
  <2>4. replies' = [i \in 1 .. MaxSend |-> IF i \in S THEN 1 ELSE replies[i]]
    BY <1>2, <2>3 DEF Ids
  <2>5. CASE S = {}
    <3>1. replies' = replies
      BY <1>1, <1>2, <2>3, <2>5
    <3> QED BY <2>1, <3>1 DEF Port!portVars
  <2>6. CASE S # {}
    <3> HIDE DEF S
    <3>1. Port!AnswerRequests
      BY <2>1, <2>2, <2>4, <2>6 DEF Port!AnswerRequests
    <3> QED BY <3>1 DEF Port!PortNext
  <2> QED BY <2>5, <2>6
<1>4. CASE Send
  <2>1. PICK a \in Addrs : \/ SendForwardedRead(a) \/ SendRead(a)
                           \/ SendCoalescedWrite(a) \/ SendWrite(a)
    BY <1>4 DEF Send
  <2>2. /\ sent < MaxSend /\ sent' = sent + 1
        /\ UNCHANGED replies \/ replies' = [replies EXCEPT ![sent + 1] = @ + 1]
    BY <2>1 DEF SendForwardedRead, SendCoalescedWrite, SendWrite, SendRead, Accept
  <2>3. sent + 1 \in Ids /\ replies[sent + 1] = 0
    BY <1>1, <2>2, ConstantTypes DEF Ids
  <2>4. Port!AcceptRequest
    <3>1. CASE UNCHANGED replies
      BY <2>2, <3>1 DEF Port!AcceptRequest
    <3>2. CASE replies' = [replies EXCEPT ![sent + 1] = @ + 1]
      <4>1. replies' = [replies EXCEPT ![sent + 1] = 1]
        BY <2>3, <3>2
      <4> QED BY <2>2, <4>1 DEF Port!AcceptRequest
    <3> QED BY <2>2, <3>1, <3>2
  <2> QED BY <2>4 DEF Port!PortNext
<1>5. CASE UNCHANGED vars
  BY <1>5 DEF vars, Port!portVars
<1> QED BY <1>3, <1>4, <1>5 DEF Next

(* The controller implements the port: it refines MemoryPort. What it      *)
(* accepts is answered at most once, and nothing else is answered.         *)
THEOREM PortImplemented == Spec => ImplementsPort
<1>1. Init => Port!PortInit
  BY DEF Init, Port!PortInit, Ids
<1>2. ConservedInv /\ ConservedInv' /\ [Next]_vars => [Port!PortNext]_Port!portVars
  BY PortStep
<1> QED BY <1>1, <1>2, ConservedInvariant, PTL DEF Spec, ImplementsPort, Port!PortSpec

-----------------------------------------------------------------------------
(* Marks. A bank stays marked only while its precharge is queued: the      *)
(* command that takes the precharge out of the queue is itself a closing   *)
(* command of that bank, which clears the mark. Only ClosedCAP marks.      *)
MarksInv ==
  /\ TypeOK /\ InjectedIsQueued
  /\ RowPolicy # "ClosedCAP" => \A b \in Banks : ~injected[b]

PrechargeOf(b) == [final |-> "PREpb", bank |-> b]

(* What is marked when the scheduling of a cycle begins is queued by then. *)
LEMMA MarksQueued ==
  ASSUME MarksInv, NEW inj \in Injections, NEW b \in Banks, InjectedNow(inj)[b]
  PROVE  /\ RowPolicy = "ClosedCAP"
         /\ \E k \in DOMAIN PriorityNow(inj) : PriorityNow(inj)[k] = PrechargeOf(b)
<1> DEFINE new == [k \in DOMAIN inj |-> PrechargeOf(inj[k])]
           old == PriorityRefreshed
<1>1. /\ priority \in Seq(Maintenance) /\ inj \in Seq(Banks)
      /\ injected[b] \/ \E k \in DOMAIN inj : inj[k] = b
  BY MaintenanceTypes DEF MarksInv, TypeOK, InjectedNow
<1>2. /\ Len(inj) \in Nat /\ DOMAIN inj = 1 .. Len(inj) /\ \A k \in 1 .. Len(inj) : inj[k] \in Banks
      /\ Len(priority) \in Nat /\ DOMAIN priority = 1 .. Len(priority)
  BY <1>1, LenProperties, ElementOfSeq
<1>3. new \in Seq(Maintenance) /\ Len(new) = Len(inj) /\ DOMAIN new = 1 .. Len(inj)
  BY <1>2 DEF Maintenance, PrechargeOf
<1>4. /\ old \in Seq(Maintenance) /\ Len(old) \in Nat /\ Len(old) >= Len(priority)
      /\ \A k \in 1 .. Len(priority) : old[k] = priority[k]
  <2>1. [final |-> "REFab", bank |-> 0] \in Maintenance
    BY ConstantTypes DEF Maintenance
  <2> DEFINE m == [final |-> "REFab", bank |-> 0]
  <2>2. /\ Append(priority, m) \in Seq(Maintenance) /\ Len(Append(priority, m)) = Len(priority) + 1
        /\ \A k \in 1 .. Len(priority) : Append(priority, m)[k] = priority[k]
    <3> HIDE DEF m
    <3> QED BY <1>1, <2>1, AppendProperties DEF m
  <2>3. old = priority \/ old = Append(priority, m)
    BY DEF PriorityRefreshed
  <2> HIDE DEF m, old
  <2> QED BY <1>1, <1>2, <2>2, <2>3
<1>5. PriorityNow(inj) = old \o new
  BY DEF PriorityNow, PrechargeOf
<1> HIDE DEF old
<1>6. /\ old \o new \in Seq(Maintenance) /\ Len(old \o new) = Len(old) + Len(inj)
      /\ \A k \in 1 .. Len(old) + Len(inj) :
           (old \o new)[k] = IF k <= Len(old) THEN old[k] ELSE new[k - Len(old)]
  <2> HIDE DEF new
  <2>1. /\ old \o new \in Seq(Maintenance) /\ Len(old \o new) = Len(old) + Len(new)
        /\ \A k \in 1 .. Len(old) + Len(new) :
             (old \o new)[k] = IF k <= Len(old) THEN old[k] ELSE new[k - Len(old)]
    BY <1>3, <1>4, ConcatProperties
  <2> QED BY ONLY <1>3, <2>1
<1>7. DOMAIN (old \o new) = 1 .. Len(old) + Len(inj)
  <2> HIDE DEF new
  <2> QED BY <1>6, LenProperties
<1>8. CASE injected[b]
  <2>1. PICK k \in 1 .. Len(priority) : priority[k] = PrechargeOf(b)
    BY <1>2, <1>8 DEF MarksInv, InjectedIsQueued, PrechargeOf
  <2>2. k \in 1 .. Len(old) + Len(inj) /\ (old \o new)[k] = PrechargeOf(b)
    <3> HIDE DEF new
    <3> QED BY <1>2, <1>4, <1>6, <2>1
  <2>3. RowPolicy = "ClosedCAP"
    BY <1>8 DEF MarksInv
  <2> QED BY <1>5, <1>7, <2>2, <2>3
<1>9. CASE \E k \in DOMAIN inj : inj[k] = b
  <2>1. PICK k \in 1 .. Len(inj) : inj[k] = b
    BY <1>2, <1>9
  <2>2. /\ Len(old) + k \in 1 .. Len(old) + Len(inj) /\ ~(Len(old) + k <= Len(old))
        /\ (Len(old) + k) - Len(old) = k /\ new[k] = PrechargeOf(b)
    BY <1>2, <1>4, <2>1
  <2>3. (old \o new)[Len(old) + k] = PrechargeOf(b)
    <3> HIDE DEF new
    <3> QED BY <1>6, <2>2
  <2>4. RowPolicy = "ClosedCAP"
    BY <1>2, <2>1 DEF Injections, Injects, WantsPrecharge, CapReached
  <2> QED BY <1>5, <1>7, <2>2, <2>3, <2>4
<1> QED BY <1>1, <1>8, <1>9

LEMMA MarksTick ==
  ASSUME MarksInv, NEW n \in 0 .. Len(pending), NEW inj \in Injections, NEW b \in Banks,
         TickActive(n, inj) \/ TickPriority(n, inj) \/ TickReadWrite(n, inj) \/ TickIdle(n, inj),
         injected'[b]
  PROVE  RowPolicy = "ClosedCAP" /\ \E k \in DOMAIN priority' : priority'[k] = PrechargeOf(b)
<1> DEFINE q == PriorityNow(inj)
<1>1. \A c, x, r : Issue(inj, c, x, r) =>
        InjectedNow(inj)[b] /\ (RowPolicy = "ClosedCAP" => ~(IsClosing(c) /\ b \in Targets(c, x)))
  BY DEF Issue, InjectedAfter, InjectedNow
<1>2. InjectedNow(inj)[b]
  BY <1>1 DEF TickActive, TickPriority, TickReadWrite, TickIdle
<1>3. RowPolicy = "ClosedCAP" /\ \E k \in DOMAIN q : q[k] = PrechargeOf(b)
  BY <1>2, MarksQueued
<1>4. CASE ~TickPriority(n, inj)
  <2>1. priority' = q
    BY <1>4 DEF TickActive, TickReadWrite, TickIdle
  <2> QED BY <1>3, <2>1
<1>5. CASE TickPriority(n, inj)
  <2> HIDE DEF q
  <2>1. /\ q # <<>> /\ Issue(inj, PriorityCommand(q), Head(q).bank, Closed)
        /\ priority' = IF PriorityCommand(q) = Head(q).final THEN Tail(q) ELSE q
    BY <1>5 DEF TickPriority, PriorityReady, q
  <2>2. q \in Seq(Maintenance)
    BY MaintenanceTypes DEF q, MarksInv
  <2>3. Head(q) # PrechargeOf(b)
    <3>1. SUFFICES ASSUME Head(q) = PrechargeOf(b) PROVE FALSE
      OBVIOUS
    <3>2. PriorityCommand(q) = "PREpb" /\ Head(q).bank = b
      BY <3>1 DEF PriorityCommand, PreqCommand, PrechargeOf
    <3>3. IsClosing("PREpb") /\ b \in Targets("PREpb", b)
      BY DEF IsClosing, Targets, TargetsAll
    <3> QED BY <1>1, <1>3, <2>1, <3>2, <3>3
  <2>4. PICK k \in DOMAIN q : q[k] = PrechargeOf(b)
    BY <1>3
  <2>5. /\ Len(q) \in Nat /\ DOMAIN q = 1 .. Len(q) /\ Head(q) = q[1]
        /\ Tail(q) \in Seq(Maintenance) /\ Len(Tail(q)) = Len(q) - 1
        /\ \A j \in 1 .. Len(q) - 1 : Tail(q)[j] = q[j + 1]
    BY <2>1, <2>2, HeadTailProperties, LenProperties
  <2>6. k - 1 \in DOMAIN Tail(q) /\ Tail(q)[k - 1] = PrechargeOf(b)
    <3>1. k # 1 /\ k \in 1 .. Len(q)
      BY <2>3, <2>4, <2>5
    <3>2. k - 1 \in 1 .. Len(q) - 1 /\ (k - 1) + 1 = k
      BY <2>5, <3>1
    <3>3. DOMAIN Tail(q) = 1 .. Len(q) - 1
      BY <2>5, LenProperties
    <3> QED BY <2>4, <2>5, <3>2, <3>3
  <2> QED BY <1>3, <2>1, <2>4, <2>6
<1> QED BY <1>4, <1>5

LEMMA MarksInductive == MarksInv /\ [Next]_vars => MarksInv'
<1> SUFFICES ASSUME MarksInv, [Next]_vars PROVE MarksInv'
  OBVIOUS
<1>1. TypeOK'
  BY TypeInductive DEF MarksInv
<1>2. CASE UNCHANGED <<injected, priority>>
  BY <1>1, <1>2 DEF MarksInv, InjectedIsQueued
<1>3. CASE Tick
  <2>1. PICK n \in 0 .. Len(pending) :
          \/ TickThrow(n)
          \/ \E inj \in Injections : \/ TickActive(n, inj) \/ TickPriority(n, inj)
                                     \/ TickReadWrite(n, inj) \/ TickIdle(n, inj)
    BY <1>3 DEF Tick
  <2>2. CASE TickThrow(n)
    BY <1>2, <2>2 DEF TickThrow
  <2>3. CASE ~TickThrow(n)
    <3>1. \A b \in Banks : injected'[b] =>
            RowPolicy = "ClosedCAP" /\ \E k \in DOMAIN priority' : priority'[k] = PrechargeOf(b)
      BY <2>1, <2>3, MarksTick
    <3> QED BY <1>1, <3>1 DEF MarksInv, InjectedIsQueued, PrechargeOf
  <2> QED BY <2>2, <2>3
<1>4. CASE Send
  BY <1>2, <1>4 DEF Send, SendForwardedRead, SendRead, SendCoalescedWrite, SendWrite, Accept, policyVars
<1>5. CASE UNCHANGED vars
  BY <1>2, <1>5 DEF vars, policyVars, queueVars
<1> QED BY <1>3, <1>4, <1>5 DEF Next

(* ClosedCAP never waits for a precharge that is not queued: a marked bank *)
(* has its precharge in the priority buffer, refused or not.               *)
THEOREM MarksBacked == Spec => []InjectedIsQueued
<1>1. Init => MarksInv
  BY TypeInitially DEF Init, MarksInv, InjectedIsQueued
<1>2. MarksInv => InjectedIsQueued
  BY DEF MarksInv
<1> QED BY <1>1, <1>2, MarksInductive, PTL DEF Spec

-----------------------------------------------------------------------------
(* The cap. A row that has reached it is closed by its next access, as the *)
(* upgraded command is ready when the plain one is: by AutoPreAssumption   *)
(* it never has to wait longer.                                            *)
ReadyAlike == \A b \in Banks : wait[b]["RDA"] <= wait[b]["RD"] /\ wait[b]["WRA"] <= wait[b]["WR"]

CapInv == TypeOK /\ (HasAutoPre => ReadyAlike) /\ CapBound

LEMMA LatencyTypes ==
  ASSUME NEW c \in Cmd, NEW n \in Cmd
  PROVE  RankLat[<<c, n>>] \in Nat /\ BankLat[<<c, n>>] \in Nat
BY DeviceAssumption

LEMMA AlikeAfter ==
  ASSUME CapInv, HasAutoPre
  PROVE  /\ \A b \in Banks : Elapsed[b]["RDA"] <= Elapsed[b]["RD"]
                          /\ Elapsed[b]["WRA"] <= Elapsed[b]["WR"]
         /\ \A c \in Cmd, b \in Banks : \A r : IssueCommand(Elapsed, c, b, r) => ReadyAlike'
<1>1. \A b \in Banks, n \in Cmd : wait[b][n] \in Nat /\ Elapsed[b][n] \in Nat
                               /\ Elapsed[b][n] = Larger(wait[b][n] - 1, 0)
  BY DEF CapInv, TypeOK, DeviceTypeOK, Elapsed, Larger
<1>2. {"RD", "RDA", "WR", "WRA"} \subseteq Cmd
  BY DEF Cmd
<1>3. \A b \in Banks : Elapsed[b]["RDA"] <= Elapsed[b]["RD"] /\ Elapsed[b]["WRA"] <= Elapsed[b]["WR"]
  BY <1>1, <1>2 DEF CapInv, ReadyAlike, Larger
<1>4. ASSUME NEW c \in Cmd, NEW b \in Banks, NEW r, IssueCommand(Elapsed, c, b, r), NEW x \in Banks,
             NEW n \in Cmd, NEW m \in Cmd, Elapsed[x][n] <= Elapsed[x][m],
             RankLat[<<c, n>>] <= RankLat[<<c, m>>], BankLat[<<c, n>>] <= BankLat[<<c, m>>]
      PROVE  wait'[x][n] <= wait'[x][m]
  <2>1. \A k \in Cmd : wait'[x][k] = Larger(Elapsed[x][k],
                          IF x \in Targets(c, b) THEN Larger(RankLat[<<c, k>>], BankLat[<<c, k>>])
                                                 ELSE RankLat[<<c, k>>])
    BY <1>4 DEF IssueCommand, UpdateTiming
  <2>2. /\ Elapsed[x][n] \in Nat /\ Elapsed[x][m] \in Nat
        /\ RankLat[<<c, n>>] \in Nat /\ BankLat[<<c, n>>] \in Nat
        /\ RankLat[<<c, m>>] \in Nat /\ BankLat[<<c, m>>] \in Nat
    BY <1>1, LatencyTypes
  <2> QED BY <1>4, <2>1, <2>2 DEF Larger
<1>5. ASSUME NEW c \in Cmd, NEW b \in Banks, NEW r, IssueCommand(Elapsed, c, b, r) PROVE ReadyAlike'
  <2>1. /\ RankLat[<<c, "RDA">>] <= RankLat[<<c, "RD">>] /\ BankLat[<<c, "RDA">>] <= BankLat[<<c, "RD">>]
        /\ RankLat[<<c, "WRA">>] <= RankLat[<<c, "WR">>] /\ BankLat[<<c, "WRA">>] <= BankLat[<<c, "WR">>]
    BY AutoPreAssumption
  <2>2. \A x \in Banks : wait'[x]["RDA"] <= wait'[x]["RD"] /\ wait'[x]["WRA"] <= wait'[x]["WR"]
    BY <1>2, <1>3, <1>4, <1>5, <2>1
  <2> QED BY <2>2 DEF ReadyAlike
<1> QED BY <1>3, <1>5

(* A command that is ready to issue leaves the bound, upgraded or not.     *)
LEMMA CapIssue ==
  ASSUME CapInv, TypeOK', NEW inj, NEW i \in Ids,
         CheckTiming(Elapsed, Command(i), BankOf(i)),
         Issue(inj, Upgrade(Command(i), BankOf(i)), BankOf(i), RowOf(i))
  PROVE  CapInv'
<1> DEFINE b == BankOf(i)
           c == Upgrade(Command(i), b)
<1>1. c \in Cmd /\ b \in Banks /\ Command(i) \in {"ACT", "PREpb", "RD", "WR"}
  BY UpgradeTypes, AddressTypes DEF CapInv
<1>2. HasAutoPre => ReadyAlike'
  BY <1>1, AlikeAfter DEF Issue
<1>3. ASSUME RowPolicy = "ClosedCAP", HasAutoPre, NEW x \in Banks PROVE colAccesses'[x] <= Cap
  <2>1. colAccesses[x] \in Nat /\ Cap \in Nat /\ colAccesses[x] <= Cap
    BY <1>3, ConstantTypes DEF CapInv, CapBound, TypeOK
  <2>2. colAccesses'[x] = AccessesAfter(c, b)[x]
    BY <1>3 DEF Issue
  <2>3. CASE x \notin Targets(c, b) \/ IsClosing(c) \/ ~IsAccessing(c)
    BY <2>1, <2>2, <2>3 DEF AccessesAfter
  <2>4. CASE x \in Targets(c, b) /\ ~IsClosing(c) /\ IsAccessing(c)
    <3>1. c \in {"RD", "WR"} /\ x = b
      BY <2>4 DEF IsClosing, IsAccessing, Targets, TargetsAll
    <3>2. c = Command(i)
      BY <1>1, <3>1 DEF Upgrade
    <3>3. Elapsed[b][Command(i)] = 0
      BY <3>1, <3>2 DEF CheckTiming, Targets, TargetsAll
    <3>4. Elapsed[b]["RDA"] \in Nat /\ Elapsed[b]["WRA"] \in Nat
      <4>1. \A n \in Cmd : wait[b][n] \in Nat /\ Elapsed[b][n] = Larger(wait[b][n] - 1, 0)
        BY <1>1 DEF Elapsed, CapInv, TypeOK, DeviceTypeOK
      <4>2. \A n \in Cmd : Elapsed[b][n] \in Nat
        BY <4>1 DEF Larger
      <4> QED BY <4>2 DEF Cmd
    <3>5. ~CapReached(b)
      <4>1. SUFFICES ASSUME CapReached(b) PROVE FALSE
        OBVIOUS
      <4>2. /\ Elapsed[b]["RDA"] <= Elapsed[b]["RD"] /\ Elapsed[b]["WRA"] <= Elapsed[b]["WR"]
        BY <1>1, <1>3, AlikeAfter
      <4>3. CASE c = "RD"
        <5>1. CheckTiming(Elapsed, "RDA", b)
          BY <3>2, <3>3, <3>4, <4>2, <4>3 DEF CheckTiming, Targets, TargetsAll
        <5> QED BY <1>3, <3>2, <4>1, <4>3, <5>1 DEF Upgrade
      <4>4. CASE c = "WR"
        <5>1. CheckTiming(Elapsed, "WRA", b)
          BY <3>2, <3>3, <3>4, <4>2, <4>4 DEF CheckTiming, Targets, TargetsAll
        <5> QED BY <1>3, <3>2, <4>1, <4>4, <5>1 DEF Upgrade
      <4> QED BY <3>1, <4>3, <4>4
    <3>6. colAccesses[x] < Cap
      BY <1>3, <2>1, <3>1, <3>5 DEF CapReached
    <3> QED BY <2>1, <2>2, <2>4, <3>6 DEF AccessesAfter
  <2> QED BY <2>3, <2>4
<1> QED BY <1>2, <1>3 DEF CapInv, CapBound

LEMMA CapTick == ASSUME CapInv, TypeOK', Tick PROVE CapInv'
<1>1. PICK n \in 0 .. Len(pending) :
        \/ TickThrow(n)
        \/ \E inj \in Injections : \/ TickActive(n, inj) \/ TickPriority(n, inj)
                                   \/ TickReadWrite(n, inj) \/ TickIdle(n, inj)
  BY DEF Tick
<1>2. ASSUME wait' = Elapsed, UNCHANGED colAccesses PROVE CapInv'
  <2>1. HasAutoPre => ReadyAlike'
    BY <1>2, AlikeAfter DEF ReadyAlike
  <2> QED BY <1>2, <2>1 DEF CapInv, CapBound
<1>3. ASSUME NEW inj, NEW i \in Ids, CheckTiming(Elapsed, Command(i), BankOf(i)),
             Issue(inj, Upgrade(Command(i), BankOf(i)), BankOf(i), RowOf(i))
      PROVE  CapInv'
  BY <1>3, CapIssue
<1>4. ASSUME NEW inj \in Injections, TickActive(n, inj) PROVE CapInv'
  <2>1. PICK k \in DOMAIN active :
          /\ CheckTiming(Elapsed, Command(active[k]), BankOf(active[k]))
          /\ Issue(inj, Upgrade(Command(active[k]), BankOf(active[k])), BankOf(active[k]),
                   RowOf(active[k]))
    BY <1>4 DEF TickActive, IsBest, ReadyActive, ReadyIn
  <2> QED BY <1>3, <2>1, BufferTypes DEF CapInv
<1>5. ASSUME NEW inj \in Injections, TickReadWrite(n, inj) PROVE CapInv'
  <2>1. PICK k \in DOMAIN ReadWriteBuf :
          /\ CheckTiming(Elapsed, Command(ReadWriteBuf[k]), BankOf(ReadWriteBuf[k]))
          /\ Issue(inj, Upgrade(Command(ReadWriteBuf[k]), BankOf(ReadWriteBuf[k])),
                   BankOf(ReadWriteBuf[k]), RowOf(ReadWriteBuf[k]))
    BY <1>5 DEF TickReadWrite, IsBest, ReadyReadWrite, ReadyIn
  <2>2. ReadWriteBuf[k] \in Ids
    BY <2>1, BufferTypes DEF CapInv, ReadWriteBuf
  <2> QED BY <1>3, <2>1, <2>2
<1>6. ASSUME NEW inj \in Injections, TickPriority(n, inj) PROVE CapInv'
  <2> DEFINE q == PriorityNow(inj)
             c == PriorityCommand(q)
  <2>1. q # <<>> /\ Issue(inj, c, Head(q).bank, Closed)
    BY <1>6 DEF TickPriority, PriorityReady
  <2>2. Head(q).bank \in Banks /\ c \in {"PREpb", "PREab", "REFab"}
    <3>1. q \in Seq(Maintenance)
      BY MaintenanceTypes DEF CapInv
    <3> HIDE DEF q
    <3>2. Head(q) \in Maintenance
      BY <2>1, <3>1, HeadTailProperties
    <3> QED BY <3>2 DEF Maintenance, PriorityCommand, PreqCommand
  <2> HIDE DEF q, c
  <2>3. HasAutoPre => ReadyAlike'
    BY <2>1, <2>2, AlikeAfter DEF Issue, Cmd
  <2>4. ASSUME RowPolicy = "ClosedCAP", HasAutoPre, NEW x \in Banks PROVE colAccesses'[x] <= Cap
    <3>1. colAccesses[x] \in Nat /\ Cap \in Nat /\ colAccesses[x] <= Cap
      BY <2>4, ConstantTypes DEF CapInv, CapBound, TypeOK
    <3>2. colAccesses'[x] \in {colAccesses[x], 0}
      BY <2>1, <2>2, <2>4 DEF Issue, AccessesAfter, IsClosing, IsAccessing
    <3> QED BY <3>1, <3>2
  <2> QED BY <2>3, <2>4 DEF CapInv, CapBound
<1> QED BY <1>1, <1>2, <1>4, <1>5, <1>6 DEF TickThrow, TickIdle

LEMMA CapInductive == CapInv /\ [Next]_vars => CapInv'
<1> SUFFICES ASSUME CapInv, [Next]_vars PROVE CapInv'
  OBVIOUS
<1>1. TypeOK'
  BY TypeInductive DEF CapInv
<1>2. CASE UNCHANGED <<wait, colAccesses>>
  BY <1>1, <1>2 DEF CapInv, CapBound, ReadyAlike
<1>3. CASE Send
  BY <1>2, <1>3 DEF Send, SendForwardedRead, SendRead, SendCoalescedWrite, SendWrite, Accept,
                    deviceVars, policyVars
<1>4. CASE UNCHANGED vars
  BY <1>2, <1>4 DEF vars, deviceVars, policyVars
<1> QED BY <1>1, <1>3, <1>4, CapTick DEF Next

(* ClosedCAP with auto-precharge never lets a row stay open for more       *)
(* accesses than its cap, whatever the timing, as long as RDA and WRA wait *)
(* for nothing that RD and WR do not wait for.                             *)
THEOREM CapHeld == Spec => []CapBound
<1>1. Init => CapInv
  <2> SUFFICES ASSUME Init PROVE CapInv
    OBVIOUS
  <2>1. \A b \in Banks, n \in Cmd : wait[b][n] = 0
    BY DEF Init, DeviceInit
  <2>2. ReadyAlike
    BY <2>1 DEF ReadyAlike, Cmd
  <2>3. CapBound
    BY ConstantTypes DEF Init, CapBound
  <2> QED BY <2>2, <2>3, TypeInitially DEF CapInv
<1>2. CapInv => CapBound
  BY DEF CapInv
<1> QED BY <1>1, <1>2, CapInductive, PTL DEF Spec
-----------------------------------------------------------------------------
(* Refreshes in time. Once a refresh is queued no request is promoted any  *)
(* more, so the commands before it are counted: the accesses of the active *)
(* requests, the precharges queued before it, and one precharge of all     *)
(* banks. Each follows the one before it within the longest latency, as    *)
(* nothing else is issued meanwhile. What the interval has to allow for is *)
(* this work, and the waits left when the refresh falls due.               *)
RefreshSlack(L, M) ==
  /\ L \in Nat \ {0} /\ M \in Nat /\ L <= M
  /\ \A c, n \in Cmd : LET bound == IF c = "REFab" THEN M ELSE L
                       IN  RankLat[<<c, n>>] <= bound /\ BankLat[<<c, n>>] <= bound
  /\ NBanks < PrioritySize /\ (RowPolicy = "ClosedCAP" => Cap > 0)
  /\ NREFI # 0 => M + (2 * NBanks + 1) * (L + 1) <= NREFI

IsRefresh(m)   == m.final = "REFab"
IsPrecharge(m) == m.final = "PREpb"

WaitsWithin(m) == \A b \in Banks, c \in Cmd : wait[b][c] <= m
AnyOpen == IF \E b \in Banks : open[b] # Closed THEN 1 ELSE 0
WorkBefore(p) == Len(active) + (p - 1) + AnyOpen

(* A queue holds one refresh, and one precharge of a bank; when its mark   *)
(* is gone before it is issued the bank has been closed by another, and is *)
(* not opened while it is queued, so that it is not queued again.          *)
QueueOK(q, marks) ==
  /\ \A j, k \in DOMAIN q : IsRefresh(q[j]) /\ IsRefresh(q[k]) => j = k
  /\ \A j, k \in DOMAIN q : IsPrecharge(q[j]) /\ IsPrecharge(q[k]) /\ q[j].bank = q[k].bank => j = k
  /\ \A j \in DOMAIN q : IsPrecharge(q[j]) /\ ~marks[q[j].bank] =>
       ~HasActive(q[j].bank) /\ colAccesses[q[j].bank] = 0

(* The queue's refresh is at the end of its work before refreshIn cycles.  *)
InTime(q, L, left) ==
  \A p \in DOMAIN q : IsRefresh(q[p]) =>
    NREFI # 0 /\ \E m \in Nat \ {0} : WaitsWithin(m) /\ m + WorkBefore(p) * (L + 1) <= left

Refreshing(L, M) ==
  /\ ~failed
  /\ WaitsWithin(M) /\ Len(active) <= NBanks
  /\ QueueOK(priority, injected)
  /\ InTime(priority, L, refreshIn - 1)

LEMMA WaitTypes ==
  ASSUME TypeOK, NEW b \in Banks, NEW c \in Cmd
  PROVE  wait[b][c] \in Nat /\ Elapsed[b][c] = (IF wait[b][c] >= 1 THEN wait[b][c] - 1 ELSE 0)
             /\ Elapsed[b][c] \in Nat
<1>1. wait[b][c] \in Nat
  BY DEF TypeOK, DeviceTypeOK
<1> QED BY <1>1 DEF Elapsed, Larger

LEMMA CommandTypes ==
  ASSUME TypeOK
  PROVE  /\ DOMAIN active = 1 .. Len(active) /\ Len(active) \in Nat
         /\ DOMAIN priority = 1 .. Len(priority) /\ Len(priority) \in Nat
         /\ \A k \in 1 .. Len(priority) : priority[k] \in Maintenance
         /\ \A m \in Maintenance : m.bank \in Banks /\ (IsRefresh(m) \/ IsPrecharge(m))
                /\ ~(IsRefresh(m) /\ IsPrecharge(m))
         /\ AnyOpen \in {0, 1}
<1>1. active \in Seq(Ids) /\ priority \in Seq(Maintenance)
  BY DEF TypeOK
<1>2. \A m \in Maintenance : m.bank \in Banks /\ (IsRefresh(m) \/ IsPrecharge(m))
          /\ ~(IsRefresh(m) /\ IsPrecharge(m))
  BY DEF Maintenance, IsRefresh, IsPrecharge
<1>3. AnyOpen \in {0, 1}
  BY DEF AnyOpen
<1> QED BY <1>1, <1>2, <1>3, LenProperties, ElementOfSeq

(* A product is not more when a factor is not.                             *)
LEMMA WorkTimes ==
  ASSUME NEW v \in Nat, NEW w \in Nat, NEW n \in Nat, v <= w
  PROVE  v * n <= w * n /\ v * n \in Nat /\ w * n \in Nat
OBVIOUS

LEMMA WorkLess ==
  ASSUME NEW v \in Nat, NEW w \in Nat, NEW n \in Nat, v < w
  PROVE  v * n + n <= w * n /\ v * n \in Nat /\ w * n \in Nat
<1>1. (v + 1) * n <= w * n
  <2>1. v + 1 \in Nat /\ v + 1 <= w OBVIOUS
  <2> QED BY <2>1, WorkTimes
<1>2. (v + 1) * n = v * n + n
  OBVIOUS
<1> QED BY <1>1, <1>2, WorkTimes

(* Distinct banks are no more than there are.                              *)
LEMMA DistinctBanks ==
  ASSUME NEW n \in Nat, NEW q, \A k \in 1 .. n : q[k].bank \in Banks,
         \A j, k \in 1 .. n : q[j].bank = q[k].bank => j = k
  PROVE  n <= NBanks
<1> DEFINE f == [k \in 1 .. n |-> q[k].bank]
<1>1. f \in Injection(1 .. n, Banks)
  BY DEF Injection, IsInjective
<1>2. IsFiniteSet(Banks) /\ Cardinality(Banks) = NBanks
  BY FS_Interval, ConstantTypes DEF Banks
<1>3. Cardinality(1 .. n) = n
  BY FS_Interval
<1>4. Cardinality(1 .. n) <= Cardinality(Banks)
  <2> HIDE DEF f
  <2> QED BY <1>1, <1>2, FS_Injection
<1> QED BY <1>2, <1>3, <1>4

(* The queue of a cycle: what was there, the refresh if it is due, and the *)
(* precharges that are injected.                                           *)
LEMMA QueueShape ==
  ASSUME TypeOK, NEW inj \in Injections
  PROVE  LET q == PriorityNow(inj)
             n == Len(priority)
             d == IF RefreshDue THEN 1 ELSE 0
         IN  /\ n \in Nat /\ Len(inj) \in Nat /\ Len(q) = n + d + Len(inj)
                    /\ DOMAIN q = 1 .. n + d + Len(inj)
             /\ q \in Seq(Maintenance)
             /\ \A k \in 1 .. n : q[k] = priority[k]
             /\ RefreshDue => IsRefresh(q[n + 1])
             /\ \A k \in 1 .. Len(inj) : /\ q[n + d + k] = PrechargeOf(inj[k])
                                         /\ inj[k] \in Banks /\ WantsPrecharge(inj[k])
             /\ \A j, k \in 1 .. Len(inj) : inj[j] = inj[k] => j = k
<1> DEFINE new == [k \in DOMAIN inj |-> PrechargeOf(inj[k])]
           old == PriorityRefreshed
           n == Len(priority)
           d == IF RefreshDue THEN 1 ELSE 0
           m == [final |-> "REFab", bank |-> 0]
<1>1. priority \in Seq(Maintenance) /\ inj \in Seq(Banks) /\ Injects(inj) /\ n \in Nat /\ d \in {0, 1}
  BY MaintenanceTypes, LenProperties DEF TypeOK, Injections
<1>2. /\ Len(inj) \in Nat /\ DOMAIN inj = 1 .. Len(inj) /\ \A k \in 1 .. Len(inj) : inj[k] \in Banks
  BY <1>1, LenProperties, ElementOfSeq
<1>3. new \in Seq(Maintenance) /\ Len(new) = Len(inj)
          /\ \A k \in 1 .. Len(inj) : new[k] = PrechargeOf(inj[k])
  BY <1>2 DEF Maintenance, PrechargeOf
<1>4. m \in Maintenance /\ IsRefresh(m)
  BY ConstantTypes DEF Maintenance, IsRefresh
<1>5. PriorityNow(inj) = old \o new /\ old = IF RefreshDue THEN Append(priority, m) ELSE priority
  BY DEF PriorityNow, PrechargeOf, PriorityRefreshed
<1> HIDE DEF new, old, m
<1>6. /\ old \in Seq(Maintenance) /\ Len(old) = n + d /\ \A k \in 1 .. n : old[k] = priority[k]
      /\ RefreshDue => old[n + 1] = m
  BY <1>1, <1>4, <1>5, AppendProperties
<1> HIDE DEF n, d
<1>7. /\ old \o new \in Seq(Maintenance) /\ Len(old \o new) = (n + d) + Len(inj)
      /\ \A k \in 1 .. (n + d) + Len(inj) :
           (old \o new)[k] = IF k <= n + d THEN old[k] ELSE new[k - (n + d)]
  BY <1>3, <1>6, ConcatProperties
<1>8. \A k \in 1 .. n : (old \o new)[k] = priority[k]
  BY <1>1, <1>2, <1>6, <1>7
<1>9. RefreshDue => (old \o new)[n + 1] = m
  BY <1>1, <1>2, <1>6, <1>7 DEF d
<1>10. \A k \in 1 .. Len(inj) : (old \o new)[n + d + k] = PrechargeOf(inj[k])
  <2> SUFFICES ASSUME NEW k \in 1 .. Len(inj) PROVE (old \o new)[n + d + k] = PrechargeOf(inj[k])
    OBVIOUS
  <2>1. n + d + k \in 1 .. (n + d) + Len(inj) /\ ~(n + d + k <= n + d) /\ (n + d + k) - (n + d) = k
    BY <1>1, <1>2
  <2> QED BY <1>3, <1>7, <2>1
<1>11. \A k \in 1 .. Len(inj) : WantsPrecharge(inj[k])
  BY <1>1, <1>2 DEF Injects
<1>12. \A j, k \in 1 .. Len(inj) : inj[j] = inj[k] => j = k
  <2> SUFFICES ASSUME NEW j \in 1 .. Len(inj), NEW k \in 1 .. Len(inj), inj[j] = inj[k], j < k
               PROVE FALSE
    BY <1>2
  <2>1. inj[j] < inj[k]
    BY <1>1, <1>2 DEF Injects
  <2>2. inj[j] \in Int
    BY <1>2 DEF Banks
  <2> QED BY <2>1, <2>2
<1>13. DOMAIN (old \o new) = 1 .. (n + d) + Len(inj)
  BY <1>7, LenProperties
<1> QED BY <1>1, <1>2, <1>4, <1>5, <1>7, <1>8, <1>9, <1>10, <1>11, <1>12, <1>13 DEF n, d

(* A refresh is queued only when the one before has been carried out, and  *)
(* there is room for it.                                                   *)
LEMMA DueFinds ==
  ASSUME TypeOK, NEW L, NEW M, RefreshSlack(L, M), Refreshing(L, M), RefreshDue
  PROVE  /\ \A k \in 1 .. Len(priority) : IsPrecharge(priority[k])
         /\ Len(priority) <= NBanks /\ ~RefreshFails
<1>1. refreshIn = 1 /\ DOMAIN priority = 1 .. Len(priority) /\ Len(priority) \in Nat
  BY CommandTypes DEF RefreshDue
<1>2. \A k \in 1 .. Len(priority) : priority[k].bank \in Banks /\ IsPrecharge(priority[k])
  <2> SUFFICES ASSUME NEW p \in 1 .. Len(priority), IsRefresh(priority[p]) PROVE FALSE
    BY CommandTypes
  <2>1. PICK m \in Nat \ {0} : m + WorkBefore(p) * (L + 1) <= 0
    BY <1>1 DEF Refreshing, InTime
  <2>2. WorkBefore(p) \in Nat /\ L + 1 \in Nat
    BY CommandTypes DEF WorkBefore, RefreshSlack
  <2>3. WorkBefore(p) * (L + 1) \in Nat
    BY <2>2
  <2> QED BY <2>1, <2>3
<1>3. \A j, k \in 1 .. Len(priority) : priority[j].bank = priority[k].bank => j = k
  BY <1>1, <1>2 DEF Refreshing, QueueOK
<1>4. Len(priority) <= NBanks
  BY <1>1, <1>2, <1>3, DistinctBanks
<1> QED BY <1>1, <1>2, <1>4, ConstantTypes DEF RefreshFails, RefreshSlack

LEMMA QueueNow ==
  ASSUME TypeOK, NEW L, NEW M, RefreshSlack(L, M), Refreshing(L, M), NEW inj \in Injections
  PROVE  QueueOK(PriorityNow(inj), InjectedNow(inj))
<1> DEFINE q == PriorityNow(inj)
           n == Len(priority)
           d == IF RefreshDue THEN 1 ELSE 0
<1>1. /\ n \in Nat /\ Len(inj) \in Nat /\ DOMAIN q = 1 .. n + d + Len(inj)
      /\ \A k \in 1 .. n : q[k] = priority[k]
      /\ RefreshDue => IsRefresh(q[n + 1])
      /\ \A k \in 1 .. Len(inj) : /\ q[n + d + k] = PrechargeOf(inj[k])
                                  /\ inj[k] \in Banks /\ WantsPrecharge(inj[k])
      /\ \A j, k \in 1 .. Len(inj) : inj[j] = inj[k] => j = k
  BY QueueShape
<1> HIDE DEF q
<1>2. \A k \in 1 .. n : priority[k] \in Maintenance
  BY CommandTypes
<1>3. d \in {0, 1} /\ (d = 1 <=> RefreshDue)
  OBVIOUS
<1> DEFINE I(k) == k \in n + d + 1 .. n + d + Len(inj)
<1>4. \A k \in DOMAIN q : k \in 1 .. n \/ (RefreshDue /\ k = n + 1) \/ I(k)
  BY <1>1, <1>3
<1>5. ASSUME NEW k, I(k)
      PROVE  /\ k - (n + d) \in 1 .. Len(inj) /\ q[k] = PrechargeOf(inj[k - (n + d)])
             /\ q[k].bank = inj[k - (n + d)] /\ IsPrecharge(q[k]) /\ ~IsRefresh(q[k])
  <2>1. k - (n + d) \in 1 .. Len(inj) /\ n + d + (k - (n + d)) = k
    BY <1>1, <1>3, <1>5
  <2>2. q[k] = PrechargeOf(inj[k - (n + d)])
    BY <1>1, <2>1
  <2> QED BY <2>1, <2>2 DEF PrechargeOf, IsPrecharge, IsRefresh
<1>6. ASSUME NEW k \in DOMAIN q, k = n + 1, RefreshDue PROVE ~IsPrecharge(q[k])
  BY <1>1, <1>6 DEF IsRefresh, IsPrecharge
<1>7. RefreshDue => \A k \in 1 .. n : ~IsRefresh(q[k])
  BY <1>1, <1>2, DueFinds, CommandTypes
<1>8. ASSUME NEW k, I(k) PROVE WantsPrecharge(q[k].bank) /\ InjectedNow(inj)[q[k].bank]
  <2>1. k - (n + d) \in DOMAIN inj
    <3>1. DOMAIN inj = 1 .. Len(inj)
      BY MaintenanceTypes, LenProperties
    <3> QED BY <1>5, <1>8, <3>1
  <2> QED BY <1>1, <1>5, <1>8, <2>1 DEF InjectedNow
(* An injected precharge is for a bank that has none queued.               *)
<1>9. ASSUME NEW j \in 1 .. n, NEW k, I(k), IsPrecharge(q[j]), q[j].bank = q[k].bank PROVE FALSE
  <2>1. ~injected[q[j].bank] /\ colAccesses[q[j].bank] >= Cap /\ RowPolicy = "ClosedCAP"
    BY <1>8, <1>9 DEF WantsPrecharge, CapReached
  <2>2. colAccesses[q[j].bank] = 0
    BY <1>1, <1>9, <2>1, CommandTypes DEF Refreshing, QueueOK
  <2> QED BY <2>1, <2>2, ConstantTypes DEF RefreshSlack
<1>10. \A j, k \in DOMAIN q : IsRefresh(q[j]) /\ IsRefresh(q[k]) => j = k
  <2> SUFFICES ASSUME NEW j \in DOMAIN q, NEW k \in DOMAIN q, IsRefresh(q[j]), IsRefresh(q[k])
               PROVE j = k
    OBVIOUS
  <2>1. ~I(j) /\ ~I(k)
    BY <1>5
  <2>2. CASE RefreshDue
    BY <1>4, <1>7, <2>1, <2>2
  <2>3. CASE ~RefreshDue
    <3>1. j \in 1 .. n /\ k \in 1 .. n
      BY <1>4, <2>1, <2>3
    <3> QED BY <1>1, <3>1, CommandTypes DEF Refreshing, QueueOK
  <2> QED BY <2>2, <2>3
<1>11. \A j, k \in DOMAIN q : IsPrecharge(q[j]) /\ IsPrecharge(q[k]) /\ q[j].bank = q[k].bank => j = k
  <2> SUFFICES ASSUME NEW j \in DOMAIN q, NEW k \in DOMAIN q, IsPrecharge(q[j]), IsPrecharge(q[k]),
                      q[j].bank = q[k].bank
               PROVE  j = k
    OBVIOUS
  <2>1. (j \in 1 .. n \/ I(j)) /\ (k \in 1 .. n \/ I(k))
    BY <1>4, <1>6
  <2>2. CASE j \in 1 .. n /\ k \in 1 .. n
    BY <1>1, <2>2, CommandTypes DEF Refreshing, QueueOK
  <2>3. CASE I(j) /\ I(k)
    <3>1. j - (n + d) = k - (n + d)
      BY <1>1, <1>5, <2>3
    <3> QED BY <1>1, <1>3, <2>3, <3>1
  <2> QED BY <1>9, <2>1, <2>2, <2>3
<1>12. \A j \in DOMAIN q : IsPrecharge(q[j]) /\ ~InjectedNow(inj)[q[j].bank] =>
         ~HasActive(q[j].bank) /\ colAccesses[q[j].bank] = 0
  <2> SUFFICES ASSUME NEW j \in DOMAIN q, IsPrecharge(q[j]), ~InjectedNow(inj)[q[j].bank]
               PROVE  ~HasActive(q[j].bank) /\ colAccesses[q[j].bank] = 0
    OBVIOUS
  <2>1. j \in 1 .. n
    BY <1>4, <1>6, <1>8
  <2>2. q[j].bank \in Banks
    BY <1>1, <1>2, <2>1, CommandTypes
  <2>3. ~injected[q[j].bank]
    BY <2>2 DEF InjectedNow
  <2> QED BY <1>1, <2>1, <2>3, CommandTypes DEF Refreshing, QueueOK
<1> QED BY <1>10, <1>11, <1>12 DEF QueueOK, q

(* The work fits in what is left of the interval, for a refresh that was   *)
(* queued before and for one that is queued now.                           *)
LEMMA BudgetNow ==
  ASSUME TypeOK, NEW L, NEW M, RefreshSlack(L, M), Refreshing(L, M), NEW inj \in Injections
  PROVE  InTime(PriorityNow(inj), L, RefreshInNow)
<1> DEFINE q == PriorityNow(inj)
           n == Len(priority)
           d == IF RefreshDue THEN 1 ELSE 0
<1>1. /\ n \in Nat /\ Len(inj) \in Nat /\ DOMAIN q = 1 .. n + d + Len(inj)
      /\ \A k \in 1 .. n : q[k] = priority[k]
      /\ RefreshDue => IsRefresh(q[n + 1])
      /\ \A k \in 1 .. Len(inj) : q[n + d + k] = PrechargeOf(inj[k])
  BY QueueShape
<1> HIDE DEF q
<1> SUFFICES ASSUME NEW p \in DOMAIN q, IsRefresh(q[p])
             PROVE  NREFI # 0 /\ \E m \in Nat \ {0} : WaitsWithin(m)
                        /\ m + WorkBefore(p) * (L + 1) <= RefreshInNow
  BY DEF InTime, q
<1>2. d \in {0, 1} /\ (d = 1 <=> RefreshDue)
  OBVIOUS
<1>3. p \in 1 .. n \/ (RefreshDue /\ p = n + 1)
  <2> SUFFICES ASSUME p \in n + d + 1 .. n + d + Len(inj) PROVE FALSE
    BY <1>1, <1>2
  <2>1. p - (n + d) \in 1 .. Len(inj) /\ n + d + (p - (n + d)) = p
    BY <1>1, <1>2
  <2>2. q[p] = PrechargeOf(inj[p - (n + d)])
    BY <1>1, <2>1
  <2> QED BY <2>2 DEF PrechargeOf, IsRefresh
<1>4. CASE p \in 1 .. n
  <2>1. IsRefresh(priority[p]) /\ p \in DOMAIN priority
    BY <1>1, <1>4, CommandTypes
  <2>2. ~RefreshDue
    BY <1>4, <2>1, DueFinds, CommandTypes
  <2>3. NREFI # 0 /\ \E m \in Nat \ {0} : WaitsWithin(m) /\ m + WorkBefore(p) * (L + 1) <= refreshIn - 1
    BY <2>1 DEF Refreshing, InTime
  <2>4. RefreshInNow = refreshIn - 1
    BY <2>2, <2>3 DEF RefreshInNow
  <2> QED BY <2>3, <2>4
<1>5. CASE RefreshDue /\ p = n + 1
  <2>1. Len(priority) <= NBanks
    BY <1>5, DueFinds
  <2>2. WorkBefore(p) \in Nat /\ WorkBefore(p) <= 2 * NBanks + 1 /\ 2 * NBanks + 1 \in Nat
    BY <1>1, <1>5, <2>1, CommandTypes, ConstantTypes DEF WorkBefore, Refreshing
  <2>3. L + 1 \in Nat /\ M \in Nat \ {0} /\ WaitsWithin(M)
    BY DEF RefreshSlack, Refreshing
  <2>4. WorkBefore(p) * (L + 1) <= (2 * NBanks + 1) * (L + 1)
        /\ WorkBefore(p) * (L + 1) \in Nat /\ (2 * NBanks + 1) * (L + 1) \in Nat
    BY <2>2, <2>3, WorkTimes
  <2>5. NREFI # 0 /\ RefreshInNow = NREFI
    BY <1>5 DEF RefreshDue, RefreshInNow
  <2>6. M + (2 * NBanks + 1) * (L + 1) <= NREFI
    BY <2>5 DEF RefreshSlack
  <2>7. M + WorkBefore(p) * (L + 1) <= RefreshInNow
    BY <2>3, <2>4, <2>5, <2>6, ConstantTypes
  <2> QED BY <2>3, <2>5, <2>7
<1> QED BY <1>3, <1>4, <1>5

(* A command leaves waits no longer than its latency and what remained.    *)
LEMMA IssueWaits ==
  ASSUME TypeOK, NEW c \in Cmd, NEW b, NEW r, NEW inj, Issue(inj, c, b, r), NEW K \in Nat,
         \A n \in Cmd : RankLat[<<c, n>>] <= K /\ BankLat[<<c, n>>] <= K,
         NEW m \in Nat \ {0}, WaitsWithin(m)
  PROVE  WaitsWithin(Larger(m - 1, K))'
<1>1. wait' = UpdateTiming(Elapsed, c, b)
  BY DEF Issue, IssueCommand
<1> SUFFICES ASSUME NEW x \in Banks, NEW n \in Cmd PROVE wait'[x][n] <= Larger(m - 1, K)
  BY DEF WaitsWithin
<1>2. Elapsed[x][n] \in Nat /\ Elapsed[x][n] <= m - 1
  BY WaitTypes DEF WaitsWithin
<1>3. RankLat[<<c, n>>] \in Nat /\ BankLat[<<c, n>>] \in Nat
  BY DeviceAssumption
<1>4. wait'[x][n] = Larger(Elapsed[x][n], IF x \in Targets(c, b)
                                          THEN Larger(RankLat[<<c, n>>], BankLat[<<c, n>>])
                                          ELSE RankLat[<<c, n>>])
  BY <1>1 DEF UpdateTiming
<1> QED BY <1>2, <1>3, <1>4 DEF Larger

(* The mark and the count of a bank after a command.                       *)
LEMMA IssueMarks ==
  ASSUME TypeOK, NEW c \in Cmd, NEW b \in Banks, NEW r, NEW inj \in Injections, Issue(inj, c, b, r),
         NEW x \in Banks, ~injected'[x]
  PROVE  \/ IsClosing(c) /\ x \in Targets(c, b) /\ colAccesses'[x] = 0
         \/ /\ ~InjectedNow(inj)[x]
            /\ colAccesses'[x] \in {colAccesses[x], 0} \/ (IsAccessing(c) /\ x = b)
<1>1. CASE RowPolicy = "ClosedCAP"
  <2>1. colAccesses' = AccessesAfter(c, b) /\ injected' = InjectedAfter(inj, c, b)
    BY <1>1 DEF Issue
  <2>2. ~InjectedNow(inj)[x] \/ (IsClosing(c) /\ x \in Targets(c, b))
    BY <2>1 DEF InjectedAfter
  <2>3. IsAccessing(c) => Targets(c, b) = {b}
    BY DEF IsAccessing, Targets, TargetsAll
  <2> QED BY <2>1, <2>2, <2>3 DEF AccessesAfter
<1>2. CASE RowPolicy # "ClosedCAP"
  <2>1. UNCHANGED <<colAccesses, injected>>
    BY <1>2 DEF Issue
  <2>2. DOMAIN inj = {}
    <3>1. \A k \in DOMAIN inj : WantsPrecharge(inj[k])
      BY DEF Injections, Injects
    <3> QED BY <1>2, <3>1 DEF WantsPrecharge, CapReached
  <2>3. ~InjectedNow(inj)[x]
    BY <2>1, <2>2 DEF InjectedNow
  <2> QED BY <2>1, <2>3
<1> QED BY <1>1, <1>2

(* What a cycle has to leave of the queue q and the marks for the queue to *)
(* stay in order: the commands in it are issued from its head only.        *)
GivesWay(q, marks) ==
  /\ priority' \in {q, Tail(q)}
  /\ \A x \in Banks : ~injected'[x] =>
       \/ ~HasActive(x)' /\ colAccesses'[x] = 0
       \/ ~marks[x] /\ (~HasActive(x) /\ colAccesses[x] = 0 => ~HasActive(x)' /\ colAccesses'[x] = 0)

LEMMA QueueKept ==
  ASSUME NEW q \in Seq(Maintenance), q # <<>>, NEW marks, QueueOK(q, marks), GivesWay(q, marks)
  PROVE  QueueOK(priority, injected)'
<1>1. /\ Len(q) \in Nat \ {0} /\ DOMAIN q = 1 .. Len(q) /\ \A k \in 1 .. Len(q) : q[k] \in Maintenance
  BY LenProperties, ElementOfSeq, EmptySeq
<1>2. PICK s \in {0, 1} : /\ DOMAIN priority' = 1 .. Len(q) - s
                          /\ \A k \in 1 .. Len(q) - s : priority'[k] = q[k + s]
  <2>1. CASE priority' = q
    <3>1. /\ DOMAIN priority' = 1 .. Len(q) - 0
          /\ \A k \in 1 .. Len(q) - 0 : priority'[k] = q[k + 0]
      BY <1>1, <2>1
    <3> QED BY <3>1
  <2>2. CASE priority' = Tail(q)
    <3>1. Len(Tail(q)) = Len(q) - 1 /\ Tail(q) \in Seq(Maintenance)
          /\ \A k \in 1 .. Len(Tail(q)) : Tail(q)[k] = q[k + 1]
      BY <1>1, HeadTailProperties
    <3>2. /\ DOMAIN priority' = 1 .. Len(q) - 1
          /\ \A k \in 1 .. Len(q) - 1 : priority'[k] = q[k + 1]
      BY <2>2, <3>1, LenProperties
    <3> QED BY <3>2
  <2> QED BY <2>1, <2>2 DEF GivesWay
<1>3. \A k \in DOMAIN priority' : k + s \in DOMAIN q /\ priority'[k] = q[k + s]
          /\ k \in Int /\ q[k + s] \in Maintenance
  BY <1>1, <1>2
<1>4. \A j, k \in DOMAIN priority' : IsRefresh(priority'[j]) /\ IsRefresh(priority'[k]) => j = k
  <2> SUFFICES ASSUME NEW j \in DOMAIN priority', NEW k \in DOMAIN priority',
                      IsRefresh(priority'[j]), IsRefresh(priority'[k])
               PROVE  j = k
    OBVIOUS
  <2>1. j + s = k + s
    BY <1>3 DEF QueueOK
  <2> QED BY <1>2, <1>3, <2>1
<1>5. \A j, k \in DOMAIN priority' :
        IsPrecharge(priority'[j]) /\ IsPrecharge(priority'[k])
            /\ priority'[j].bank = priority'[k].bank => j = k
  <2> SUFFICES ASSUME NEW j \in DOMAIN priority', NEW k \in DOMAIN priority',
                      IsPrecharge(priority'[j]), IsPrecharge(priority'[k]),
                      priority'[j].bank = priority'[k].bank
               PROVE  j = k
    OBVIOUS
  <2>1. j + s = k + s
    BY <1>3 DEF QueueOK
  <2> QED BY <1>2, <1>3, <2>1
<1>6. ASSUME NEW j \in DOMAIN priority', IsPrecharge(priority'[j]), ~injected'[priority'[j].bank],
             NEW x, x = priority'[j].bank
      PROVE  ~HasActive(x)' /\ colAccesses'[x] = 0
  <2>1. x \in Banks /\ q[j + s].bank = x /\ IsPrecharge(q[j + s]) /\ j + s \in DOMAIN q /\ ~injected'[x]
    BY <1>3, <1>6 DEF Maintenance
  <2>2. ~marks[x] => ~HasActive(x) /\ colAccesses[x] = 0
    BY <2>1 DEF QueueOK
  <2> QED BY <2>1, <2>2 DEF GivesWay
<1>7. (\A j \in DOMAIN priority : IsPrecharge(priority[j]) /\ ~injected[priority[j].bank] =>
         ~HasActive(priority[j].bank) /\ colAccesses[priority[j].bank] = 0)'
  <2> SUFFICES ASSUME NEW j \in DOMAIN priority', IsPrecharge(priority'[j]),
          ~injected'[priority'[j].bank]
               PROVE  (~HasActive(priority[j].bank) /\ colAccesses[priority[j].bank] = 0)'
    BY DEF IsPrecharge
  <2>1. PICK x : x = priority'[j].bank
    OBVIOUS
  <2>2. ~HasActive(x)' /\ colAccesses'[x] = 0
    BY <1>6, <2>1
  <2> QED BY <2>1, <2>2 DEF HasActive
<1> QED BY <1>4, <1>5, <1>7 DEF QueueOK, IsRefresh, IsPrecharge

(* A command is one less to wait for, and what the others wait after it is *)
(* at most the longest latency.                                            *)
LEMMA WorkDone ==
  ASSUME NEW m \in Nat \ {0}, NEW L \in Nat \ {0}, NEW v \in Nat, NEW w \in Nat, NEW R \in Nat,
         m + w * (L + 1) <= R, v < w
  PROVE  Larger(m - 1, L) \in Nat \ {0} /\ Larger(m - 1, L) + v * (L + 1) <= R - 1
<1>1. /\ v * (L + 1) + (L + 1) <= w * (L + 1) /\ v * (L + 1) \in Nat /\ w * (L + 1) \in Nat
  BY WorkLess
<1> QED BY <1>1 DEF Larger

LEMMA CommandIssued ==
  ASSUME TypeOK, TypeOK', NEW L, NEW M, RefreshSlack(L, M), Refreshing(L, M), NEW inj,
         NEW c \in Cmd, c # "REFab", NEW b, NEW r, Issue(inj, c, b, r)
  PROVE  WaitsWithin(M)' /\ \A m \in Nat \ {0} : WaitsWithin(m) => WaitsWithin(Larger(m - 1, L))'
<1>1. L \in Nat \ {0} /\ M \in Nat \ {0} /\ L <= M
      /\ \A n \in Cmd : RankLat[<<c, n>>] <= L /\ BankLat[<<c, n>>] <= L
  BY DEF RefreshSlack
<1>2. \A m \in Nat \ {0} : WaitsWithin(m) => WaitsWithin(Larger(m - 1, L))'
  BY <1>1, IssueWaits
<1>3. WaitsWithin(Larger(M - 1, L))'
  BY <1>1, <1>2 DEF Refreshing
<1>4. Larger(M - 1, L) \in Nat /\ Larger(M - 1, L) <= M
  BY <1>1 DEF Larger
<1>5. \A x \in Banks, n \in Cmd : wait'[x][n] \in Nat
  BY DEF TypeOK, DeviceTypeOK
<1>6. WaitsWithin(M)'
  BY <1>1, <1>3, <1>4, <1>5 DEF WaitsWithin
<1> QED BY <1>2, <1>6

(* When a command of the work is issued, the work that is left is in time. *)
FewerBefore(q) ==
  \A p \in DOMAIN priority' : IsRefresh(priority'[p]) =>
    \E o \in DOMAIN q : IsRefresh(q[o]) /\ WorkBefore(p)' \in Nat
        /\ WorkBefore(o) \in Nat /\ WorkBefore(p)' < WorkBefore(o)

LEMMA WorkGoesOn ==
  ASSUME NEW L \in Nat \ {0}, NEW q, NEW R \in Nat, InTime(q, L, R), refreshIn' = R,
         \A m \in Nat \ {0} : WaitsWithin(m) => WaitsWithin(Larger(m - 1, L))',
         FewerBefore(q)
  PROVE  InTime(priority, L, refreshIn - 1)'
<1> SUFFICES ASSUME NEW p \in DOMAIN priority', IsRefresh(priority'[p])
             PROVE  NREFI # 0 /\ \E m \in Nat \ {0} : WaitsWithin(m)'
                        /\ m + WorkBefore(p)' * (L + 1) <= refreshIn' - 1
  BY DEF InTime, IsRefresh
<1>1. PICK o \in DOMAIN q : IsRefresh(q[o]) /\ WorkBefore(p)' \in Nat
          /\ WorkBefore(o) \in Nat /\ WorkBefore(p)' < WorkBefore(o)
  BY DEF FewerBefore
<1>2. NREFI # 0 /\ \E m \in Nat \ {0} : WaitsWithin(m) /\ m + WorkBefore(o) * (L + 1) <= R
  BY <1>1 DEF InTime
<1>3. PICK m \in Nat \ {0} : WaitsWithin(m) /\ m + WorkBefore(o) * (L + 1) <= R
  BY <1>2
<1>4. Larger(m - 1, L) \in Nat \ {0} /\ Larger(m - 1, L) + WorkBefore(p)' * (L + 1) <= R - 1
  <2> DEFINE v == WorkBefore(p)'
             w == WorkBefore(o)
  <2>1. v \in Nat /\ w \in Nat /\ v < w /\ m + w * (L + 1) <= R
    BY <1>1, <1>3
  <2> HIDE DEF v, w
  <2>2. Larger(m - 1, L) \in Nat \ {0} /\ Larger(m - 1, L) + v * (L + 1) <= R - 1
    BY <2>1, WorkDone
  <2> QED BY <2>2 DEF v
<1> DEFINE g == Larger(m - 1, L)
<1>5. g \in Nat \ {0} /\ WaitsWithin(g)' /\ g + WorkBefore(p)' * (L + 1) <= refreshIn' - 1
  BY <1>3, <1>4
<1> HIDE DEF g
<1> QED BY <1>2, <1>5

(* The access of an active request, which leaves the buffer.               *)
LEMMA RefreshTickActive ==
  ASSUME TypeOK, TypeOK', ActiveInv, NoAutoPrecharge, NEW L, NEW M, RefreshSlack(L, M), Refreshing(L, M),
         NEW n, NEW inj \in Injections, TickActive(n, inj)
  PROVE  Refreshing(L, M)'
<1> DEFINE q == PriorityNow(inj)
<1>1. PICK k \in DOMAIN active :
        LET i == active[k]
            b == BankOf(i)
        IN /\ TickStart
           /\ Issue(inj, Upgrade(Command(i), b), b, RowOf(i))
           /\ priority' = q
           /\ Done(i) => active' = RemoveAt(active, k)
  BY DEF TickActive
<1> DEFINE i == active[k]
           b == BankOf(i)
<1>2. i \in Ids /\ b \in Banks /\ RowOf(i) \in Rows /\ FinalCommand(i) \in {"RD", "WR"}
  BY BufferTypes, AddressTypes
<1>3. open[b] = RowOf(i) /\ RowOf(i) # Closed
  BY <1>2, DeviceAssumption DEF ActiveInv, ActiveRowOpen
<1>4. Command(i) = FinalCommand(i) /\ Done(i)
  BY <1>2, <1>3 DEF Command, PreqCommand, Done
<1>5. Upgrade(Command(i), b) = Command(i)
  BY DEF Upgrade, NoAutoPrecharge, CapReached
<1> DEFINE c == Command(i)
<1>6. /\ c \in Cmd /\ c # "REFab" /\ ~IsClosing(c) /\ ~IsOpening(c)
      /\ Issue(inj, c, b, RowOf(i)) /\ priority' = q /\ TickStart
      /\ active' = RemoveAt(active, k) /\ UNCHANGED <<req, sent>>
  BY <1>1, <1>2, <1>4, <1>5 DEF IsOpening, IsClosing, Cmd, TickStart
<1>7. open' = open
  BY <1>2, <1>6, RowsAfter
<1> HIDE DEF c
<1>8. WaitsWithin(M)' /\ \A m \in Nat \ {0} : WaitsWithin(m) => WaitsWithin(Larger(m - 1, L))'
  BY <1>6, CommandIssued
<1>9. /\ Len(active') = Len(active) - 1
      /\ \A j \in DOMAIN active' : \E m \in DOMAIN active : active'[j] = active[m]
  BY <1>6, BufferTypes, RemoveAtProperties, RemoveAtElements
<1>10. q \in Seq(Maintenance) /\ QueueOK(q, InjectedNow(inj)) /\ InTime(q, L, RefreshInNow)
  BY MaintenanceTypes, QueueNow, BudgetNow
<1>11. Len(active) \in Nat /\ Len(active') \in Nat /\ Len(active') <= NBanks
  <2>1. active' \in Seq(Ids)
    BY DEF TypeOK
  <2>2. Len(active) \in Nat /\ Len(active) <= NBanks
    BY CommandTypes DEF Refreshing
  <2>3. Len(active') \in Nat
    BY <2>1, LenProperties
  <2> QED BY <1>9, <2>2, <2>3, ConstantTypes
<1>12. QueueOK(priority, injected)'
  <2>1. ASSUME NEW x \in Banks, ~injected'[x]
        PROVE  ~InjectedNow(inj)[x]
                   /\ (~HasActive(x) /\ colAccesses[x] = 0 => ~HasActive(x)' /\ colAccesses'[x] = 0)
    <3>1. ~InjectedNow(inj)[x] /\ (colAccesses'[x] \in {colAccesses[x], 0} \/ x = b)
      BY <1>2, <1>6, <2>1, IssueMarks
    <3>2. HasActive(b)
      BY DEF HasActive
    <3>3. HasActive(x)' => HasActive(x)
      BY <1>6, <1>9 DEF HasActive, BankOf
    <3> QED BY <3>1, <3>2, <3>3
  <2>2. GivesWay(q, InjectedNow(inj))
    BY <1>6, <2>1 DEF GivesWay
  <2> HIDE DEF q
  <2>3. CASE q # <<>>
    BY <1>10, <2>2, <2>3, QueueKept
  <2>4. CASE q = <<>>
    <3>1. DOMAIN priority' = {}
      BY <1>6, <2>4
    <3> QED BY <3>1 DEF QueueOK
  <2> QED BY <2>3, <2>4
<1>13. refreshIn' = RefreshInNow /\ RefreshInNow \in Nat /\ ~failed'
  BY <1>6, PassingTypes, ConstantTypes DEF TickStart, TypeOK
<1>14. FewerBefore(q)
  <2> SUFFICES ASSUME NEW p \in DOMAIN priority', IsRefresh(priority'[p])
               PROVE  WorkBefore(p)' \in Nat /\ WorkBefore(p) \in Nat /\ WorkBefore(p)' < WorkBefore(p)
    BY <1>6 DEF FewerBefore
  <2>1. p \in Nat \ {0}
    BY <1>6, <1>10, LenProperties
  <2>2. AnyOpen' = AnyOpen /\ AnyOpen \in {0, 1}
    BY <1>7 DEF AnyOpen
  <2> QED BY <1>9, <1>11, <2>1, <2>2 DEF WorkBefore
<1>15. InTime(priority, L, refreshIn - 1)'
  BY <1>8, <1>10, <1>13, <1>14, WorkGoesOn DEF RefreshSlack
<1> QED BY <1>8, <1>11, <1>12, <1>13, <1>15 DEF Refreshing

(* The head of the queue: a precharge of its bank, the precharge of all    *)
(* banks that the refresh needs, or the refresh itself.                    *)
LEMMA RefreshTickPriority ==
  ASSUME TypeOK, TypeOK', ActiveInv, NEW L, NEW M, RefreshSlack(L, M), Refreshing(L, M),
         NEW n, NEW inj \in Injections, TickPriority(n, inj)
  PROVE  Refreshing(L, M)'
<1> DEFINE q == PriorityNow(inj)
           h == Head(q)
           c == PriorityCommand(q)
<1>1. /\ PriorityReady(q) /\ TickStart /\ Issue(inj, c, h.bank, Closed)
      /\ priority' = IF c = h.final THEN Tail(q) ELSE q
      /\ UNCHANGED <<active, activePerBank>> /\ UNCHANGED <<req, sent>>
  BY DEF TickPriority, TickStart
<1>2. /\ q \in Seq(Maintenance) /\ q # <<>>
      /\ QueueOK(q, InjectedNow(inj)) /\ InTime(q, L, RefreshInNow)
  BY <1>1, MaintenanceTypes, QueueNow, BudgetNow DEF PriorityReady
<1>3. ~WouldCloseActive(c, h.bank) /\ c = PreqCommand(h.final, h.bank, Closed)
  BY <1>1 DEF PriorityReady, PriorityCommand
<1> HIDE DEF q
<1>4. h \in Maintenance /\ Tail(q) \in Seq(Maintenance) /\ Len(Tail(q)) = Len(q) - 1
      /\ Len(q) \in Nat \ {0} /\ DOMAIN q = 1 .. Len(q) /\ h = q[1]
      /\ \A k \in 1 .. Len(Tail(q)) : Tail(q)[k] = q[k + 1]
  BY <1>2, HeadTailProperties, LenProperties, EmptySeq
<1> HIDE DEF h, c
<1>5. /\ h.bank \in Banks /\ (IsRefresh(h) \/ IsPrecharge(h))
      /\ IsPrecharge(h) => c = "PREpb" /\ c = h.final
      /\ IsRefresh(h) => \/ c = "REFab" /\ c = h.final
                         \/ c = "PREab" /\ c # h.final /\ \E x \in Banks : open[x] # Closed
      /\ c \in Cmd /\ ~IsAccessing(c) /\ ~IsOpening(c)
  BY <1>3, <1>4, CommandTypes
     DEF IsRefresh, IsPrecharge, PreqCommand, Cmd, IsAccessing, IsOpening
<1>6. \A x \in Banks : open'[x] \in {open[x], Closed} /\ (c = "PREab" => open'[x] = Closed)
  <2>1. open' = ApplyAction(c, h.bank, Closed)
    BY <1>1 DEF Issue, IssueCommand
  <2> QED BY <1>5, <2>1 DEF ApplyAction, IsClosing, IsOpening, Targets, TargetsAll
<1>7. AnyOpen' \in {0, 1} /\ AnyOpen \in {0, 1} /\ AnyOpen' <= AnyOpen
          /\ (c = "PREab" => AnyOpen' < AnyOpen)
  BY <1>5, <1>6 DEF AnyOpen
<1>8. WaitsWithin(M)'
          /\ (c # "REFab" => \A m \in Nat \ {0} : WaitsWithin(m) => WaitsWithin(Larger(m - 1, L))')
  <2>1. CASE c # "REFab"
    BY <1>1, <1>5, <2>1, CommandIssued
  <2>2. CASE c = "REFab"
    <3>1. M \in Nat \ {0} /\ WaitsWithin(M)
          /\ \A x \in Cmd : RankLat[<<c, x>>] <= M /\ BankLat[<<c, x>>] <= M
      BY <1>5, <2>2 DEF RefreshSlack, Refreshing
    <3>2. WaitsWithin(Larger(M - 1, M))'
      BY <1>1, <1>5, <3>1, IssueWaits
    <3>3. Larger(M - 1, M) = M
      BY <3>1 DEF Larger
    <3> QED BY <2>2, <3>2, <3>3
  <2> QED BY <2>1, <2>2
<1>9. Len(active) \in Nat /\ active' = active /\ Len(active') <= NBanks
  BY <1>1, CommandTypes DEF Refreshing
<1>10. QueueOK(priority, injected)'
  <2>1. ASSUME NEW x \in Banks, ~injected'[x]
        PROVE  \/ ~HasActive(x)' /\ colAccesses'[x] = 0
               \/ ~InjectedNow(inj)[x]
                      /\ (~HasActive(x) /\ colAccesses[x] = 0 => ~HasActive(x)' /\ colAccesses'[x] = 0)
    <3>1. HasActive(x)' <=> HasActive(x)
      BY <1>1 DEF HasActive, BankOf
    <3>2. CASE IsClosing(c) /\ x \in Targets(c, h.bank) /\ colAccesses'[x] = 0
      <4>1. active = <<>> \/ ~(activePerBank[x] > 0)
        BY <1>3, <3>2 DEF WouldCloseActive
      <4>2. ~HasActive(x)
        BY <4>1 DEF ActiveInv, CountsActive, HasActive
      <4> QED BY <3>1, <3>2, <4>2
    <3>3. CASE ~InjectedNow(inj)[x] /\ colAccesses'[x] \in {colAccesses[x], 0}
      BY <3>1, <3>3
    <3> QED BY <1>1, <1>5, <2>1, <3>2, <3>3, IssueMarks
  <2>2. GivesWay(q, InjectedNow(inj))
    BY <1>1, <2>1 DEF GivesWay
  <2> QED BY <1>2, <2>2, QueueKept
<1>11. refreshIn' = RefreshInNow /\ RefreshInNow \in Nat /\ ~failed'
  BY <1>1, PassingTypes, ConstantTypes DEF TickStart, TypeOK
<1>12. CASE c = "REFab"
  <2>1. IsRefresh(h) /\ priority' = Tail(q)
    BY <1>1, <1>5, <1>12 DEF IsRefresh, IsPrecharge
  <2>2. DOMAIN priority' = 1 .. Len(q) - 1 /\ \A k \in 1 .. Len(q) - 1 : priority'[k] = q[k + 1]
    BY <1>4, <2>1, LenProperties
  <2>3. ASSUME NEW p \in DOMAIN priority', IsRefresh(priority'[p]) PROVE FALSE
    <3>1. p + 1 \in DOMAIN q /\ 1 \in DOMAIN q /\ IsRefresh(q[p + 1]) /\ IsRefresh(q[1]) /\ p + 1 # 1
      BY <1>4, <2>1, <2>2, <2>3
    <3> QED BY <1>2, <3>1 DEF QueueOK
  <2>4. InTime(priority, L, refreshIn - 1)'
    BY <2>3 DEF InTime, IsRefresh
  <2> QED BY <1>8, <1>9, <1>10, <1>11, <2>4 DEF Refreshing
<1>13. CASE c # "REFab"
  <2>1. FewerBefore(q)
    <3> SUFFICES ASSUME NEW p \in DOMAIN priority', IsRefresh(priority'[p])
                 PROVE  \E o \in DOMAIN q : IsRefresh(q[o]) /\ WorkBefore(p)' \in Nat
                            /\ WorkBefore(o) \in Nat /\ WorkBefore(p)' < WorkBefore(o)
      BY DEF FewerBefore
    <3>1. CASE IsPrecharge(h)
      <4>1. DOMAIN priority' = 1 .. Len(q) - 1 /\ \A k \in 1 .. Len(q) - 1 : priority'[k] = q[k + 1]
        BY <1>1, <1>4, <1>5, <3>1, LenProperties
      <4>2. p \in Nat \ {0} /\ p + 1 \in DOMAIN q /\ IsRefresh(q[p + 1])
        BY <1>4, <4>1
      <4>3. WorkBefore(p)' \in Nat /\ WorkBefore(p + 1) \in Nat /\ WorkBefore(p)' < WorkBefore(p + 1)
        BY <1>7, <1>9, <4>2 DEF WorkBefore
      <4> QED BY <4>2, <4>3
    <3>2. CASE IsRefresh(h)
      <4>1. priority' = q /\ c = "PREab" /\ p \in DOMAIN q /\ IsRefresh(q[p])
        BY <1>1, <1>5, <1>13, <3>2
      <4>2. p \in Nat \ {0}
        BY <1>4, <4>1
      <4>3. WorkBefore(p)' \in Nat /\ WorkBefore(p) \in Nat /\ WorkBefore(p)' < WorkBefore(p)
        BY <1>7, <1>9, <4>1, <4>2 DEF WorkBefore
      <4> QED BY <4>1, <4>3
    <3> QED BY <1>5, <3>1, <3>2
  <2>2. InTime(priority, L, refreshIn - 1)'
    BY <1>2, <1>8, <1>11, <1>13, <2>1, WorkGoesOn DEF RefreshSlack
  <2> QED BY <1>8, <1>9, <1>10, <1>11, <2>2 DEF Refreshing
<1> QED BY <1>12, <1>13

(* A read or a write is scheduled only while the queue is empty.           *)
LEMMA RefreshTickReadWrite ==
  ASSUME TypeOK, TypeOK', NoAutoPrecharge, NEW L, NEW M, RefreshSlack(L, M), Refreshing(L, M),
         NEW n, NEW inj \in Injections, TickReadWrite(n, inj)
  PROVE  Refreshing(L, M)'
<1>1. PICK k \in DOMAIN ReadWriteBuf :
        LET i == ReadWriteBuf[k]
            b == BankOf(i)
        IN /\ TickStart
           /\ PriorityNow(inj) = <<>> /\ priority' = PriorityNow(inj)
           /\ Issue(inj, Upgrade(Command(i), b), b, RowOf(i))
           /\ active' = IF Promoted(i) THEN Append(active, i) ELSE active
  BY DEF TickReadWrite
<1> DEFINE i == ReadWriteBuf[k]
           b == BankOf(i)
<1>2. i \in Ids /\ Command(i) \in {"ACT", "PREpb", "RD", "WR"}
  BY BufferTypes, AddressTypes DEF ReadWriteBuf
<1>3. Upgrade(Command(i), b) = Command(i)
  BY DEF Upgrade, NoAutoPrecharge, CapReached
<1>4. Command(i) \in Cmd /\ Command(i) # "REFab" /\ Issue(inj, Command(i), b, RowOf(i))
  BY <1>1, <1>2, <1>3 DEF Cmd
<1>5. WaitsWithin(M)'
  BY <1>4, CommandIssued
<1>6. Len(active') <= NBanks
  <2>1. Len(active) \in Nat /\ Len(active) <= NBanks /\ Len(Append(active, i)) = Len(active) + 1
    BY <1>2, CommandTypes, BufferTypes, AppendProperties DEF Refreshing
  <2>2. Promoted(i) => Len(active) < NBanks
    BY DEF Promoted
  <2> QED BY <1>1, <2>1, <2>2, ConstantTypes
<1>7. DOMAIN priority' = {}
  BY <1>1
<1>8. QueueOK(priority, injected)' /\ InTime(priority, L, refreshIn - 1)'
  BY <1>7 DEF QueueOK, InTime
<1>9. ~failed'
  BY <1>1 DEF TickStart
<1> QED BY <1>5, <1>6, <1>8, <1>9 DEF Refreshing

(* A cycle passes without a command only while one of the work waits: with *)
(* every wait over an active request is ready, and without any the head of *)
(* the queue is.                                                           *)
LEMMA IdleWaits ==
  ASSUME TypeOK, NEW q \in Seq(Maintenance), q # <<>>, WaitsWithin(1), ReadyActive = {}
  PROVE  PriorityReady(q)
<1>1. \A x \in Banks, c \in Cmd : Elapsed[x][c] = 0
  <2> SUFFICES ASSUME NEW x \in Banks, NEW c \in Cmd PROVE Elapsed[x][c] = 0
    OBVIOUS
  <2>1. wait[x][c] <= 1
    BY DEF WaitsWithin
  <2> QED BY <2>1, WaitTypes
<1>2. ASSUME NEW c \in Cmd, NEW b \in Banks PROVE CheckTiming(Elapsed, c, b)
  BY <1>1 DEF CheckTiming, Targets
<1>3. DOMAIN active = {}
  <2> SUFFICES ASSUME NEW k \in DOMAIN active PROVE FALSE
    OBVIOUS
  <2>1. Command(active[k]) \in Cmd /\ BankOf(active[k]) \in Banks
    BY BufferTypes, AddressTypes DEF Cmd
  <2>2. CheckTiming(Elapsed, Command(active[k]), BankOf(active[k]))
    BY <1>2, <2>1
  <2> QED BY <2>2 DEF ReadyActive, ReadyIn
<1>4. active = <<>>
  BY <1>3, CommandTypes, BufferTypes, EmptySeq
<1>5. Head(q) \in Maintenance
  BY HeadTailProperties
<1>6. PriorityCommand(q) \in Cmd /\ Head(q).bank \in Banks
  BY <1>5 DEF Maintenance, PriorityCommand, PreqCommand, Cmd
<1>7. CheckTiming(Elapsed, PriorityCommand(q), Head(q).bank)
  BY <1>2, <1>6
<1> QED BY <1>4, <1>7 DEF PriorityReady, WouldCloseActive

LEMMA RefreshTickIdle ==
  ASSUME TypeOK, TypeOK', NEW L, NEW M, RefreshSlack(L, M), Refreshing(L, M),
         NEW n, NEW inj \in Injections, TickIdle(n, inj)
  PROVE  Refreshing(L, M)'
<1> DEFINE q == PriorityNow(inj)
<1>1. /\ ReadyActive = {} /\ ~PriorityReady(q) /\ TickStart
      /\ priority' = q /\ injected' = InjectedNow(inj) /\ wait' = Elapsed
      /\ UNCHANGED <<open, active, colAccesses>> /\ UNCHANGED <<req, sent>>
  BY DEF TickIdle, TickStart
<1>2. q \in Seq(Maintenance) /\ QueueOK(q, InjectedNow(inj)) /\ InTime(q, L, RefreshInNow)
  BY MaintenanceTypes, QueueNow, BudgetNow
<1>3. L \in Nat \ {0} /\ M \in Nat
  BY DEF RefreshSlack
<1> HIDE DEF q
<1>4. ASSUME NEW x \in Banks, NEW c \in Cmd
      PROVE  wait[x][c] \in Nat /\ wait'[x][c] = IF wait[x][c] >= 1 THEN wait[x][c] - 1 ELSE 0
  BY <1>1, WaitTypes
<1>5. WaitsWithin(M)'
  <2> SUFFICES ASSUME NEW x \in Banks, NEW c \in Cmd PROVE wait'[x][c] <= M
    BY DEF WaitsWithin
  <2>1. wait[x][c] <= M
    BY DEF Refreshing, WaitsWithin
  <2> QED BY <1>3, <1>4, <2>1
<1>6. Len(active') <= NBanks
  BY <1>1 DEF Refreshing
<1>7. QueueOK(priority, injected)'
  BY <1>1, <1>2 DEF QueueOK, HasActive, BankOf
<1>8. refreshIn' = RefreshInNow /\ RefreshInNow \in Nat /\ ~failed'
  BY <1>1, PassingTypes, ConstantTypes DEF TickStart, TypeOK
<1>9. InTime(priority, L, refreshIn - 1)'
  <2> SUFFICES ASSUME NEW p \in DOMAIN priority', IsRefresh(priority'[p])
               PROVE  NREFI # 0 /\ \E m \in Nat \ {0} : WaitsWithin(m)'
                          /\ m + WorkBefore(p)' * (L + 1) <= refreshIn' - 1
    BY DEF InTime, IsRefresh
  <2>1. p \in DOMAIN q /\ IsRefresh(q[p])
    BY <1>1
  <2>2. NREFI # 0 /\ \E m \in Nat \ {0} : WaitsWithin(m) /\ m + WorkBefore(p) * (L + 1) <= RefreshInNow
    BY <1>2, <2>1 DEF InTime
  <2>3. PICK m \in Nat \ {0} : WaitsWithin(m) /\ m + WorkBefore(p) * (L + 1) <= RefreshInNow
    BY <2>2
  <2>4. m # 1
    <3>1. q # <<>>
      BY <2>1
    <3> QED BY <1>1, <1>2, <2>3, <3>1, IdleWaits
  <2>5. m - 1 \in Nat \ {0}
    BY <2>4
  <2>6. WaitsWithin(m - 1)'
    <3> SUFFICES ASSUME NEW x \in Banks, NEW c \in Cmd PROVE wait'[x][c] <= m - 1
      BY DEF WaitsWithin
    <3>1. wait[x][c] <= m
      BY <2>3 DEF WaitsWithin
    <3> QED BY <1>4, <2>5, <3>1
  <2>7. WorkBefore(p)' = WorkBefore(p)
    BY <1>1 DEF WorkBefore, AnyOpen
  <2>8. WorkBefore(p) \in Nat
    <3>1. p \in Nat \ {0}
      BY <1>2, <2>1, LenProperties
    <3> QED BY <3>1, CommandTypes DEF WorkBefore
  <2>9. WorkBefore(p) * (L + 1) \in Nat
    BY <1>3, <2>8
  <2>10. (m - 1) + WorkBefore(p)' * (L + 1) <= refreshIn' - 1
    BY <1>8, <2>3, <2>7, <2>9
  <2> DEFINE g == m - 1
  <2>11. g \in Nat \ {0} /\ WaitsWithin(g)' /\ g + WorkBefore(p)' * (L + 1) <= refreshIn' - 1
    BY <2>5, <2>6, <2>10
  <2> HIDE DEF g
  <2> QED BY <2>2, <2>11
<1> QED BY <1>5, <1>6, <1>7, <1>8, <1>9 DEF Refreshing

LEMMA RefreshTick ==
  ASSUME TypeOK, TypeOK', ActiveInv, NoAutoPrecharge, NEW L, NEW M,
             RefreshSlack(L, M), Refreshing(L, M), Tick
  PROVE  Refreshing(L, M)'
<1>1. ~RefreshFails
  BY DueFinds DEF RefreshFails
<1>2. PICK n \in 0 .. Len(pending) :
        \/ TickThrow(n)
        \/ \E inj \in Injections : \/ TickActive(n, inj) \/ TickPriority(n, inj)
                                   \/ TickReadWrite(n, inj) \/ TickIdle(n, inj)
  BY DEF Tick
<1>3. ~TickThrow(n)
  BY <1>1 DEF TickThrow
<1> QED
  BY <1>2, <1>3, RefreshTickActive, RefreshTickPriority, RefreshTickReadWrite, RefreshTickIdle

(* The frontend leaves the queue and the device alone.                     *)
LEMMA RefreshRests ==
  ASSUME NEW L, NEW M, Refreshing(L, M),
         UNCHANGED <<deviceVars, active, priority, policyVars>>,
         \A x : HasActive(x)' => HasActive(x)
  PROVE  Refreshing(L, M)'
<1>1. UNCHANGED <<open, wait, active, priority, colAccesses, injected, refreshIn, failed>>
  BY DEF deviceVars, policyVars
<1>2. \A m : WaitsWithin(m)' <=> WaitsWithin(m)
  BY <1>1 DEF WaitsWithin
<1>3. \A p : WorkBefore(p)' = WorkBefore(p)
  BY <1>1 DEF WorkBefore, AnyOpen
<1>4. QueueOK(priority, injected)'
  <2>1. /\ \A j, k \in DOMAIN priority' : IsRefresh(priority'[j]) /\ IsRefresh(priority'[k]) => j = k
        /\ \A j, k \in DOMAIN priority' :
             IsPrecharge(priority'[j]) /\ IsPrecharge(priority'[k])
                 /\ priority'[j].bank = priority'[k].bank => j = k
    BY <1>1 DEF Refreshing, QueueOK
  <2>2. (\A j \in DOMAIN priority : IsPrecharge(priority[j]) /\ ~injected[priority[j].bank] =>
           ~HasActive(priority[j].bank) /\ colAccesses[priority[j].bank] = 0)'
    <3> SUFFICES ASSUME NEW j \in DOMAIN priority', IsPrecharge(priority'[j]),
            ~injected'[priority'[j].bank]
                 PROVE  (~HasActive(priority[j].bank) /\ colAccesses[priority[j].bank] = 0)'
      BY DEF IsPrecharge
    <3>1. PICK x : x = priority[j].bank
      OBVIOUS
    <3>2. ~HasActive(x) /\ colAccesses[x] = 0
      BY <1>1, <3>1 DEF Refreshing, QueueOK
    <3>3. ~HasActive(x)'
      BY <3>2
    <3> QED BY <1>1, <3>1, <3>2, <3>3 DEF HasActive
  <2> QED BY <2>1, <2>2 DEF QueueOK, IsRefresh, IsPrecharge
<1>5. InTime(priority, L, refreshIn - 1)'
  <2>1. InTime(priority, L, refreshIn - 1)
    BY DEF Refreshing
  <2> QED BY <1>1, <1>2, <1>3, <2>1 DEF InTime, IsRefresh
<1>6. ~failed' /\ WaitsWithin(M)' /\ Len(active') <= NBanks
  BY <1>1, <1>2 DEF Refreshing
<1> QED BY <1>4, <1>5, <1>6 DEF Refreshing

LEMMA RefreshSend ==
  ASSUME TypeOK, ActiveInv, NEW L, NEW M, Refreshing(L, M), Send
  PROVE  Refreshing(L, M)'
<1>1. PICK a \in Addrs, t \in {"Read", "Write"} : Accept(t, a)
  BY DEF Send, SendForwardedRead, SendRead, SendCoalescedWrite, SendWrite
<1>2. \A i \in Ids : i <= sent => req'[i] = req[i]
  BY <1>1, AcceptKeeps
<1>3. UNCHANGED <<deviceVars, active, priority, policyVars>>
  BY <1>1 DEF Accept
<1>4. \A k \in DOMAIN active : active[k] \in Ids /\ active[k] <= sent /\ req'[active[k]] = req[active[k]]
  BY <1>2, BufferTypes DEF ActiveInv
<1>5. \A x : HasActive(x)' => HasActive(x)
  BY <1>3, <1>4 DEF HasActive, BankOf
<1> QED BY <1>3, <1>5, RefreshRests

LEMMA RefreshInitially ==
  ASSUME Init, NEW L, NEW M, RefreshSlack(L, M)
  PROVE  Refreshing(L, M)
<1>1. priority = <<>> /\ active = <<>> /\ ~failed /\ DOMAIN priority = {}
  BY DEF Init
<1>2. QueueOK(priority, injected) /\ InTime(priority, L, refreshIn - 1)
  BY <1>1 DEF QueueOK, InTime
<1>3. WaitsWithin(M)
  BY DEF Init, DeviceInit, WaitsWithin, RefreshSlack
<1>4. Len(active) <= NBanks
  BY <1>1, ConstantTypes, EmptySeq
<1> QED BY <1>1, <1>2, <1>3, <1>4 DEF Refreshing

RefreshInv == NoAutoPrecharge => \A L, M : RefreshSlack(L, M) => Refreshing(L, M)

LEMMA RefreshInductive ==
  ASSUME TypeOK, TypeOK', ForwardInv, NoAutoPrecharge => ActiveInv, RefreshInv, [Next]_vars
  PROVE  RefreshInv'
<1> SUFFICES ASSUME NoAutoPrecharge, NEW L, NEW M, RefreshSlack(L, M) PROVE Refreshing(L, M)'
  BY DEF RefreshInv, NoAutoPrecharge, RefreshSlack
<1>1. Refreshing(L, M) /\ ActiveInv
  BY DEF RefreshInv
<1>2. CASE UNCHANGED vars
  <2>1. UNCHANGED <<deviceVars, active, priority, policyVars>> /\ UNCHANGED req
    BY <1>2 DEF vars, queueVars
  <2>2. \A x : HasActive(x)' => HasActive(x)
    BY <2>1 DEF HasActive, BankOf
  <2> QED BY <1>1, <2>1, <2>2, RefreshRests
<1> QED BY <1>1, <1>2, RefreshTick, RefreshSend DEF Next

LEMMA RefreshInvariant == Spec => []RefreshInv
<1>1. Init => RefreshInv
  BY RefreshInitially DEF RefreshInv
<1>2. TypeOK /\ TypeOK' /\ ForwardInv /\ (NoAutoPrecharge => ActiveInv)
          /\ RefreshInv /\ [Next]_vars => RefreshInv'
  BY RefreshInductive
<1> QED
  BY <1>1, <1>2, TypeCorrect, ForwardInvariant, ActiveInvariant, PTL DEF Spec

(* Every refresh is carried out before the next one falls due, and the     *)
(* refresh manager never finds the priority buffer full, if the interval   *)
(* holds the longest wait of a refresh and, at the longest latency of the  *)
(* other commands, twice as many commands as there are banks and one more, *)
(* whatever the frontend sends and however the row policy interferes.      *)
THEOREM RefreshKept ==
  Spec => [](NoAutoPrecharge /\ (\E L, M : RefreshSlack(L, M)) => RefreshOnTime)
<1>1. TypeOK /\ RefreshInv => (NoAutoPrecharge /\ (\E L, M : RefreshSlack(L, M)) => RefreshOnTime)
  <2> SUFFICES ASSUME TypeOK, RefreshInv, NoAutoPrecharge, NEW L, NEW M, RefreshSlack(L, M)
               PROVE  RefreshOnTime
    OBVIOUS
  <2> DEFINE found == {k \in DOMAIN priority : priority[k].final = "REFab"}
  <2>1. ~failed /\ \A j, k \in found : j = k
    BY DEF RefreshInv, Refreshing, QueueOK, IsRefresh
  <2>2. Cardinality(found) <= 1
    <3>1. CASE found = {}
      BY <3>1, FS_EmptySet
    <3>2. CASE found # {}
      <4>1. PICK k \in found : TRUE
        BY <3>2
      <4>2. found = {k}
        BY <2>1, <4>1
      <4> HIDE DEF found
      <4>3. Cardinality({k}) = 1
        BY FS_Singleton
      <4>4. Cardinality(found) = 1
        BY <4>2, <4>3
      <4> QED BY <4>4
    <3> QED BY <3>1, <3>2
  <2> QED BY <2>1, <2>2 DEF RefreshOnTime
<1> QED
  BY <1>1, TypeCorrect, RefreshInvariant, PTL
=============================================================================
