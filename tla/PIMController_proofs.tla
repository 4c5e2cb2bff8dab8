------------------------ MODULE PIMController_proofs ------------------------
(***************************************************************************)
(* Type correctness and safety of the LPDDR5-PIM controller, for every     *)
(* number of banks, ranks, slots and requests and every timing table, and  *)
(* the facts about its ranks, lists and commands that its proofs rest on:  *)
(* first its modes and the work in flight, then the requests and the rows  *)
(* they use. A request that is accepted is never lost, never held twice,   *)
(* and answered at most once; a bank is between ACT1 and ACT2 exactly while *)
(* a request owns its activation; a row stays open for the request it was  *)
(* opened for and for the work that executes on it. Then the deadlines of  *)
(* the ACT2s, and the refreshes that wait.                                 *)
(***************************************************************************)
EXTENDS PIMController, BufferLemmas, FiniteSetTheorems

-----------------------------------------------------------------------------
(* Division: quotient and remainder, and that there is one of each.        *)

LEMMA Division ==
  ASSUME NEW a \in Nat, NEW d \in Nat \ {0}
  PROVE  /\ a \div d \in Nat /\ a % d \in 0 .. d - 1
         /\ a = (d * (a \div d)) + (a % d)
<1>1. a \div d \in Nat
  OBVIOUS
<1>2. a % d \in 0 .. d - 1
  OBVIOUS
<1>3. a = (d * (a \div d)) + (a % d)
  OBVIOUS
<1> QED BY <1>1, <1>2, <1>3

LEMMA DivisionUnique ==
  ASSUME NEW d \in Nat \ {0}, NEW q \in Nat, NEW s \in 0 .. d - 1
  PROVE  ((d * q) + s) \div d = q
OBVIOUS

LEMMA Products ==
  ASSUME NEW d \in Nat, NEW p \in Nat, NEW q \in Nat
  PROVE  /\ d * q \in Nat /\ d * (p + q) = (d * p) + (d * q)
         /\ p < q => (d * p) + d <= d * q
<1>1. d * q \in Nat
  OBVIOUS
<1>2. d * (p + q) = (d * p) + (d * q)
  OBVIOUS
<1>3. p < q => (d * p) + d <= d * q
  OBVIOUS
<1> QED BY <1>1, <1>2, <1>3

(* The ranks of the channel are numbered from 0.                           *)
LEMMA RankNumbers ==
  /\ Cardinality(Ranks) \in Nat
  /\ Ranks = 0 .. Cardinality(Ranks) - 1
  /\ \A b \in Banks : RankOf(b) \in Ranks
<1> DEFINE m == NBanks \div BanksPerRank
<1>1. NBanks \in Nat \ {0} /\ BanksPerRank \in Nat \ {0} /\ NBanks % BanksPerRank = 0
  BY PIMDeviceAssumption
<1>2. m \in Nat /\ NBanks = BanksPerRank * m
  BY <1>1, Division
<1> HIDE DEF m
<1>3. ASSUME NEW b \in Banks PROVE RankOf(b) \in 0 .. m - 1
  <2>1. b \in Nat /\ b < NBanks
    BY <1>1 DEF Banks
  <2>2. b \div BanksPerRank \in Nat /\ BanksPerRank * (b \div BanksPerRank) <= b
    <3>1. /\ b \div BanksPerRank \in Nat /\ b % BanksPerRank \in 0 .. BanksPerRank - 1
          /\ b = (BanksPerRank * (b \div BanksPerRank)) + (b % BanksPerRank)
      BY <1>1, <2>1, Division
    <3>2. BanksPerRank * (b \div BanksPerRank) \in Nat
      BY <1>1, <3>1, Products
    <3> QED BY <1>1, <3>1, <3>2
  <2>3. ASSUME ~(b \div BanksPerRank < m) PROVE FALSE
    <3>1. CASE m = b \div BanksPerRank
      BY <1>1, <1>2, <2>1, <2>2, <3>1
    <3>2. CASE m < b \div BanksPerRank
      <4>1. (BanksPerRank * m) + BanksPerRank <= BanksPerRank * (b \div BanksPerRank)
        BY <1>1, <1>2, <2>2, <3>2, Products
      <4>2. BanksPerRank * (b \div BanksPerRank) \in Nat
        BY <1>1, <2>2, Products
      <4> QED BY <1>1, <1>2, <2>1, <2>2, <4>1, <4>2
    <3> QED BY <1>2, <2>2, <2>3, <3>1, <3>2
  <2> QED BY <1>2, <2>2, <2>3 DEF RankOf
<1>4. ASSUME NEW r \in 0 .. m - 1 PROVE r \in Ranks
  <2>1. r \in Nat /\ r < m
    BY <1>2
  <2>2. /\ BanksPerRank * r \in Nat
        /\ (BanksPerRank * r) + BanksPerRank <= BanksPerRank * m
    BY <1>1, <1>2, <2>1, Products
  <2>3. BanksPerRank * r \in Banks
    BY <1>1, <1>2, <2>2 DEF Banks
  <2>4. (BanksPerRank * r) \div BanksPerRank = r
    <3>1. ((BanksPerRank * r) + 0) \div BanksPerRank = r
      BY <1>1, <2>1, DivisionUnique
    <3>2. (BanksPerRank * r) + 0 = BanksPerRank * r
      BY <2>2
    <3> QED BY <3>1, <3>2
  <2> QED BY <2>3, <2>4 DEF Ranks, RankOf
<1>5. Ranks = 0 .. m - 1
  BY <1>3, <1>4 DEF Ranks
<1>6. Cardinality(0 .. m - 1) = m
  <2>1. 0 \in Int /\ m - 1 \in Int
    BY <1>2
  <2>2. Cardinality(0 .. m - 1) = IF 0 > m - 1 THEN 0 ELSE (m - 1) - 0 + 1
    BY <2>1, FS_Interval
  <2> QED BY <1>2, <2>2
<1> QED BY <1>2, <1>3, <1>5, <1>6

LEMMA ConstantTypes ==
  /\ NBanks \in Nat \ {0} /\ BanksPerRank \in Nat \ {0} /\ MaxSend \in Nat
  /\ BanksPerBlock \in Nat \ {0} /\ BlocksPerBank \in Nat \ {0}
  /\ SlotsPerRequest \in Nat \ {0} /\ PimLatency \in Nat \ {0} /\ nAAD \in Nat \ {0}
  /\ PrioritySize \in Nat \ {0} /\ ReadLatency \in Nat /\ NREFI \in Nat
  /\ \A c \in Accesses : WckTime[c] \in Nat
BY PIMDeviceAssumption, PIMControllerAssumption, LenProperties DEF MaxSend

-----------------------------------------------------------------------------
(* Type correctness. The invariant is TypeOK in parts, as the steps of a   *)
(* tick change them; that a due refresh is in the future keeps its counter *)
(* a natural number, and the work in flight is finite so that it can be    *)
(* counted.                                                                *)

BuffersOK ==
  /\ readBuf \in Seq(Ids) /\ writeBuf \in Seq(Ids) /\ active \in Seq(Ids)
  /\ buffered \subseteq Addrs

OpeningOK ==
  /\ activating \in Seq(Ids) /\ owner \subseteq Banks /\ deadline \in [Banks -> Int]

ModesOK == mode \in [Ranks -> Modes] /\ loadReady \in [Ranks -> BOOLEAN]

AllBankOK == ab \in 0 .. MaxSend /\ abLeft \in Nat

InflightOK ==
  /\ inflight \subseteq Timers /\ IsFiniteSet(inflight)
  /\ slots \in [Banks -> Int]

AnswersOK == pending \in Seq(Timers) /\ replies \in [Ids -> Nat]

StepOK ==
  /\ PIMDeviceTypeOK /\ BuffersOK /\ OpeningOK /\ ModesOK /\ AllBankOK /\ InflightOK /\ AnswersOK
  /\ activePerBank \in [Banks -> Int] /\ wckIn \in Nat

CountersOK ==
  /\ sent \in 0 .. MaxSend /\ req \in [Ids -> Requests] /\ clk \in Nat
  /\ refreshIn \in IF NREFI = 0 THEN {0} ELSE 1 .. NREFI
  /\ failed \in BOOLEAN

ChoicesOK ==
  /\ priority \in Seq(Ranks) /\ writeMode \in BOOLEAN /\ casReq \in 0 .. MaxSend

TypeInv == StepOK /\ CountersOK /\ ChoicesOK

LEMMA TypeInvImpliesTypeOK == TypeInv => TypeOK
<1> SUFFICES ASSUME TypeInv PROVE TypeOK
  OBVIOUS
<1>1. refreshIn \in Nat
  BY ConstantTypes DEF TypeInv, CountersOK
<1>2. /\ {readBuf, writeBuf, activating, active} \subseteq Seq(Ids)
      /\ {wckIn, abLeft, refreshIn} \subseteq Nat
      /\ {casReq, ab} \subseteq 0 .. MaxSend /\ {writeMode, failed} \subseteq BOOLEAN
  BY <1>1 DEF TypeInv, StepOK, BuffersOK, OpeningOK, AllBankOK, ChoicesOK, CountersOK
<1> QED
  BY <1>2 DEF TypeOK, TypeInv, StepOK, BuffersOK, OpeningOK, ModesOK, AllBankOK, InflightOK,
              AnswersOK, CountersOK, ChoicesOK

(* The lists, and what is in them.                                         *)
LEMMA ListTypes ==
  ASSUME NEW q \in Seq(Ids)
  PROVE  /\ Len(q) \in Nat /\ DOMAIN q = 1 .. Len(q)
         /\ \A k \in DOMAIN q : q[k] \in Ids /\ RemoveAt(q, k) \in Seq(Ids)
         /\ \A i \in Ids : Append(q, i) \in Seq(Ids)
<1>1. Len(q) \in Nat /\ DOMAIN q = 1 .. Len(q)
  BY LenProperties
<1>2. \A k \in DOMAIN q : q[k] \in Ids
  BY <1>1, ElementOfSeq
<1>3. \A k \in DOMAIN q : RemoveAt(q, k) \in Seq(Ids)
  BY RemoveAtProperties
<1>4. \A i \in Ids : Append(q, i) \in Seq(Ids)
  BY AppendProperties
<1> QED BY <1>1, <1>2, <1>3, <1>4

LEMMA BufferTypes ==
  ASSUME StepOK, NEW buf \in {"active", "read", "write"}
  PROVE  /\ Buffer(buf) \in Seq(Ids)
         /\ \A k \in DOMAIN Buffer(buf) : Buffer(buf)[k] \in Ids
<1>1. Buffer(buf) \in Seq(Ids)
  BY DEF StepOK, BuffersOK, Buffer
<1> QED BY <1>1, ListTypes

(* Requests decode to banks, rows, ranks and commands of the device.       *)
LEMMA RequestTypes ==
  ASSUME CountersOK, NEW i \in Ids
  PROVE  /\ req[i] \in Requests /\ Final(i) \in Finals /\ req[i].addr \in Addrs
         /\ BankOf(i) \in Banks /\ RowOf(i) \in Rows /\ RankOfRequest(i) \in Ranks
         /\ Command(i) \in Cmd
<1>1. /\ req[i] \in Requests /\ Final(i) \in Finals /\ req[i].addr \in Addrs
  BY DEF CountersOK, Requests, Final
<1>2. BankOf(i) \in Banks /\ RowOf(i) \in Rows
  BY <1>1, PIMControllerAssumption DEF BankOf, RowOf
<1>3. RankOfRequest(i) \in Ranks
  BY <1>2, RankNumbers DEF RankOfRequest
<1>4. Command(i) \in Cmd
  BY <1>1 DEF Command, PreqCommand, Finals, Accesses, Modes, Cmd
<1> QED BY <1>1, <1>2, <1>3, <1>4

LEMMA ElapsedTypes ==
  ASSUME PIMDeviceTypeOK
  PROVE  \A x \in Banks, n \in Timed : Elapsed[x][n] \in Nat
BY DEF PIMDeviceTypeOK, Elapsed, Larger

LEMMA IssueTypes ==
  ASSUME PIMDeviceTypeOK, NEW c \in Cmd, NEW b, NEW r \in Rows \cup {Closed},
         IssueCommand(c, b, r)
  PROVE  PIMDeviceTypeOK'
<1>1. \A n \in Timed : /\ RankLat[<<c, n>>] \in Nat /\ BankLat[<<c, n>>] \in Nat
                       /\ ChannelLat[<<c, n>>] \in Nat
  BY PIMDeviceAssumption DEF Timed, Cmd
<1>2. \A x \in Banks, n \in Timed : Delay(c, b, n, x) \in Nat
  BY <1>1 DEF Delay, Larger
<1>3. wait' \in [Banks -> [Timed -> Nat]]
  BY <1>2, ElapsedTypes DEF IssueCommand, Larger
<1>4. open' \in [Banks -> Rows \cup {Closed, Activating}]
  BY DEF IssueCommand, PIMDeviceTypeOK
<1>5. rankState' \in [Ranks -> Modes]
  BY DEF IssueCommand, PIMDeviceTypeOK
<1> QED BY <1>3, <1>4, <1>5 DEF PIMDeviceTypeOK

LEMMA IssueNothingTypes == PIMDeviceTypeOK /\ IssueNothing => PIMDeviceTypeOK'
<1> SUFFICES ASSUME PIMDeviceTypeOK, IssueNothing PROVE PIMDeviceTypeOK'
  OBVIOUS
<1>1. Elapsed \in [Banks -> [Timed -> Nat]]
  BY ElapsedTypes DEF Elapsed
<1> QED BY <1>1 DEF IssueNothing, PIMDeviceTypeOK

(* The parts of a step.                                                    *)

LEMMA LeaveTypes ==
  ASSUME StepOK, NEW buf \in {"active", "read", "write"}, NEW k \in DOMAIN Buffer(buf)
  PROVE  /\ Leave(buf, k) => BuffersOK'
         /\ Stay => BuffersOK'
         /\ \A b \in Banks : ReleaseBank(buf, b) => activePerBank' \in [Banks -> Int]
<1>1. RemoveAt(Buffer(buf), k) \in Seq(Ids)
  BY BufferTypes, ListTypes
<1>2. Leave(buf, k) => BuffersOK'
  BY <1>1 DEF Leave, BuffersOK, StepOK
<1>3. Stay => BuffersOK'
  BY DEF Stay, bufferVars, BuffersOK, StepOK
<1>4. \A b \in Banks : ReleaseBank(buf, b) => activePerBank' \in [Banks -> Int]
  BY DEF ReleaseBank, StepOK
<1> QED BY <1>2, <1>3, <1>4

LEMMA DeadlineTypes == StepOK => DeadlineNow \in [Banks -> Int]
BY DEF StepOK, OpeningOK, DeadlineNow

LEMMA AllBankGoesOnTypes == StepOK => AbNow \in 0 .. MaxSend /\ AbLeftNow \in Nat
BY ConstantTypes DEF StepOK, AllBankOK, AbNow, AbLeftNow, AbDone

LEMMA LoadReadyTypes == StepOK => LoadReadyNow \in [Ranks -> BOOLEAN]
BY DEF StepOK, ModesOK, LoadReadyNow

(* Work in flight ages one cycle at a time, none of it merging.            *)
LEMMA AgingTypes ==
  ASSUME InflightOK
  PROVE  /\ MacsDone \subseteq inflight /\ IsFiniteSet(MacsDone)
         /\ InflightNow \subseteq Timers /\ IsFiniteSet(InflightNow)
         /\ \A b \in Banks : SlotsNow[b] \in Int
         /\ SlotsNow \in [Banks -> Int]
<1>1. MacsDone \subseteq inflight /\ IsFiniteSet(MacsDone) /\ IsFiniteSet(inflight \ MacsDone)
  BY FS_Subset, FS_Difference DEF InflightOK, MacsDone
<1> DEFINE old == inflight \ MacsDone
           age == [f \in old |-> [f EXCEPT !.left = @ - 1]]
<1>2. age \in Surjection(old, InflightNow)
  BY DEF Surjection, InflightNow
<1>3. IsFiniteSet(InflightNow)
  BY <1>1, <1>2, FS_Surjection
<1>4. InflightNow \subseteq Timers
  <2> SUFFICES ASSUME NEW f \in old PROVE [f EXCEPT !.left = @ - 1] \in Timers
    BY DEF InflightNow
  <2>1. f \in Timers /\ f.left \in Nat /\ ~(f.left <= 1)
    BY DEF InflightOK, MacsDone, Timers
  <2> QED BY <2>1 DEF Timers
<1>5. \A b \in Banks : Cardinality(OnBank(MacsDone, b)) \in Nat
  <2> SUFFICES ASSUME NEW b \in Banks PROVE Cardinality(OnBank(MacsDone, b)) \in Nat
    OBVIOUS
  <2>1. OnBank(MacsDone, b) \in SUBSET MacsDone
    BY DEF OnBank
  <2> QED BY <1>1, <2>1, FS_Subset, FS_CardinalityType
<1>6. SlotsNow \in [Banks -> Int] /\ \A b \in Banks : SlotsNow[b] \in Int
  BY <1>5, ConstantTypes DEF SlotsNow, InflightOK
<1> QED BY <1>1, <1>3, <1>4, <1>6

LEMMA AnswerTypes ==
  ASSUME AnswersOK, NEW n \in 0 .. Len(pending), NEW S, NEW P \in Seq(Timers), Answer(n, S, P)
  PROVE  AnswersOK'
<1>1. /\ Len(pending) \in Nat /\ DOMAIN pending = 1 .. Len(pending)
      /\ \A k \in 1 .. Len(pending) : pending[k] \in Timers
  BY LenProperties, ElementOfSeq DEF AnswersOK
<1>2. \A k \in 1 .. Len(pending) : Aged[k] \in Timers
  BY <1>1 DEF Aged, Timers, Larger
<1>3. SubSeq(Aged, n + 1, Len(pending)) \in Seq(Timers)
  <2>1. \A k \in n + 1 .. Len(pending) : Aged[k] \in Timers
    BY <1>1, <1>2
  <2> QED BY <1>1, <2>1, SubSeqProperties
<1>4. pending' \in Seq(Timers)
  BY <1>3, ConcatProperties DEF Answer
<1>5. replies' \in [Ids -> Nat]
  BY DEF Answer, AnswersOK
<1> QED BY <1>4, <1>5 DEF AnswersOK

LEMMA RetireTypes ==
  ASSUME AnswersOK, NEW n \in 0 .. Len(pending), NEW i \in Ids,
         Retire(n, i) \/ (\E S : Answer(n, S, <<>>))
  PROVE  AnswersOK'
<1>1. [id |-> i, left |-> ReadLatency] \in Timers
  BY ConstantTypes DEF Timers
<1>2. <<[id |-> i, left |-> ReadLatency]>> \in Seq(Timers) /\ <<>> \in Seq(Timers)
  BY <1>1, EmptySeq
<1> QED BY <1>2, AnswerTypes DEF Retire

LEMMA EnterModeTypes ==
  ASSUME StepOK, NEW c, NEW r \in Ranks, EnterMode(c, r)
  PROVE  ModesOK'
<1>1. mode' \in [Ranks -> Modes]
  BY DEF EnterMode, ModeAfter, StepOK, ModesOK
<1>2. loadReady' \in [Ranks -> BOOLEAN]
  BY LoadReadyTypes DEF EnterMode, LoadReadyAfter
<1> QED BY <1>1, <1>2 DEF ModesOK

(* What goes on by itself while a command is issued.                       *)
LEMMA GoesOnTypes ==
  ASSUME StepOK
  PROVE  /\ OpeningGoesOn => OpeningOK'
         /\ AbGoesOn => AllBankOK'
         /\ MacsGoOn => InflightOK'
         /\ RanksStay => ModesOK'
         /\ WckNow \in Nat
         /\ \A c : WckAfter(c) \in Nat
<1>1. OpeningGoesOn => OpeningOK'
  BY DeadlineTypes DEF OpeningGoesOn, OpeningOK, StepOK
<1>2. AbGoesOn => AllBankOK'
  BY AllBankGoesOnTypes DEF AbGoesOn, AllBankOK
<1>3. MacsGoOn => InflightOK'
  BY AgingTypes DEF MacsGoOn, InflightOK, StepOK
<1>4. RanksStay => ModesOK'
  BY LoadReadyTypes DEF RanksStay, ModesOK, StepOK
<1>5. WckNow \in Nat
  BY DEF WckNow, Larger, StepOK
<1>6. \A c : WckAfter(c) \in Nat
  BY <1>5, ConstantTypes DEF WckAfter, Larger
<1> QED BY <1>1, <1>2, <1>3, <1>4, <1>5, <1>6

-----------------------------------------------------------------------------
(* Each step a tick may take keeps the types of what steps change.         *)

LEMMA PerformTypes ==
  ASSUME TypeInv, NEW n \in 0 .. Len(pending), NEW buf \in {"active", "read", "write"},
         NEW k \in DOMAIN Buffer(buf), Perform(n, buf, k)
  PROVE  StepOK'
<1> DEFINE i == Buffer(buf)[k]
<1>1. StepOK /\ CountersOK /\ i \in Ids
  BY BufferTypes DEF TypeInv
<1>2. /\ BankOf(i) \in Banks /\ RowOf(i) \in Rows /\ RankOfRequest(i) \in Ranks
      /\ Final(i) \in Cmd
  BY <1>1, RequestTypes DEF Perform
<1>3. PIMDeviceTypeOK' /\ wckIn' \in Nat /\ ModesOK'
  <2>1. /\ IssueCommand(Final(i), BankOf(i), RowOf(i)) /\ wckIn' = WckAfter(Final(i))
        /\ EnterMode(Final(i), RankOfRequest(i))
    BY DEF Perform
  <2> QED BY <1>1, <1>2, <2>1, IssueTypes, GoesOnTypes, EnterModeTypes DEF StepOK
<1>4. BuffersOK' /\ activePerBank' \in [Banks -> Int]
  BY <1>1, <1>2, LeaveTypes DEF Perform
<1>5. AnswersOK'
  BY <1>1, RetireTypes DEF Perform, StepOK
<1>6. OpeningOK' /\ AllBankOK' /\ InflightOK'
  BY <1>1, GoesOnTypes DEF Perform
<1> QED BY <1>3, <1>4, <1>5, <1>6 DEF StepOK

LEMMA PrepareTypes ==
  ASSUME TypeInv, NEW n \in 0 .. Len(pending), NEW buf \in {"active", "read", "write"},
         NEW k \in DOMAIN Buffer(buf), Prepare(n, buf, k)
  PROVE  StepOK'
<1> DEFINE i == Buffer(buf)[k]
<1>1. StepOK /\ CountersOK /\ i \in Ids
  BY BufferTypes DEF TypeInv
<1>2. /\ BankOf(i) \in Banks /\ RowOf(i) \in Rows /\ RankOfRequest(i) \in Ranks
      /\ Command(i) \in Cmd
  BY <1>1, RequestTypes
<1>3. PIMDeviceTypeOK' /\ wckIn' \in Nat /\ ModesOK'
  <2>1. /\ IssueCommand(Command(i), BankOf(i), RowOf(i)) /\ wckIn' = WckNow
        /\ EnterMode(Command(i), RankOfRequest(i))
    BY DEF Prepare
  <2> QED BY <1>1, <1>2, <2>1, IssueTypes, GoesOnTypes, EnterModeTypes DEF StepOK
<1>4. BuffersOK' /\ activePerBank' \in [Banks -> Int]
  BY <1>1, LeaveTypes DEF Prepare, StepOK
<1>5. AnswersOK'
  BY <1>1, RetireTypes DEF Prepare, StepOK
<1>6. OpeningOK' /\ AllBankOK' /\ InflightOK'
  BY <1>1, GoesOnTypes DEF Prepare
<1> QED BY <1>3, <1>4, <1>5, <1>6 DEF StepOK

LEMMA ActivateTypes ==
  ASSUME TypeInv, NEW n \in 0 .. Len(pending), NEW buf \in {"active", "read", "write"},
         NEW k \in DOMAIN Buffer(buf), Activate(n, buf, k)
  PROVE  StepOK'
<1> DEFINE i == Buffer(buf)[k]
           b == BankOf(i)
<1>1. StepOK /\ CountersOK /\ i \in Ids
  BY BufferTypes DEF TypeInv
<1>2. b \in Banks /\ RowOf(i) \in Rows
  BY <1>1, RequestTypes
<1>3. PIMDeviceTypeOK' /\ wckIn' \in Nat
  BY <1>1, <1>2, IssueTypes, GoesOnTypes DEF Activate, StepOK, Cmd
<1>4. BuffersOK' /\ activePerBank' \in [Banks -> Int]
  BY <1>1, LeaveTypes DEF Activate, StepOK
<1>5. OpeningOK'
  <2>1. activating' \in Seq(Ids)
    BY <1>1, ListTypes DEF Activate, StepOK, OpeningOK
  <2>2. owner' \subseteq Banks
    BY <1>1, <1>2 DEF Activate, StepOK, OpeningOK
  <2>3. deadline' \in [Banks -> Int]
    <3>1. deadline' = [DeadlineNow EXCEPT ![b] = nAAD] /\ nAAD \in Int
      BY ConstantTypes DEF Activate
    <3>2. DeadlineNow \in [Banks -> Int]
      BY <1>1, DeadlineTypes
    <3>3. b \in Banks
      BY <1>2
    <3> HIDE DEF b
    <3> QED BY <3>1, <3>2, <3>3
  <2> QED BY <2>1, <2>2, <2>3 DEF OpeningOK
<1>6. AnswersOK'
  BY <1>1, RetireTypes DEF Activate, StepOK
<1>7. ModesOK' /\ AllBankOK' /\ InflightOK'
  BY <1>1, GoesOnTypes DEF Activate, PimGoesOn
<1> QED BY <1>3, <1>4, <1>5, <1>6, <1>7 DEF StepOK

LEMMA LaunchTypes ==
  ASSUME TypeInv, NEW n \in 0 .. Len(pending), NEW buf \in {"active", "read", "write"},
         NEW k \in DOMAIN Buffer(buf), Launch(n, buf, k)
  PROVE  StepOK'
<1> DEFINE i == Buffer(buf)[k]
           b == BankOf(i)
<1>1. StepOK /\ CountersOK /\ i \in Ids
  BY BufferTypes DEF TypeInv
<1>2. b \in Banks /\ RowOf(i) \in Rows
  BY <1>1, RequestTypes
<1>3. PIMDeviceTypeOK' /\ wckIn' \in Nat
  BY <1>1, <1>2, IssueTypes, GoesOnTypes DEF Launch, StepOK, Cmd
<1>4. BuffersOK' /\ activePerBank' \in [Banks -> Int]
  BY <1>1, <1>2, LeaveTypes DEF Launch
<1>5. InflightOK'
  <2>1. [id |-> i, left |-> PimLatency] \in Timers
    BY <1>1, ConstantTypes DEF Timers
  <2>2. inflight' \subseteq Timers /\ IsFiniteSet(inflight')
    BY <1>1, <2>1, AgingTypes, FS_AddElement DEF Launch, StepOK
  <2>3. slots' \in [Banks -> Int]
    <3>1. slots' = [SlotsNow EXCEPT ![b] = @ + SlotsPerRequest] /\ SlotsPerRequest \in Int
      BY ConstantTypes DEF Launch
    <3>2. SlotsNow \in [Banks -> Int]
      BY <1>1, AgingTypes DEF StepOK
    <3>3. b \in Banks
      BY <1>2
    <3> HIDE DEF b
    <3> QED BY <3>1, <3>2, <3>3
  <2> QED BY <2>2, <2>3 DEF InflightOK
<1>6. AnswersOK'
  BY <1>1, RetireTypes DEF Launch, StepOK
<1>7. OpeningOK' /\ ModesOK' /\ AllBankOK'
  BY <1>1, GoesOnTypes DEF Launch
<1> QED BY <1>3, <1>4, <1>5, <1>6, <1>7 DEF StepOK

LEMMA LaunchAllBankTypes ==
  ASSUME TypeInv, NEW n \in 0 .. Len(pending), NEW buf \in {"active", "read", "write"},
         NEW k \in DOMAIN Buffer(buf), LaunchAllBank(n, buf, k)
  PROVE  StepOK'
<1> DEFINE i == Buffer(buf)[k]
<1>1. StepOK /\ CountersOK /\ i \in Ids
  BY BufferTypes DEF TypeInv
<1>2. BankOf(i) \in Banks /\ RowOf(i) \in Rows /\ RankOfRequest(i) \in Ranks
  BY <1>1, RequestTypes
<1>3. PIMDeviceTypeOK' /\ wckIn' \in Nat
  BY <1>1, <1>2, IssueTypes, GoesOnTypes DEF LaunchAllBank, StepOK, Cmd
<1>4. BuffersOK' /\ activePerBank' \in [Banks -> Int]
  BY <1>1, LeaveTypes DEF LaunchAllBank, StepOK
<1>5. AllBankOK'
  <2>1. ab' = i /\ abLeft' = PimLatency * BanksPerBlock
    BY DEF LaunchAllBank
  <2>2. PimLatency * BanksPerBlock \in Nat /\ i \in 0 .. MaxSend
    BY <1>1, ConstantTypes, Products DEF Ids
  <2> QED BY <2>1, <2>2 DEF AllBankOK
<1>6. ModesOK'
  BY <1>1, <1>2, LoadReadyTypes DEF LaunchAllBank, ModesOK, StepOK
<1>7. AnswersOK'
  BY <1>1, RetireTypes DEF LaunchAllBank, StepOK
<1>8. OpeningOK' /\ InflightOK'
  BY <1>1, GoesOnTypes DEF LaunchAllBank
<1> QED BY <1>3, <1>4, <1>5, <1>6, <1>7, <1>8 DEF StepOK

LEMMA OpenRowTypes ==
  ASSUME TypeInv, NEW n \in 0 .. Len(pending), NEW k \in DOMAIN activating, OpenRow(n, k)
  PROVE  StepOK'
<1> DEFINE i == activating[k]
           b == BankOf(i)
<1>1. StepOK /\ CountersOK /\ i \in Ids
  BY ListTypes DEF TypeInv, StepOK, OpeningOK
<1>2. b \in Banks /\ RowOf(i) \in Rows
  BY <1>1, RequestTypes
<1>3. PIMDeviceTypeOK' /\ wckIn' \in Nat
  BY <1>1, <1>2, IssueTypes, GoesOnTypes DEF OpenRow, StepOK, Cmd
<1>4. active' \in Seq(Ids) /\ activating' \in Seq(Ids)
  BY <1>1, ListTypes DEF OpenRow, StepOK, BuffersOK, OpeningOK
<1>5. BuffersOK' /\ activePerBank' \in [Banks -> Int]
  BY <1>1, <1>4 DEF OpenRow, bufferVars, BuffersOK, StepOK
<1>6. OpeningOK'
  <2>1. deadline' \in [Banks -> Int]
    <3>1. deadline' = [DeadlineNow EXCEPT ![b] = 0]
      BY DEF OpenRow
    <3>2. DeadlineNow \in [Banks -> Int]
      BY <1>1, DeadlineTypes
    <3>3. b \in Banks
      BY <1>2
    <3> HIDE DEF b
    <3> QED BY <3>1, <3>2, <3>3
  <2> QED BY <1>1, <1>4, <2>1 DEF OpenRow, StepOK, OpeningOK
<1>7. AnswersOK'
  BY <1>1, RetireTypes DEF OpenRow, StepOK
<1>8. ModesOK' /\ AllBankOK' /\ InflightOK'
  BY <1>1, GoesOnTypes DEF OpenRow, PimGoesOn
<1> QED BY <1>3, <1>5, <1>6, <1>7, <1>8 DEF StepOK

(* A tick with no request to serve, or with a command that is none of the  *)
(* request's own: it changes the device only.                              *)
LEMMA DeviceOnlyTypes ==
  ASSUME TypeInv, NEW n \in 0 .. Len(pending), PIMDeviceTypeOK', wckIn' = WckNow,
         Answer(n, {}, <<>>), OpeningGoesOn, PimGoesOn, Stay, UNCHANGED activePerBank
  PROVE  StepOK'
<1>1. StepOK
  BY DEF TypeInv
<1>2. AnswersOK'
  BY <1>1, EmptySeq, AnswerTypes DEF StepOK
<1>3. BuffersOK'
  BY <1>1 DEF Stay, bufferVars, BuffersOK, StepOK
<1>4. OpeningOK' /\ ModesOK' /\ AllBankOK' /\ InflightOK' /\ wckIn' \in Nat
  BY <1>1, GoesOnTypes DEF PimGoesOn
<1> QED BY <1>1, <1>2, <1>3, <1>4 DEF StepOK

LEMMA WaitTypes ==
  ASSUME TypeInv, NEW n \in 0 .. Len(pending), Wait(n)
  PROVE  StepOK'
BY IssueNothingTypes, DeviceOnlyTypes DEF Wait, TypeInv, StepOK

LEMMA SynchroniseTypes ==
  ASSUME TypeInv, NEW n \in 0 .. Len(pending), NEW buf \in {"active", "read", "write"},
         NEW k \in DOMAIN Buffer(buf), Synchronise(n, buf, k)
  PROVE  StepOK' /\ casReq' \in 0 .. MaxSend
<1> DEFINE i == Buffer(buf)[k]
<1>1. StepOK /\ CountersOK /\ i \in Ids
  BY BufferTypes DEF TypeInv
<1>2. BankOf(i) \in Banks /\ RowOf(i) \in Rows
  BY <1>1, RequestTypes
<1>3. PIMDeviceTypeOK'
  <2>1. "CAS_RD" \in Cmd /\ "CAS_WR" \in Cmd
    BY DEF Cmd
  <2> QED BY <1>1, <1>2, <2>1, IssueTypes DEF Synchronise, StepOK
<1>4. casReq' \in 0 .. MaxSend
  BY <1>1, ConstantTypes DEF Synchronise, Ids
<1> QED BY <1>3, <1>4, DeviceOnlyTypes DEF Synchronise

-----------------------------------------------------------------------------
(* The cases of a tick.                                                    *)

LEMMA TickStartTypes ==
  ASSUME TypeInv
  PROVE  /\ TickStart => CountersOK'
         /\ PriorityNow \in Seq(Ranks)
         /\ WriteModeNow \in BOOLEAN /\ WriteModeSelected \in BOOLEAN
         /\ ClkNow \in Nat
         /\ RefreshInNow \in IF NREFI = 0 THEN {0} ELSE 1 .. NREFI
<1>1. ClkNow \in Nat
  BY DEF TypeInv, CountersOK, ClkNow
<1>2. RefreshInNow \in IF NREFI = 0 THEN {0} ELSE 1 .. NREFI
  BY ConstantTypes DEF TypeInv, CountersOK, RefreshInNow, RefreshDue
<1>3. PriorityNow \in Seq(Ranks)
  <2> DEFINE m == Cardinality(Ranks)
             q == [k \in 1 .. m |-> k - 1]
  <2>1. m \in Nat /\ \A k \in 1 .. m : k - 1 \in Ranks
    BY RankNumbers
  <2>2. q \in Seq(Ranks)
    BY <2>1
  <2> QED BY <2>2, ConcatProperties DEF PriorityNow, TypeInv, ChoicesOK
<1>4. WriteModeNow \in BOOLEAN /\ WriteModeSelected \in BOOLEAN
  BY DEF WriteModeNow, WriteModeSelected, TypeInv, ChoicesOK
<1>5. TickStart => CountersOK'
  BY <1>1, <1>2 DEF TickStart, TypeInv, CountersOK
<1> QED BY <1>1, <1>2, <1>3, <1>4, <1>5

LEMMA TickSynchronisedTypes ==
  ASSUME TypeInv, NEW n \in 0 .. Len(pending), TickSynchronised(n)
  PROVE  TypeInv'
<1>1. CountersOK' /\ ChoicesOK'
  BY TickStartTypes, ConstantTypes DEF TickSynchronised, ChoicesOK, TypeInv
<1>2. StepOK'
  <2>1. CASE CheckTiming(Elapsed, Final(casReq), BankOf(casReq))
    BY <2>1, PerformTypes DEF TickSynchronised
  <2>2. CASE ~CheckTiming(Elapsed, Final(casReq), BankOf(casReq))
    BY <2>2, WaitTypes DEF TickSynchronised
  <2> QED BY <2>1, <2>2
<1> QED BY <1>1, <1>2 DEF TypeInv

LEMMA TickUrgentTypes ==
  ASSUME TypeInv, NEW n \in 0 .. Len(pending), TickUrgent(n)
  PROVE  TypeInv'
<1>1. CountersOK' /\ ChoicesOK'
  BY TickStartTypes DEF TickUrgent, ChoicesOK, TypeInv
<1>2. StepOK'
  BY OpenRowTypes DEF TickUrgent
<1> QED BY <1>1, <1>2 DEF TypeInv

LEMMA TickMaintenanceTypes ==
  ASSUME TypeInv, NEW n \in 0 .. Len(pending), TickMaintenance(n)
  PROVE  TypeInv'
<1>1. PriorityNow \in Seq(Ranks) /\ PriorityNow # <<>>
  BY TickStartTypes DEF TickMaintenance, SelectsMaintenance, MaintenanceReady
<1>2. Tail(PriorityNow) \in Seq(Ranks)
  BY <1>1, HeadTailProperties
<1>3. CountersOK' /\ ChoicesOK'
  BY <1>1, <1>2, TickStartTypes DEF TickMaintenance, ChoicesOK, TypeInv
<1>4. RefreshCommand \in Cmd
  BY DEF RefreshCommand, PreqCommand, Cmd
<1>5. PIMDeviceTypeOK'
  BY <1>4, IssueTypes DEF TickMaintenance, TypeInv, StepOK
<1>6. StepOK'
  BY <1>5, DeviceOnlyTypes DEF TickMaintenance
<1> QED BY <1>3, <1>6 DEF TypeInv

LEMMA TickSelectedTypes ==
  ASSUME TypeInv, NEW n \in 0 .. Len(pending), TickSelected(n)
  PROVE  TypeInv'
<1> DEFINE Selected(buf, k) ==
         /\ TickStart /\ priority' = PriorityNow /\ writeMode' = WriteModeSelected
         /\ \/ /\ UNCHANGED casReq
               /\ \E j \in DOMAIN activating : OpenRow(n, j)
            \/ Synchronise(n, buf, k)
            \/ /\ UNCHANGED casReq
               /\ \/ Perform(n, buf, k) \/ Prepare(n, buf, k) \/ Activate(n, buf, k)
                  \/ Launch(n, buf, k) \/ LaunchAllBank(n, buf, k)
<1>0. PICK buf \in {"active", "read", "write"} : \E k \in DOMAIN Buffer(buf) : Selected(buf, k)
  BY DEF TickSelected
<1>1. PICK k \in DOMAIN Buffer(buf) : Selected(buf, k)
  BY <1>0
<1>2. CountersOK' /\ priority' \in Seq(Ranks) /\ writeMode' \in BOOLEAN
  BY <1>1, TickStartTypes
<1>3. casReq \in 0 .. MaxSend
  BY DEF TypeInv, ChoicesOK
<1>4. StepOK' /\ casReq' \in 0 .. MaxSend
  <2>1. CASE UNCHANGED casReq /\ \E j \in DOMAIN activating : OpenRow(n, j)
    BY <1>3, <2>1, OpenRowTypes
  <2>2. CASE Synchronise(n, buf, k)
    BY <2>2, SynchroniseTypes
  <2>3. CASE UNCHANGED casReq /\ Perform(n, buf, k)
    BY <1>3, <2>3, PerformTypes
  <2>4. CASE UNCHANGED casReq /\ Prepare(n, buf, k)
    BY <1>3, <2>4, PrepareTypes
  <2>5. CASE UNCHANGED casReq /\ Activate(n, buf, k)
    BY <1>3, <2>5, ActivateTypes
  <2>6. CASE UNCHANGED casReq /\ Launch(n, buf, k)
    BY <1>3, <2>6, LaunchTypes
  <2>7. CASE UNCHANGED casReq /\ LaunchAllBank(n, buf, k)
    BY <1>3, <2>7, LaunchAllBankTypes
  <2> QED BY <1>1, <2>1, <2>2, <2>3, <2>4, <2>5, <2>6, <2>7
<1> QED BY <1>2, <1>4 DEF TypeInv, ChoicesOK

LEMMA TickDeferredTypes ==
  ASSUME TypeInv, NEW n \in 0 .. Len(pending), TickDeferred(n)
  PROVE  TypeInv'
<1>1. CountersOK' /\ ChoicesOK'
  BY TickStartTypes DEF TickDeferred, ChoicesOK, TypeInv
<1>2. StepOK'
  BY OpenRowTypes, WaitTypes DEF TickDeferred
<1> QED BY <1>1, <1>2 DEF TypeInv

LEMMA TickThrowTypes ==
  ASSUME TypeInv, NEW n \in 0 .. Len(pending), TickThrow(n)
  PROVE  TypeInv'
<1>1. StepOK'
  BY WaitTypes DEF TickThrow
<1>2. CountersOK'
  BY TickStartTypes DEF TickThrow, TypeInv, CountersOK
<1>3. SubSeq(PriorityNow, 1, PrioritySize) \in Seq(Ranks)
  <2>1. /\ PriorityNow \in Seq(Ranks) /\ PrioritySize < Len(PriorityNow)
        /\ PrioritySize \in Nat /\ Len(PriorityNow) \in Nat
    BY TickStartTypes, ConstantTypes, LenProperties DEF TickThrow, RefreshFails
  <2>2. \A k \in 1 .. PrioritySize : PriorityNow[k] \in Ranks
    BY <2>1, ElementOfSeq
  <2> QED BY <2>1, <2>2, SubSeqProperties
<1>4. ChoicesOK'
  BY <1>3 DEF TickThrow, ChoicesOK, TypeInv
<1> QED BY <1>1, <1>2, <1>4 DEF TypeInv

(* The frontend's step.                                                    *)
LEMMA SendTypes ==
  ASSUME TypeInv, Send
  PROVE  TypeInv'
<1>1. PICK a \in Addrs : \/ SendForwardedRead(a) \/ SendCoalescedWrite(a) \/ SendWrite(a)
                         \/ \E final \in Finals : SendQueued(final, a)
  BY DEF Send
<1>2. PICK final \in Finals : Accept(final, a)
  BY <1>1 DEF SendForwardedRead, SendCoalescedWrite, SendWrite, SendQueued, Finals, Accesses
<1>3. sent + 1 \in Ids /\ CountersOK'
  <2>1. sent + 1 \in Ids /\ sent' \in 0 .. MaxSend
    BY <1>2, ConstantTypes DEF Accept, TypeInv, CountersOK, Ids
  <2>2. req' \in [Ids -> Requests]
    BY <1>2, <2>1 DEF Accept, TypeInv, CountersOK, Requests
  <2> QED BY <1>2, <2>1, <2>2 DEF Accept, TypeInv, CountersOK
<1>4. BuffersOK'
  <2>1. Append(readBuf, sent + 1) \in Seq(Ids) /\ Append(writeBuf, sent + 1) \in Seq(Ids)
    BY <1>3, ListTypes DEF TypeInv, StepOK, BuffersOK
  <2>2. buffered \cup {a} \subseteq Addrs
    BY DEF TypeInv, StepOK, BuffersOK
  <2> QED BY <1>1, <1>2, <2>1, <2>2 DEF TypeInv, StepOK, BuffersOK, Accept, bufferVars,
             SendForwardedRead, SendCoalescedWrite, SendWrite, SendQueued
<1>5. AnswersOK'
  <2>1. [id |-> sent + 1, left |-> 1] \in Timers
    BY <1>3 DEF Timers
  <2>2. Append(pending, [id |-> sent + 1, left |-> 1]) \in Seq(Timers)
    BY <2>1, AppendProperties DEF TypeInv, StepOK, AnswersOK
  <2>3. [replies EXCEPT ![sent + 1] = @ + 1] \in [Ids -> Nat]
    BY <1>3 DEF TypeInv, StepOK, AnswersOK
  <2> QED BY <1>1, <2>2, <2>3 DEF TypeInv, StepOK, AnswersOK,
             SendForwardedRead, SendCoalescedWrite, SendWrite, SendQueued
<1>6. /\ UNCHANGED deviceVars /\ UNCHANGED openingVars /\ UNCHANGED pimVars
      /\ UNCHANGED <<activePerBank, priority, writeMode, wckIn, casReq>>
  BY <1>2 DEF Accept
<1>7. PIMDeviceTypeOK' /\ OpeningOK' /\ ModesOK' /\ AllBankOK' /\ InflightOK' /\ ChoicesOK'
  BY <1>6 DEF TypeInv, StepOK, PIMDeviceTypeOK, OpeningOK, ModesOK, AllBankOK, InflightOK,
              ChoicesOK, deviceVars, openingVars, pimVars
<1> QED BY <1>3, <1>4, <1>5, <1>6, <1>7 DEF TypeInv, StepOK

LEMMA TypeInductive == TypeInv /\ [Next]_vars => TypeInv'
<1>1. ASSUME TypeInv, Tick PROVE TypeInv'
  BY <1>1, TickSynchronisedTypes, TickUrgentTypes, TickMaintenanceTypes, TickSelectedTypes,
     TickDeferredTypes, TickThrowTypes DEF Tick
<1>2. ASSUME TypeInv, UNCHANGED vars PROVE TypeInv'
  BY <1>2 DEF TypeInv, StepOK, CountersOK, ChoicesOK, PIMDeviceTypeOK, BuffersOK, OpeningOK,
              ModesOK, AllBankOK, InflightOK, AnswersOK, vars, deviceVars, bufferVars,
              openingVars, pimVars
<1> QED BY <1>1, <1>2, SendTypes DEF Next

LEMMA TypeInitially == Init => TypeInv
<1> SUFFICES ASSUME Init PROVE TypeInv
  OBVIOUS
<1>1. PIMDeviceTypeOK
  BY DEF Init, PIMDeviceInit, PIMDeviceTypeOK, Modes
<1>2. BuffersOK /\ AnswersOK
  BY EmptySeq DEF Init, BuffersOK, AnswersOK
<1>3. OpeningOK /\ ModesOK /\ AllBankOK
  BY EmptySeq, ConstantTypes DEF Init, OpeningOK, ModesOK, AllBankOK, Modes
<1>4. InflightOK
  BY FS_EmptySet DEF Init, InflightOK
<1>5. CountersOK
  <2>1. (CHOOSE a \in Addrs : TRUE) \in Addrs
    BY PIMControllerAssumption
  <2>2. req \in [Ids -> Requests]
    BY <2>1 DEF Init, Requests, Finals, Accesses
  <2>3. failed \in BOOLEAN
    BY DEF Init
  <2>4. sent \in 0 .. MaxSend /\ clk \in Nat
    BY ConstantTypes DEF Init
  <2>5. refreshIn \in IF NREFI = 0 THEN {0} ELSE 1 .. NREFI
    BY ConstantTypes DEF Init
  <2> QED BY <2>2, <2>3, <2>4, <2>5 DEF CountersOK
<1>6. ChoicesOK
  <2>1. writeMode \in BOOLEAN
    BY DEF Init
  <2>2. casReq \in 0 .. MaxSend
    BY ConstantTypes DEF Init
  <2>3. priority \in Seq(Ranks)
    BY EmptySeq DEF Init
  <2> QED BY <2>1, <2>2, <2>3 DEF ChoicesOK
<1>7. activePerBank \in [Banks -> Int] /\ wckIn \in Nat
  BY DEF Init
<1> QED BY <1>1, <1>2, <1>3, <1>4, <1>5, <1>6, <1>7 DEF TypeInv, StepOK

LEMMA TypeInvariant == Spec => []TypeInv
<1> QED BY TypeInitially, TypeInductive, PTL DEF Spec

(* The variables of the controller and its device keep their types.        *)
THEOREM TypeCorrect == Spec => []TypeOK
<1> QED BY TypeInvariant, TypeInvImpliesTypeOK, PTL

-----------------------------------------------------------------------------
(* Safety: the modes of a rank follow the session protocol, host accesses  *)
(* meet a rank in host mode, and the work in flight respects its operands, *)
(* its block and its slots.                                                *)

(* The requests the controller holds have been accepted.                   *)
KnownBuffers ==
  readBuf \in Seq(1 .. sent) /\ writeBuf \in Seq(1 .. sent) /\ active \in Seq(1 .. sent)
KnownInflight == \A f \in inflight : f.id \in 1 .. sent
KnownIds ==
  KnownBuffers /\ activating \in Seq(1 .. sent) /\ KnownInflight /\ ab \in 0 .. sent

(* The controller's idea of the modes is the device's.                     *)
ModesAgree == rankState = mode

(* A CAS is issued for an access of a rank in host mode, which the rank    *)
(* does not leave before the access has followed.                          *)
SyncInHostMode ==
  casReq # 0 => casReq \in 1 .. sent /\ IsHost(casReq) /\ mode[RankOfRequest(casReq)] = "SB"

SessionInv == TypeInv /\ KnownIds /\ ModesAgree /\ SyncInHostMode

-----------------------------------------------------------------------------
(* The requests held.                                                      *)

LEMMA KnownLists ==
  ASSUME NEW S, NEW q \in Seq(S), NEW k \in DOMAIN q
  PROVE  /\ q[k] \in S /\ RemoveAt(q, k) \in Seq(S)
         /\ \A i \in S : Append(q, i) \in Seq(S)
<1>1. q[k] \in S
  BY LenProperties, ElementOfSeq
<1> QED BY <1>1, RemoveAtProperties, AppendProperties

LEMMA SentIds == TypeInv => 1 .. sent \subseteq Ids /\ sent \in 0 .. MaxSend
BY ConstantTypes DEF TypeInv, CountersOK, Ids

LEMMA HeldIds ==
  ASSUME TypeInv, KnownIds, NEW buf \in {"active", "read", "write"}, NEW k \in DOMAIN Buffer(buf)
  PROVE  Buffer(buf)[k] \in 1 .. sent /\ Buffer(buf)[k] \in Ids
<1>1. Buffer(buf) \in Seq(1 .. sent)
  BY DEF Buffer, KnownIds, KnownBuffers
<1> QED BY <1>1, KnownLists, SentIds

Holds(q, i) == \E k \in DOMAIN q : q[k] = i

LEMMA BufferedHeld ==
  \A i : Buffered(i) <=> \/ Holds(readBuf, i) \/ Holds(writeBuf, i)
                         \/ Holds(activating, i) \/ Holds(active, i)
BY DEF Buffered, Holds

LEMMA HoldsLists ==
  ASSUME NEW S, NEW q \in Seq(S), NEW i
  PROVE  /\ \A k \in DOMAIN q : Holds(q, i) /\ i # q[k] => Holds(RemoveAt(q, k), i)
         /\ \A j \in S : Holds(q, i) \/ i = j => Holds(Append(q, j), i)
<1>1. ASSUME NEW k \in DOMAIN q, Holds(q, i), i # q[k] PROVE Holds(RemoveAt(q, k), i)
  BY <1>1, RemoveAtElements DEF Holds
<1>2. ASSUME NEW j \in S, Holds(q, i) \/ i = j PROVE Holds(Append(q, j), i)
  <2>1. /\ Len(q) \in Nat /\ DOMAIN q = 1 .. Len(q)
        /\ Append(q, j) \in Seq(S) /\ Len(Append(q, j)) = Len(q) + 1
        /\ \A m \in 1 .. Len(q) : Append(q, j)[m] = q[m]
        /\ Append(q, j)[Len(q) + 1] = j
    BY LenProperties, AppendProperties
  <2>2. DOMAIN Append(q, j) = 1 .. Len(q) + 1
    BY <2>1, LenProperties
  <2> QED BY <1>2, <2>1, <2>2 DEF Holds
<1> QED BY <1>1, <1>2

-----------------------------------------------------------------------------
(* The session of a rank.                                                  *)

Busy   == {RankOfRequest(i) : i \in {ab} \ {0}}
Loaded == {r \in Ranks : loadReady[r]}

(* What a command is prepared for.                                         *)
LEMMA CommandCases ==
  ASSUME CountersOK, NEW i \in Ids
  PROVE  /\ Command(i) \in Accesses => IsHost(i) /\ Command(i) = Final(i)
         /\ Command(i) # Final(i) /\ Command(i) \in Modes =>
              \/ Final(i) = "PIM_BCAST" /\ Command(i) = "HAB"
              \/ Final(i) = "PIM_MAC_AB" /\ Command(i) = "HAB_PIM"
         /\ Command(i) # Final(i) => Command(i) # "PIM_BCAST"
<1>1. Final(i) \in Finals
  BY RequestTypes
<1> QED BY <1>1 DEF Command, PreqCommand, Finals, Accesses, Modes, IsHost

(* The abstract state in the middle of a tick, when what is due is done.   *)
LEMMA SessionNow ==
  ASSUME TypeInv
  PROVE  /\ (IF AbDone THEN {} ELSE Busy) = {RankOfRequest(i) : i \in {AbNow} \ {0}}
         /\ (IF AbDone THEN Loaded \cup Busy ELSE Loaded) = {r \in Ranks : LoadReadyNow[r]}
         /\ AbDone \in BOOLEAN
<1>1. ab # 0 => ab \in Ids /\ RankOfRequest(ab) \in Ranks
  BY RequestTypes, ConstantTypes DEF TypeInv, StepOK, AllBankOK, Ids
<1>2. (IF AbDone THEN {} ELSE Busy) = {RankOfRequest(i) : i \in {AbNow} \ {0}}
  BY DEF AbNow, Busy
<1>3. AbDone => Loaded \cup Busy = {r \in Ranks : LoadReadyNow[r]}
  <2> SUFFICES ASSUME AbDone PROVE Loaded \cup Busy = {r \in Ranks : LoadReadyNow[r]}
    OBVIOUS
  <2>1. Busy = {RankOfRequest(ab)} /\ RankOfRequest(ab) \in Ranks
    BY <1>1 DEF Busy, AbDone
  <2>2. \A r \in Ranks : LoadReadyNow[r] <=> loadReady[r] \/ RankOfRequest(ab) = r
    BY DEF LoadReadyNow
  <2> QED BY <2>1, <2>2 DEF Loaded
<1>4. ~AbDone => Loaded = {r \in Ranks : LoadReadyNow[r]}
  BY DEF Loaded, LoadReadyNow
<1>5. AbDone \in BOOLEAN
  BY DEF AbDone
<1> QED BY <1>2, <1>3, <1>4, <1>5

(* The ranks whose operands can be used in this tick.                      *)
ReadyRanks == {r \in Ranks : LoadReadyNow[r]}

(* What a step of the session does, in the terms of the controller: the    *)
(* modes m, the readiness l and the operation a follow the state.          *)
SessionStep(m, l, a) ==
  \/ m = rankState /\ l = LoadReadyNow /\ a = AbNow
  \/ \E r \in Ranks :
       \/ \E c \in Modes :
            /\ AbNow # 0 => RankOfRequest(AbNow) # r
            /\ m = [rankState EXCEPT ![r] = c] /\ a = AbNow
            /\ l = IF c = "HAB_PIM" THEN LoadReadyNow ELSE [LoadReadyNow EXCEPT ![r] = FALSE]
       \/ /\ rankState[r] = "HAB"
          /\ AbNow # 0 => RankOfRequest(AbNow) # r
          /\ m = rankState /\ a = AbNow /\ l = [LoadReadyNow EXCEPT ![r] = TRUE]
       \/ /\ rankState[r] = "HAB_PIM" /\ r \in ReadyRanks /\ AbNow = 0
          /\ m = rankState /\ l = [LoadReadyNow EXCEPT ![r] = FALSE]
          /\ a # 0 /\ RankOfRequest(a) = r

LEMMA SessionStepRefines ==
  ASSUME TypeInv, TypeInv', UNCHANGED req, SessionStep(rankState', loadReady', ab')
  PROVE  Session!SessionNext
<1> DEFINE busyNow == {RankOfRequest(i) : i \in {AbNow} \ {0}}
           loadedNow == ReadyRanks
<1>0. PICK done \in BOOLEAN : done <=> AbDone
  BY SessionNow
<1>1. /\ Session!BusyAfter(done) = busyNow
      /\ Session!LoadedAfter(done) = loadedNow
  BY <1>0, SessionNow DEF ReadyRanks, Session!BusyAfter, Session!LoadedAfter, Busy, Loaded
<1>2. Busy' = {RankOfRequest(i) : i \in {ab'} \ {0}} /\ Loaded' = {r \in Ranks : loadReady'[r]}
  BY DEF Busy, Loaded, RankOfRequest, BankOf
<1>3. LoadReadyNow \in [Ranks -> BOOLEAN]
  BY LoadReadyTypes DEF TypeInv
<1>4. CASE rankState' = rankState /\ loadReady' = LoadReadyNow /\ ab' = AbNow
  <2>1. Busy' = busyNow /\ Loaded' = loadedNow
    BY <1>2, <1>4 DEF ReadyRanks
  <2>2. Session!Complete(done)
    BY <1>1, <1>4, <2>1 DEF Session!Complete, Busy, Loaded
  <2> QED BY <2>2 DEF Session!SessionNext
<1>5. ASSUME NEW r \in Ranks, NEW c \in Modes,
             AbNow # 0 => RankOfRequest(AbNow) # r,
             rankState' = [rankState EXCEPT ![r] = c], ab' = AbNow,
             loadReady' = IF c = "HAB_PIM" THEN LoadReadyNow ELSE [LoadReadyNow EXCEPT ![r] = FALSE]
      PROVE  Session!SessionNext
  <2>1. Busy' = busyNow /\ r \notin busyNow
    BY <1>2, <1>5
  <2>2. Loaded' = IF c = "HAB_PIM" THEN loadedNow ELSE loadedNow \ {r}
    BY <1>2, <1>3, <1>5 DEF ReadyRanks
  <2>3. Session!Switch(done, r, c)
    BY <1>1, <1>5, <2>1, <2>2 DEF Session!Switch, Busy, Loaded
  <2>4. c \in {"SB", "HAB", "HAB_PIM"}
    BY DEF Modes
  <2> QED BY <2>3, <2>4 DEF Session!SessionNext
<1>6. ASSUME NEW r \in Ranks, rankState[r] = "HAB", AbNow # 0 => RankOfRequest(AbNow) # r,
             rankState' = rankState, ab' = AbNow, loadReady' = [LoadReadyNow EXCEPT ![r] = TRUE]
      PROVE  Session!SessionNext
  <2>1. Busy' = busyNow /\ r \notin busyNow
    BY <1>2, <1>6
  <2>2. Loaded' = loadedNow \cup {r}
    BY <1>2, <1>3, <1>6 DEF ReadyRanks
  <2>3. Session!Load(done, r)
    BY <1>1, <1>6, <2>1, <2>2 DEF Session!Load, Busy, Loaded
  <2> QED BY <2>3 DEF Session!SessionNext
<1>7. ASSUME NEW r \in Ranks, rankState[r] = "HAB_PIM", r \in ReadyRanks, AbNow = 0,
             rankState' = rankState, loadReady' = [LoadReadyNow EXCEPT ![r] = FALSE],
             ab' # 0, RankOfRequest(ab') = r
      PROVE  Session!SessionNext
  <2>1. Busy' = {r} /\ busyNow = {} /\ r \in loadedNow
    BY <1>2, <1>7
  <2>2. Loaded' = loadedNow \ {r}
    BY <1>2, <1>3, <1>7 DEF ReadyRanks
  <2>3. Session!Start(done, r)
    BY <1>1, <1>7, <2>1, <2>2 DEF Session!Start, Busy, Loaded
  <2> QED BY <2>3 DEF Session!SessionNext
<1> QED
  <2>1. CASE \E r \in Ranks, c \in Modes :
               /\ AbNow # 0 => RankOfRequest(AbNow) # r
               /\ rankState' = [rankState EXCEPT ![r] = c] /\ ab' = AbNow
               /\ loadReady' = IF c = "HAB_PIM" THEN LoadReadyNow
                               ELSE [LoadReadyNow EXCEPT ![r] = FALSE]
    BY <1>5, <2>1
  <2>2. CASE \E r \in Ranks :
               /\ rankState[r] = "HAB"
               /\ AbNow # 0 => RankOfRequest(AbNow) # r
               /\ rankState' = rankState /\ ab' = AbNow
               /\ loadReady' = [LoadReadyNow EXCEPT ![r] = TRUE]
    BY <1>6, <2>2
  <2>3. CASE \E r \in Ranks :
               /\ rankState[r] = "HAB_PIM" /\ r \in ReadyRanks /\ AbNow = 0
               /\ rankState' = rankState /\ loadReady' = [LoadReadyNow EXCEPT ![r] = FALSE]
               /\ ab' # 0 /\ RankOfRequest(ab') = r
    BY <1>7, <2>3
  <2> QED BY <1>4, <2>1, <2>2, <2>3 DEF SessionStep

-----------------------------------------------------------------------------
(* The steps of a tick.                                                    *)

(* What every step of a tick has to show.                                  *)
HostLeaves ==
  \A i \in 1 .. sent : IsHost(i) /\ Buffered(i) /\ ~Buffered(i)'
                         => rankState[RankOfRequest(i)] = "SB"

StepSafe == KnownIds' /\ ModesAgree' /\ SessionStep(rankState', loadReady', ab') /\ HostLeaves

LEMMA SelectedEligible ==
  ASSUME NEW buf, NEW k, Selects(buf, k)
  PROVE  Eligible(Buffer(buf)[k])
BY DEF Selects, IsBest, Ready

LEMMA LeaveKnown ==
  ASSUME TypeInv, KnownIds, UNCHANGED <<sent, req>>,
         NEW buf \in {"active", "read", "write"}, NEW k \in DOMAIN Buffer(buf), Leave(buf, k)
  PROVE  /\ KnownBuffers'
         /\ \A i \in 1 .. sent : i # Buffer(buf)[k] /\ Buffered(i) /\ ~Holds(activating, i)
              => Holds(readBuf', i) \/ Holds(writeBuf', i) \/ Holds(active', i)
<1>1. Buffer(buf) \in Seq(1 .. sent)
  BY DEF Buffer, KnownIds, KnownBuffers
<1>2. RemoveAt(Buffer(buf), k) \in Seq(1 .. sent)
  BY <1>1, KnownLists
<1>3. KnownBuffers'
  BY <1>2 DEF Leave, KnownIds, KnownBuffers
<1>4. ASSUME NEW i \in 1 .. sent, i # Buffer(buf)[k], Holds(Buffer(buf), i)
      PROVE  Holds(RemoveAt(Buffer(buf), k), i)
  BY <1>1, <1>4, HoldsLists
<1>5. ASSUME NEW i \in 1 .. sent, i # Buffer(buf)[k], Buffered(i), ~Holds(activating, i)
      PROVE  Holds(readBuf', i) \/ Holds(writeBuf', i) \/ Holds(active', i)
  <2>1. Holds(readBuf, i) \/ Holds(writeBuf, i) \/ Holds(active, i)
    BY <1>5, BufferedHeld
  <2>2. CASE buf = "active"
    <3>1. readBuf' = readBuf /\ writeBuf' = writeBuf /\ active' = RemoveAt(active, k)
          /\ Buffer(buf) = active
      BY <2>2 DEF Leave, Buffer
    <3> QED BY <1>4, <1>5, <2>1, <3>1
  <2>3. CASE buf = "read"
    <3>1. active' = active /\ writeBuf' = writeBuf /\ readBuf' = RemoveAt(readBuf, k)
          /\ Buffer(buf) = readBuf
      BY <2>3 DEF Leave, Buffer
    <3> QED BY <1>4, <1>5, <2>1, <3>1
  <2>4. CASE buf = "write"
    <3>1. active' = active /\ readBuf' = readBuf /\ writeBuf' = RemoveAt(writeBuf, k)
          /\ Buffer(buf) = writeBuf
      BY <2>4 DEF Leave, Buffer
    <3> QED BY <1>4, <1>5, <2>1, <3>1
  <2> QED BY <2>2, <2>3, <2>4
<1> QED BY <1>3, <1>5

(* A request that leaves for good is no host request, or one in host mode. *)
LEMMA LeaveHost ==
  ASSUME TypeInv, KnownIds, UNCHANGED <<sent, req>>, UNCHANGED activating,
         NEW buf \in {"active", "read", "write"}, NEW k \in DOMAIN Buffer(buf), Leave(buf, k),
         IsHost(Buffer(buf)[k]) => rankState[RankOfRequest(Buffer(buf)[k])] = "SB"
  PROVE  HostLeaves
<1> SUFFICES ASSUME NEW i \in 1 .. sent, IsHost(i), Buffered(i), ~Buffered(i)'
             PROVE  rankState[RankOfRequest(i)] = "SB"
  BY DEF HostLeaves
<1>1. Buffered(i)' <=> \/ Holds(readBuf', i) \/ Holds(writeBuf', i)
                       \/ Holds(activating', i) \/ Holds(active', i)
  BY DEF Buffered, Holds
<1>2. ~Holds(activating, i)
  BY <1>1
<1>3. i = Buffer(buf)[k]
  BY <1>1, <1>2, LeaveKnown
<1> QED BY <1>3

(* What goes on by itself in a step that only changes the device.          *)
LEMMA InflightKnown ==
  ASSUME TypeInv, KnownIds, UNCHANGED sent
  PROVE  /\ MacsGoOn => KnownInflight'
         /\ AbNow \in 0 .. sent
         /\ \A f \in InflightNow : f.id \in 1 .. sent
<1>1. \A f \in InflightNow : f.id \in 1 .. sent
  <2> SUFFICES ASSUME NEW f \in inflight PROVE [f EXCEPT !.left = @ - 1].id \in 1 .. sent
    BY DEF InflightNow
  <2>1. f \in Timers
    BY DEF TypeInv, StepOK, InflightOK
  <2> QED BY <2>1 DEF Timers, KnownIds, KnownInflight
<1>2. MacsGoOn => KnownInflight'
  BY <1>1 DEF MacsGoOn, KnownInflight
<1>3. AbNow \in 0 .. sent
  BY SentIds DEF AbNow, KnownIds
<1> QED BY <1>1, <1>2, <1>3

LEMMA StaySafe ==
  ASSUME TypeInv, KnownIds, ModesAgree, UNCHANGED <<sent, req>>, UNCHANGED rankState,
         Stay, OpeningGoesOn, PimGoesOn
  PROVE  StepSafe
<1>1. UNCHANGED <<readBuf, writeBuf, active, activating>>
  BY DEF Stay, bufferVars, OpeningGoesOn
<1>2. KnownIds'
  <2>1. KnownBuffers' /\ activating' \in Seq(1 .. sent')
    BY <1>1 DEF KnownIds, KnownBuffers
  <2>2. KnownInflight' /\ ab' \in 0 .. sent'
    BY InflightKnown DEF PimGoesOn, AbGoesOn
  <2> QED BY <2>1, <2>2 DEF KnownIds
<1>3. ModesAgree' /\ SessionStep(rankState', loadReady', ab')
  BY DEF PimGoesOn, AbGoesOn, RanksStay, ModesAgree, SessionStep
<1>4. HostLeaves
  BY <1>1 DEF HostLeaves, Buffered
<1> QED BY <1>2, <1>3, <1>4 DEF StepSafe

LEMMA PerformSafe ==
  ASSUME SessionInv, UNCHANGED <<sent, req>>, NEW n,
         NEW buf \in {"active", "read", "write"}, NEW k \in DOMAIN Buffer(buf), Perform(n, buf, k),
         \/ Eligible(Buffer(buf)[k])
         \/ IsHost(Buffer(buf)[k]) /\ mode[RankOfRequest(Buffer(buf)[k])] = "SB"
  PROVE  StepSafe
<1> DEFINE i == Buffer(buf)[k]
           c == Final(i)
           r == RankOfRequest(i)
<1>1. TypeInv /\ KnownIds /\ ModesAgree /\ i \in Ids /\ CountersOK
  BY HeldIds DEF SessionInv, TypeInv
<1>2. r \in Ranks /\ c \in Finals
  BY <1>1, RequestTypes
<1>3. /\ Leave(buf, k) /\ OpeningGoesOn /\ AbGoesOn /\ MacsGoOn
      /\ IssueCommand(c, BankOf(i), RowOf(i)) /\ EnterMode(c, r)
      /\ Command(i) = c /\ c \notin {"PIM_MAC", "PIM_MAC_AB"}
  BY DEF Perform
<1>4. KnownIds'
  BY <1>1, <1>3, LeaveKnown, InflightKnown DEF KnownIds, OpeningGoesOn, AbGoesOn
<1>5. ModesAgree' /\ rankState' = IF c \in Modes THEN [rankState EXCEPT ![r] = c] ELSE rankState
  BY <1>1, <1>3 DEF ModesAgree, IssueCommand, EnterMode, ModeAfter, RankOfRequest
<1>6. loadReady' = LoadReadyAfter(c, r) /\ ab' = AbNow
  BY <1>3 DEF EnterMode, AbGoesOn
<1>7. HostLeaves
  <2>1. IsHost(i) => mode[r] = "SB"
    BY DEF Eligible, HostBlocked
  <2> QED BY <1>1, <1>3, <2>1, LeaveHost DEF ModesAgree, OpeningGoesOn
<1>8. SessionStep(rankState', loadReady', ab')
  <2>1. CASE c \in Accesses
    <3>1. c \notin Modes /\ c # "PIM_BCAST"
      BY <2>1 DEF Accesses, Modes
    <3>2. rankState' = rankState /\ loadReady' = LoadReadyNow
      BY <1>5, <1>6, <3>1 DEF LoadReadyAfter, Modes
    <3> QED BY <1>6, <3>2 DEF SessionStep
  <2>2. CASE c \in Modes
    <3>1. AbNow # 0 => RankOfRequest(AbNow) # r
      <4>1. ~IsHost(i)
        BY <2>2 DEF IsHost, Accesses, Modes
      <4> QED BY <2>2, <4>1 DEF Eligible, LaunchBlocked, ModeBlocked
    <3>2. loadReady' = IF c = "HAB_PIM" THEN LoadReadyNow ELSE [LoadReadyNow EXCEPT ![r] = FALSE]
      BY <1>6, <2>2 DEF LoadReadyAfter, Modes
    <3>3. rankState' = [rankState EXCEPT ![r] = c]
      BY <1>5, <2>2
    <3> HIDE DEF r, c
    <3> QED BY <1>2, <1>6, <2>2, <3>1, <3>2, <3>3 DEF SessionStep
  <2>3. CASE c = "PIM_BCAST"
    <3>1. ~IsHost(i) /\ c # "HAB"
      BY <2>3 DEF IsHost, Accesses
    <3>2. (AbNow # 0 => RankOfRequest(AbNow) # r) /\ mode[r] = "HAB"
      BY <1>3, <2>3, <3>1 DEF Eligible, LaunchBlocked, ModeBlocked
    <3>3. loadReady' = [LoadReadyNow EXCEPT ![r] = TRUE] /\ rankState' = rankState
      BY <1>5, <1>6, <2>3 DEF LoadReadyAfter, Modes
    <3> HIDE DEF r, c
    <3> QED BY <1>1, <1>2, <1>6, <3>2, <3>3 DEF SessionStep, ModesAgree
  <2> QED BY <1>2, <1>3, <2>1, <2>2, <2>3 DEF Finals
<1> QED BY <1>4, <1>5, <1>7, <1>8 DEF StepSafe

LEMMA PrepareSafe ==
  ASSUME SessionInv, UNCHANGED <<sent, req>>, NEW n,
         NEW buf \in {"active", "read", "write"}, NEW k \in DOMAIN Buffer(buf), Prepare(n, buf, k),
         Eligible(Buffer(buf)[k])
  PROVE  StepSafe
<1> DEFINE i == Buffer(buf)[k]
           c == Command(i)
           r == RankOfRequest(i)
<1>1. TypeInv /\ KnownIds /\ ModesAgree /\ i \in Ids /\ CountersOK
  BY HeldIds DEF SessionInv, TypeInv
<1>2. r \in Ranks
  BY <1>1, RequestTypes
<1>3. /\ Stay /\ OpeningGoesOn /\ AbGoesOn /\ MacsGoOn
      /\ IssueCommand(c, BankOf(i), RowOf(i)) /\ EnterMode(c, r)
      /\ c # Final(i)
  BY DEF Prepare
<1>4. KnownIds'
  <2>1. UNCHANGED <<readBuf, writeBuf, active, activating>>
    BY <1>3 DEF Stay, bufferVars, OpeningGoesOn
  <2>2. KnownInflight' /\ ab' \in 0 .. sent'
    BY <1>1, <1>3, InflightKnown DEF AbGoesOn
  <2> QED BY <1>1, <2>1, <2>2 DEF KnownIds, KnownBuffers
<1>5. ModesAgree' /\ rankState' = IF c \in Modes THEN [rankState EXCEPT ![r] = c] ELSE rankState
  BY <1>1, <1>3 DEF ModesAgree, IssueCommand, EnterMode, ModeAfter, RankOfRequest
<1>6. loadReady' = LoadReadyAfter(c, r) /\ ab' = AbNow
  BY <1>3 DEF EnterMode, AbGoesOn
<1>7. HostLeaves
  BY <1>3 DEF HostLeaves, Buffered, Stay, bufferVars, OpeningGoesOn
<1>8. SessionStep(rankState', loadReady', ab')
  <2>1. CASE c \notin Modes
    <3>1. c # "PIM_BCAST"
      BY <1>1, <1>3, CommandCases
    <3>2. rankState' = rankState /\ loadReady' = LoadReadyNow
      BY <1>5, <1>6, <2>1, <3>1 DEF LoadReadyAfter, Modes
    <3> QED BY <1>6, <3>2 DEF SessionStep
  <2>2. CASE c \in Modes
    <3>1. AbNow # 0 => RankOfRequest(AbNow) # r
      <4>1. \/ Final(i) = "PIM_BCAST" /\ c = "HAB"
            \/ Final(i) = "PIM_MAC_AB" /\ c = "HAB_PIM"
        BY <1>1, <1>3, <2>2, CommandCases
      <4> QED BY <4>1 DEF Eligible, LaunchBlocked, ModeBlocked
    <3>2. loadReady' = IF c = "HAB_PIM" THEN LoadReadyNow ELSE [LoadReadyNow EXCEPT ![r] = FALSE]
      BY <1>6, <2>2 DEF LoadReadyAfter, Modes
    <3>3. rankState' = [rankState EXCEPT ![r] = c]
      BY <1>5, <2>2
    <3> HIDE DEF r, c
    <3> QED BY <1>2, <1>6, <2>2, <3>1, <3>2, <3>3 DEF SessionStep
  <2> QED BY <2>1, <2>2
<1> QED BY <1>4, <1>5, <1>7, <1>8 DEF StepSafe

LEMMA ActivateSafe ==
  ASSUME SessionInv, UNCHANGED <<sent, req>>, NEW n,
         NEW buf \in {"active", "read", "write"}, NEW k \in DOMAIN Buffer(buf), Activate(n, buf, k)
  PROVE  StepSafe
<1> DEFINE i == Buffer(buf)[k]
<1>1. TypeInv /\ KnownIds /\ ModesAgree /\ i \in 1 .. sent
  BY HeldIds DEF SessionInv
<1>2. /\ Leave(buf, k) /\ activating' = Append(activating, i) /\ PimGoesOn
      /\ IssueCommand("ACT1", BankOf(i), RowOf(i))
  BY DEF Activate
<1>3. KnownIds'
  <2>1. activating' \in Seq(1 .. sent)
    BY <1>1, <1>2, AppendProperties DEF KnownIds
  <2>2. KnownBuffers' /\ KnownInflight' /\ ab' \in 0 .. sent'
    BY <1>1, <1>2, LeaveKnown, InflightKnown DEF PimGoesOn, AbGoesOn
  <2> QED BY <2>1, <2>2 DEF KnownIds
<1>4. ModesAgree' /\ SessionStep(rankState', loadReady', ab')
  <2>1. rankState' = rankState
    BY <1>2 DEF IssueCommand, Modes
  <2> QED BY <1>1, <1>2, <2>1 DEF PimGoesOn, AbGoesOn, RanksStay, ModesAgree, SessionStep
<1>5. HostLeaves
  <2> SUFFICES ASSUME NEW j \in 1 .. sent, Buffered(j) PROVE Buffered(j)'
    BY DEF HostLeaves
  <2>1. Buffered(j)' <=> \/ Holds(readBuf', j) \/ Holds(writeBuf', j)
                         \/ Holds(activating', j) \/ Holds(active', j)
    BY DEF Buffered, Holds
  <2>2. Holds(activating, j) \/ j = i => Holds(activating', j)
    BY <1>1, <1>2, HoldsLists DEF KnownIds
  <2> QED BY <1>1, <1>2, <2>1, <2>2, LeaveKnown
<1> QED BY <1>3, <1>4, <1>5 DEF StepSafe

LEMMA LaunchSafe ==
  ASSUME SessionInv, UNCHANGED <<sent, req>>, NEW n,
         NEW buf \in {"active", "read", "write"}, NEW k \in DOMAIN Buffer(buf), Launch(n, buf, k)
  PROVE  StepSafe
<1> DEFINE i == Buffer(buf)[k]
<1>1. TypeInv /\ KnownIds /\ ModesAgree /\ i \in 1 .. sent
  BY HeldIds DEF SessionInv
<1>2. /\ Leave(buf, k) /\ OpeningGoesOn /\ AbGoesOn /\ RanksStay /\ Final(i) = "PIM_MAC"
      /\ inflight' = InflightNow \cup {[id |-> i, left |-> PimLatency]}
      /\ IssueCommand("PIM_MAC", BankOf(i), RowOf(i))
  BY DEF Launch
<1>3. KnownIds'
  <2>1. KnownInflight'
    BY <1>1, <1>2, InflightKnown DEF KnownInflight
  <2>2. KnownBuffers' /\ ab' \in 0 .. sent' /\ activating' \in Seq(1 .. sent')
    BY <1>1, <1>2, LeaveKnown, InflightKnown DEF AbGoesOn, OpeningGoesOn, KnownIds
  <2> QED BY <2>1, <2>2 DEF KnownIds
<1>4. ModesAgree' /\ SessionStep(rankState', loadReady', ab')
  <2>1. rankState' = rankState
    BY <1>2 DEF IssueCommand, Modes
  <2> QED BY <1>1, <1>2, <2>1 DEF AbGoesOn, RanksStay, ModesAgree, SessionStep
<1>5. HostLeaves
  BY <1>1, <1>2, LeaveHost DEF IsHost, Accesses, OpeningGoesOn
<1> QED BY <1>3, <1>4, <1>5 DEF StepSafe

LEMMA LaunchAllBankSafe ==
  ASSUME SessionInv, UNCHANGED <<sent, req>>, NEW n,
         NEW buf \in {"active", "read", "write"}, NEW k \in DOMAIN Buffer(buf),
         LaunchAllBank(n, buf, k), Eligible(Buffer(buf)[k])
  PROVE  StepSafe
<1> DEFINE i == Buffer(buf)[k]
           r == RankOfRequest(i)
<1>1. TypeInv /\ KnownIds /\ ModesAgree /\ i \in 1 .. sent /\ i \in Ids /\ CountersOK
  BY HeldIds DEF SessionInv, TypeInv
<1>2. /\ Leave(buf, k) /\ OpeningGoesOn /\ MacsGoOn /\ UNCHANGED mode
      /\ Final(i) = "PIM_MAC_AB" /\ Command(i) = "PIM_MAC_AB"
      /\ IssueCommand("PIM_MAC_AB", BankOf(i), RowOf(i))
      /\ ab' = i /\ loadReady' = [LoadReadyNow EXCEPT ![r] = FALSE]
  BY DEF LaunchAllBank
<1>3. KnownIds'
  <2>1. KnownBuffers' /\ KnownInflight' /\ activating' \in Seq(1 .. sent')
    BY <1>1, <1>2, LeaveKnown, InflightKnown DEF OpeningGoesOn, KnownIds
  <2>2. ab' \in 0 .. sent'
    BY <1>1, <1>2, SentIds
  <2> QED BY <2>1, <2>2 DEF KnownIds
<1>4. ModesAgree' /\ rankState' = rankState
  BY <1>1, <1>2 DEF IssueCommand, Modes, ModesAgree
<1>5. SessionStep(rankState', loadReady', ab')
  <2>1. mode[r] = "HAB_PIM" /\ LoadReadyNow[r] /\ AbNow = 0
    BY <1>2 DEF Eligible, LaunchBlocked, AllBankBlocked
  <2>2. r \in Ranks
    BY <1>1, RequestTypes
  <2>3. rankState[r] = "HAB_PIM" /\ r \in ReadyRanks
    BY <1>1, <2>1, <2>2 DEF ModesAgree, ReadyRanks
  <2>4. ab' # 0 /\ RankOfRequest(ab') = r
    BY <1>1, <1>2, SentIds
  <2> HIDE DEF r
  <2> QED BY <1>2, <1>4, <2>1, <2>2, <2>3, <2>4 DEF SessionStep
<1>6. HostLeaves
  BY <1>1, <1>2, LeaveHost DEF IsHost, Accesses, OpeningGoesOn
<1> QED BY <1>3, <1>4, <1>5, <1>6 DEF StepSafe

LEMMA OpenRowSafe ==
  ASSUME SessionInv, UNCHANGED <<sent, req>>, NEW n, NEW k \in DOMAIN activating, OpenRow(n, k)
  PROVE  StepSafe
<1> DEFINE i == activating[k]
<1>1. TypeInv /\ KnownIds /\ ModesAgree /\ i \in 1 .. sent
  BY KnownLists DEF SessionInv, KnownIds
<1>2. /\ PimGoesOn /\ UNCHANGED bufferVars /\ IssueCommand("ACT2", BankOf(i), RowOf(i))
      /\ \/ active' = Append(active, i) /\ activating' = RemoveAt(activating, k)
         \/ UNCHANGED <<active, activating>>
  BY DEF OpenRow
<1>3. KnownIds'
  <2>1. activating' \in Seq(1 .. sent) /\ active' \in Seq(1 .. sent)
    <3>1. activating \in Seq(1 .. sent) /\ active \in Seq(1 .. sent)
      BY <1>1 DEF KnownIds, KnownBuffers
    <3>2. RemoveAt(activating, k) \in Seq(1 .. sent)
      BY <3>1, KnownLists
    <3>3. Append(active, i) \in Seq(1 .. sent)
      BY <1>1, <3>1, AppendProperties
    <3> QED BY <1>2, <3>1, <3>2, <3>3
  <2>2. KnownInflight' /\ ab' \in 0 .. sent'
    BY <1>1, <1>2, InflightKnown DEF PimGoesOn, AbGoesOn
  <2> QED BY <1>1, <1>2, <2>1, <2>2 DEF KnownIds, KnownBuffers, bufferVars
<1>4. ModesAgree' /\ SessionStep(rankState', loadReady', ab')
  <2>1. rankState' = rankState
    BY <1>2 DEF IssueCommand, Modes
  <2> QED BY <1>1, <1>2, <2>1 DEF PimGoesOn, AbGoesOn, RanksStay, ModesAgree, SessionStep
<1>5. HostLeaves
  <2> SUFFICES ASSUME NEW j \in 1 .. sent, Buffered(j) PROVE Buffered(j)'
    BY DEF HostLeaves
  <2>1. Buffered(j)' <=> \/ Holds(readBuf', j) \/ Holds(writeBuf', j)
                         \/ Holds(activating', j) \/ Holds(active', j)
    BY DEF Buffered, Holds
  <2>2. CASE UNCHANGED <<active, activating>>
    BY <1>2, <2>1, <2>2, BufferedHeld DEF bufferVars
  <2>3. CASE active' = Append(active, i) /\ activating' = RemoveAt(activating, k)
    <3>1. Holds(activating, j) /\ j # i => Holds(activating', j)
      BY <1>1, <2>3, HoldsLists DEF KnownIds
    <3>2. Holds(active, j) \/ j = i => Holds(active', j)
      BY <1>1, <2>3, HoldsLists DEF KnownIds, KnownBuffers
    <3> QED BY <1>2, <2>1, <3>1, <3>2, BufferedHeld DEF bufferVars
  <2> QED BY <1>2, <2>2, <2>3
<1> QED BY <1>3, <1>4, <1>5 DEF StepSafe

LEMMA WaitSafe ==
  ASSUME SessionInv, UNCHANGED <<sent, req>>, NEW n, Wait(n)
  PROVE  StepSafe /\ UNCHANGED mode
<1>1. TypeInv /\ KnownIds /\ ModesAgree
  BY DEF SessionInv
<1>2. Stay /\ OpeningGoesOn /\ PimGoesOn /\ UNCHANGED rankState
  BY DEF Wait, IssueNothing
<1>3. UNCHANGED mode
  BY <1>2 DEF PimGoesOn, RanksStay
<1> QED BY <1>1, <1>2, <1>3, StaySafe

LEMMA SynchroniseSafe ==
  ASSUME SessionInv, UNCHANGED <<sent, req>>, NEW n,
         NEW buf \in {"active", "read", "write"}, NEW k \in DOMAIN Buffer(buf),
         Synchronise(n, buf, k), NeedsSync(Buffer(buf)[k]), Eligible(Buffer(buf)[k])
  PROVE  StepSafe /\ SyncInHostMode'
<1> DEFINE i == Buffer(buf)[k]
<1>1. TypeInv /\ KnownIds /\ ModesAgree /\ i \in 1 .. sent /\ i \in Ids /\ CountersOK
  BY HeldIds DEF SessionInv, TypeInv
<1>2. /\ Stay /\ OpeningGoesOn /\ PimGoesOn /\ casReq' = i
      /\ IssueCommand(IF Final(i) = "RD" THEN "CAS_RD" ELSE "CAS_WR", BankOf(i), RowOf(i))
  BY DEF Synchronise
<1>3. UNCHANGED rankState
  BY <1>2 DEF IssueCommand, Modes
<1>4. IsHost(i) /\ mode[RankOfRequest(i)] = "SB"
  BY <1>1, CommandCases DEF NeedsSync, Eligible, HostBlocked
<1>5. SyncInHostMode'
  <2>1. mode' = mode /\ IsHost(casReq)' /\ RankOfRequest(casReq)' = RankOfRequest(i)
        /\ casReq' \in 1 .. sent'
    BY <1>1, <1>2, <1>4 DEF PimGoesOn, RanksStay, IsHost, Final, RankOfRequest, BankOf
  <2> QED BY <1>4, <2>1 DEF SyncInHostMode
<1> QED BY <1>1, <1>2, <1>3, <1>5, StaySafe

LEMMA SyncStays ==
  ASSUME SessionInv, UNCHANGED <<sent, req, casReq>>, casReq = 0 \/ UNCHANGED mode
  PROVE  SyncInHostMode'
BY DEF SessionInv, SyncInHostMode, IsHost, Final, RankOfRequest, BankOf

LEMMA TickSelectedSafe ==
  ASSUME SessionInv, UNCHANGED <<sent, req>>, NEW n, TickSelected(n)
  PROVE  StepSafe /\ SyncInHostMode'
<1> DEFINE Step(buf, k) ==
             /\ Selects(buf, k) /\ casReq = 0
             /\ \/ UNCHANGED casReq /\ \E j \in DOMAIN activating : OpenRow(n, j)
                \/ NeedsSync(Buffer(buf)[k]) /\ Synchronise(n, buf, k)
                \/ /\ UNCHANGED casReq
                   /\ \/ Perform(n, buf, k) \/ Prepare(n, buf, k) \/ Activate(n, buf, k)
                      \/ Launch(n, buf, k) \/ LaunchAllBank(n, buf, k)
<1>1. PICK buf \in {"active", "read", "write"} : \E k \in DOMAIN Buffer(buf) : Step(buf, k)
  BY DEF TickSelected
<1>2. PICK k \in DOMAIN Buffer(buf) : Step(buf, k)
  BY <1>1
<1>3. Eligible(Buffer(buf)[k])
  BY <1>2, SelectedEligible
<1>4. UNCHANGED casReq => SyncInHostMode'
  BY <1>2, SyncStays
<1>5. CASE UNCHANGED casReq /\ \E j \in DOMAIN activating : OpenRow(n, j)
  BY <1>4, <1>5, OpenRowSafe
<1>6. CASE NeedsSync(Buffer(buf)[k]) /\ Synchronise(n, buf, k)
  BY <1>3, <1>6, SynchroniseSafe
<1>7. CASE UNCHANGED casReq /\ Perform(n, buf, k)
  BY <1>3, <1>4, <1>7, PerformSafe
<1>8. CASE UNCHANGED casReq /\ Prepare(n, buf, k)
  BY <1>3, <1>4, <1>8, PrepareSafe
<1>9. CASE UNCHANGED casReq /\ Activate(n, buf, k)
  BY <1>4, <1>9, ActivateSafe
<1>10. CASE UNCHANGED casReq /\ Launch(n, buf, k)
  BY <1>4, <1>10, LaunchSafe
<1>11. CASE UNCHANGED casReq /\ LaunchAllBank(n, buf, k)
  BY <1>3, <1>4, <1>11, LaunchAllBankSafe
<1> QED BY <1>2, <1>5, <1>6, <1>7, <1>8, <1>9, <1>10, <1>11

LEMMA TickSynchronisedSafe ==
  ASSUME SessionInv, UNCHANGED <<sent, req>>, NEW n, TickSynchronised(n)
  PROVE  StepSafe /\ SyncInHostMode'
<1>1. casReq # 0 /\ IsHost(casReq) /\ mode[RankOfRequest(casReq)] = "SB"
  BY DEF TickSynchronised, SessionInv, SyncInHostMode
<1>2. CASE CheckTiming(Elapsed, Final(casReq), BankOf(casReq))
  <2>1. casReq' = 0
    BY <1>2 DEF TickSynchronised
  <2>2. PICK buf \in {"active", "read", "write"} : \E k \in DOMAIN Buffer(buf) :
          Buffer(buf)[k] = casReq /\ Perform(n, buf, k)
    BY <1>2 DEF TickSynchronised
  <2>3. StepSafe
    BY <1>1, <2>2, PerformSafe
  <2> QED BY <2>1, <2>3 DEF SyncInHostMode
<1>3. CASE ~CheckTiming(Elapsed, Final(casReq), BankOf(casReq))
  <2>1. Wait(n) /\ UNCHANGED casReq
    BY <1>3 DEF TickSynchronised
  <2> QED BY <2>1, WaitSafe, SyncStays
<1> QED BY <1>2, <1>3

LEMMA TickMaintenanceSafe ==
  ASSUME SessionInv, UNCHANGED <<sent, req>>, NEW n, TickMaintenance(n)
  PROVE  StepSafe /\ SyncInHostMode'
<1>1. /\ IssueCommand(RefreshCommand, RefreshBank, Closed)
      /\ Stay /\ OpeningGoesOn /\ PimGoesOn /\ casReq = 0 /\ UNCHANGED casReq
  BY DEF TickMaintenance
<1>2. UNCHANGED rankState
  BY <1>1 DEF IssueCommand, RefreshCommand, PreqCommand, Modes
<1>3. TypeInv /\ KnownIds /\ ModesAgree
  BY DEF SessionInv
<1> QED BY <1>1, <1>2, <1>3, StaySafe, SyncStays

LEMMA TickSafe ==
  ASSUME SessionInv, Tick
  PROVE  StepSafe /\ SyncInHostMode' /\ UNCHANGED <<sent, req>>
<1>1. PICK n \in 0 .. Len(pending) :
        \/ TickSynchronised(n) \/ TickUrgent(n) \/ TickMaintenance(n) \/ TickSelected(n)
        \/ TickDeferred(n) \/ TickThrow(n)
  BY DEF Tick
<1>2. UNCHANGED <<sent, req>>
  BY <1>1 DEF TickSynchronised, TickUrgent, TickMaintenance, TickSelected, TickDeferred,
              TickThrow, TickStart
<1>3. CASE TickUrgent(n)
  <2>1. casReq = 0 /\ UNCHANGED casReq /\ \E k \in DOMAIN activating : OpenRow(n, k)
    BY <1>3 DEF TickUrgent
  <2> QED BY <1>2, <2>1, OpenRowSafe, SyncStays
<1>4. CASE TickDeferred(n)
  <2>1. /\ casReq = 0 /\ UNCHANGED casReq
        /\ Wait(n) \/ \E k \in DOMAIN activating : OpenRow(n, k)
    BY <1>4 DEF TickDeferred
  <2> QED BY <1>2, <2>1, OpenRowSafe, WaitSafe, SyncStays
<1>5. CASE TickThrow(n)
  <2>1. Wait(n) /\ UNCHANGED casReq
    BY <1>5 DEF TickThrow
  <2> QED BY <1>2, <2>1, WaitSafe, SyncStays
<1> QED BY <1>1, <1>2, <1>3, <1>4, <1>5, TickSynchronisedSafe, TickMaintenanceSafe,
           TickSelectedSafe

(* A step of the frontend leaves the session as it is.                     *)
LEMMA SendSafe ==
  ASSUME SessionInv, Send
  PROVE  /\ KnownIds' /\ ModesAgree' /\ SyncInHostMode' /\ HostLeaves
         /\ UNCHANGED <<rankState, loadReady, ab, inflight, slots>>
         /\ sent' = sent + 1 /\ \A i \in 1 .. sent : req'[i] = req[i]
<1>1. PICK a \in Addrs : \/ SendForwardedRead(a) \/ SendCoalescedWrite(a) \/ SendWrite(a)
                         \/ \E final \in Finals : SendQueued(final, a)
  BY DEF Send
<1>2. PICK final \in Finals : Accept(final, a)
  BY <1>1 DEF SendForwardedRead, SendCoalescedWrite, SendWrite, SendQueued, Finals, Accesses
<1>3. TypeInv /\ KnownIds /\ ModesAgree /\ SyncInHostMode
  BY DEF SessionInv
<1>4. /\ UNCHANGED <<rankState, loadReady, ab, inflight, slots, mode, casReq, active, activating>>
      /\ sent' = sent + 1
  BY <1>2 DEF Accept, deviceVars, pimVars, openingVars
<1>5. sent \in Nat /\ 1 .. sent \subseteq Ids
  BY <1>3, SentIds, ConstantTypes
<1>6. \A i \in 1 .. sent : req'[i] = req[i]
  <2>1. sent + 1 \notin 1 .. sent
    BY <1>5
  <2> QED BY <1>2, <1>3, <1>5, <2>1 DEF Accept, TypeInv, CountersOK
<1>7. /\ readBuf' \in {readBuf, Append(readBuf, sent + 1)}
      /\ writeBuf' \in {writeBuf, Append(writeBuf, sent + 1)}
  BY <1>1 DEF SendForwardedRead, SendCoalescedWrite, SendWrite, SendQueued, bufferVars
<1>8. KnownIds'
  <2>1. 1 .. sent \subseteq 1 .. sent' /\ sent + 1 \in 1 .. sent' /\ 0 .. sent \subseteq 0 .. sent'
    BY <1>4, <1>5
  <2>2. \A q \in Seq(1 .. sent) : q \in Seq(1 .. sent') /\ Append(q, sent + 1) \in Seq(1 .. sent')
    BY <2>1, SeqMonotonic, AppendProperties
  <2>3. KnownBuffers' /\ activating' \in Seq(1 .. sent')
    BY <1>3, <1>4, <1>7, <2>2 DEF KnownIds, KnownBuffers
  <2>4. KnownInflight' /\ ab' \in 0 .. sent'
    BY <1>3, <1>4, <2>1 DEF KnownIds, KnownInflight
  <2> QED BY <2>3, <2>4 DEF KnownIds
<1>9. SyncInHostMode'
  <2>1. CASE casReq = 0
    BY <1>4, <2>1 DEF SyncInHostMode
  <2>2. CASE casReq # 0
    <3>1. casReq \in 1 .. sent /\ IsHost(casReq) /\ mode[RankOfRequest(casReq)] = "SB"
      BY <1>3, <2>2 DEF SyncInHostMode
    <3>2. casReq \in 1 .. sent' /\ req'[casReq] = req[casReq]
      BY <1>4, <1>5, <1>6, <3>1
    <3> QED BY <1>4, <3>1, <3>2 DEF SyncInHostMode, IsHost, Final, RankOfRequest, BankOf
  <2> QED BY <2>1, <2>2
<1>10. HostLeaves
  <2> SUFFICES ASSUME NEW j \in 1 .. sent, Buffered(j) PROVE Buffered(j)'
    BY DEF HostLeaves
  <2>1. Buffered(j)' <=> \/ Holds(readBuf', j) \/ Holds(writeBuf', j)
                         \/ Holds(activating', j) \/ Holds(active', j)
    BY DEF Buffered, Holds
  <2>2. readBuf \in Seq(Ids) /\ writeBuf \in Seq(Ids) /\ sent + 1 \in Ids
    BY <1>2, <1>3, <1>5, ConstantTypes DEF TypeInv, StepOK, BuffersOK, Accept, Ids
  <2>3. /\ Holds(readBuf, j) => Holds(readBuf', j)
        /\ Holds(writeBuf, j) => Holds(writeBuf', j)
    <3>1. \A q \in Seq(Ids) : Holds(q, j) => Holds(Append(q, sent + 1), j)
      BY <2>2, HoldsLists
    <3> QED BY <1>7, <2>2, <3>1
  <2> QED BY <1>4, <2>1, <2>3, BufferedHeld
<1> QED BY <1>3, <1>4, <1>6, <1>8, <1>9, <1>10 DEF ModesAgree

LEMMA SessionInductive == SessionInv /\ [Next]_vars => SessionInv' /\ HostLeaves
<1> SUFFICES ASSUME SessionInv, [Next]_vars PROVE SessionInv' /\ HostLeaves
  OBVIOUS
<1>1. TypeInv'
  BY TypeInductive DEF SessionInv
<1>2. CASE Tick
  BY <1>1, <1>2, TickSafe DEF SessionInv, StepSafe
<1>3. CASE Send
  BY <1>1, <1>3, SendSafe DEF SessionInv
<1>4. CASE UNCHANGED vars
  <2>1. UNCHANGED <<sent, req, readBuf, writeBuf, active, activating, inflight, ab, rankState,
                    mode, casReq>>
    BY <1>4 DEF vars, bufferVars, openingVars, pimVars, deviceVars
  <2>2. KnownIds' /\ ModesAgree'
    BY <2>1 DEF SessionInv, KnownIds, KnownBuffers, KnownInflight, ModesAgree
  <2>3. SyncInHostMode'
    BY <2>1, SyncStays
  <2>4. HostLeaves
    BY <2>1 DEF HostLeaves, Buffered
  <2> QED BY <1>1, <2>2, <2>3, <2>4 DEF SessionInv
<1> QED BY <1>2, <1>3, <1>4 DEF Next

LEMMA SessionInitially == Init => SessionInv
<1> SUFFICES ASSUME Init PROVE SessionInv
  OBVIOUS
<1>1. KnownIds
  BY EmptySeq DEF Init, KnownIds, KnownBuffers, KnownInflight
<1>2. ModesAgree /\ SyncInHostMode
  BY DEF Init, PIMDeviceInit, ModesAgree, SyncInHostMode
<1> QED BY <1>1, <1>2, TypeInitially DEF SessionInv

LEMMA SessionInvariant == Spec => []SessionInv
<1> QED BY SessionInitially, SessionInductive, PTL DEF Spec

(* A host read or write leaves the controller only while the device has    *)
(* its rank in host mode, also when it was preceded by a CAS               *)
(* (would_block_host_request, m_cas_issued).                               *)
THEOREM HostMeetsHostMode == Spec => HostNeedsHostMode
<1>1. SessionInv /\ [Next]_vars => [HostLeaves]_vars
  BY SessionInductive
<1> QED BY <1>1, SessionInvariant, PTL DEF Spec, HostNeedsHostMode, HostLeaves

(* The modes, the loaded operands and the all-bank work of the ranks       *)
(* follow the protocol of a session: the controller refines PIMSession.    *)
THEOREM FollowsSession == Spec => ImplementsSession
<1>1. Init => Session!SessionInit
  <2> SUFFICES ASSUME Init PROVE Session!SessionInit
    OBVIOUS
  <2>1. {r \in Ranks : loadReady[r]} = {} /\ {RankOfRequest(i) : i \in {ab} \ {0}} = {}
    BY DEF Init
  <2> QED BY <2>1 DEF Init, PIMDeviceInit, Session!SessionInit
<1>2. SessionInv /\ [Next]_vars => [Session!SessionNext]_Session!sessionVars
  <2> SUFFICES ASSUME SessionInv, [Next]_vars
               PROVE  Session!SessionNext \/ UNCHANGED Session!sessionVars
    OBVIOUS
  <2>1. CASE Tick
    <3>1. TypeInv /\ TypeInv'
      BY TypeInductive DEF SessionInv
    <3> QED BY <2>1, <3>1, TickSafe, SessionStepRefines DEF StepSafe
  <2>2. CASE Send
    <3>1. /\ UNCHANGED <<rankState, loadReady, ab>> /\ ab \in 0 .. sent
          /\ \A i \in 1 .. sent : req'[i] = req[i]
      BY <2>2, SendSafe DEF SessionInv, KnownIds
    <3>2. ab # 0 => req'[ab] = req[ab]
      BY <3>1
    <3>3. Busy' = Busy /\ Loaded' = Loaded
      BY <3>1, <3>2 DEF Busy, Loaded, RankOfRequest, BankOf
    <3> QED BY <3>1, <3>3 DEF Session!sessionVars, Busy, Loaded
  <2>3. CASE UNCHANGED vars
    <3>1. UNCHANGED <<rankState, loadReady, ab, req>>
      BY <2>3 DEF vars, pimVars, deviceVars
    <3>2. Busy' = Busy /\ Loaded' = Loaded
      BY <3>1 DEF Busy, Loaded, RankOfRequest, BankOf
    <3> QED BY <3>1, <3>2 DEF Session!sessionVars, Busy, Loaded
  <2> QED BY <2>1, <2>2, <2>3 DEF Next
<1> QED BY <1>1, <1>2, SessionInvariant, PTL DEF Spec, ImplementsSession, Session!SessionSpec

-----------------------------------------------------------------------------
(* The work in flight.                                                     *)

(* The groups of banks that the README counts in the order of the bank IDs *)
(* do not cross ranks: would_block_pim_launch finds all of a group.        *)
LEMMA GroupIsBlock ==
  ASSUME NEW x \in Banks, NEW b \in Banks, x \div BanksPerBlock = b \div BanksPerBlock
  PROVE  x \in Block(b)
<1> DEFINE P == BanksPerBlock
           q == BanksPerRank \div P
<1>1. P \in Nat \ {0} /\ BanksPerRank \in Nat \ {0} /\ Banks \subseteq Nat
  BY ConstantTypes DEF Banks
<1>2. q \in Nat \ {0} /\ BanksPerRank = P * q
  <2>1. BanksPerRank % P = 0
    BY PIMControllerAssumption
  <2> QED BY <1>1, <2>1, Division
<1> HIDE DEF P, q
<1>3. ASSUME NEW y \in Nat
      PROVE  /\ y \div BanksPerRank \in Nat
             /\ (y % BanksPerRank) \div P \in 0 .. q - 1
             /\ y \div P = (q * (y \div BanksPerRank)) + ((y % BanksPerRank) \div P)
  <2> DEFINE r == y \div BanksPerRank
             s == y % BanksPerRank
             u == s \div P
             v == s % P
  <2>1. r \in Nat /\ s \in 0 .. BanksPerRank - 1 /\ y = (BanksPerRank * r) + s
    BY <1>1, Division
  <2>2. s \in Nat /\ s < BanksPerRank
    BY <1>1, <2>1
  <2>3. u \in Nat /\ v \in 0 .. P - 1 /\ s = (P * u) + v
    BY <1>1, <2>2, Division
  <2> HIDE DEF r, s, u, v
  <2>4. u \in 0 .. q - 1
    <3>1. P * u \in Nat /\ (q < u => (P * q) + P <= P * u)
      BY <1>1, <1>2, <2>3, Products
    <3>2. ~(q < u) /\ u # q
      BY <1>1, <1>2, <2>2, <2>3, <3>1
    <3> QED BY <1>2, <2>3, <3>2
  <2>5. y = (P * ((q * r) + u)) + v
    <3>1. q * r \in Nat
      BY <1>2, <2>1, Products
    <3>2. P * ((q * r) + u) = (P * (q * r)) + (P * u)
      BY <1>1, <2>3, <3>1, Products
    <3>3. P * (q * r) = (P * q) * r
      BY <1>1, <1>2, <2>1
    <3>4. P * u \in Nat /\ P * (q * r) \in Nat
      BY <1>1, <2>3, <3>1, Products
    <3> QED BY <1>2, <2>1, <2>3, <3>2, <3>3, <3>4
  <2>6. (q * r) + u \in Nat
    BY <1>2, <2>1, <2>3, Products
  <2>7. y \div P = (q * r) + u
    BY <1>1, <2>3, <2>5, <2>6, DivisionUnique
  <2> QED BY <2>1, <2>4, <2>7 DEF r, s, u
<1> DEFINE r(y) == y \div BanksPerRank
           u(y) == (y % BanksPerRank) \div P
<1>4. /\ r(x) \in Nat /\ u(x) \in 0 .. q - 1 /\ x \div P = (q * r(x)) + u(x)
      /\ r(b) \in Nat /\ u(b) \in 0 .. q - 1 /\ b \div P = (q * r(b)) + u(b)
  BY <1>1, <1>3
<1> HIDE DEF r, u
<1>5. r(x) = ((q * r(x)) + u(x)) \div q /\ r(b) = ((q * r(b)) + u(b)) \div q
  BY <1>2, <1>4, DivisionUnique
<1>6. (q * r(x)) + u(x) = (q * r(b)) + u(b)
  BY <1>4 DEF P
<1>7. r(x) = r(b)
  BY <1>5, <1>6
<1>8. u(x) = u(b)
  <2>1. q * r(b) \in Nat
    BY <1>2, <1>4, Products
  <2> QED BY <1>4, <1>6, <1>7, <2>1
<1> QED BY <1>7, <1>8 DEF Block, RankOf, r, u, P

(* Each piece of work in flight that is not done goes on.                  *)
LEMMA AgingExact ==
  ASSUME TypeInv, NEW b \in Banks
  PROVE  /\ IsFiniteSet(OnBank(inflight, b)) /\ IsFiniteSet(OnBank(InflightNow, b))
         /\ IsFiniteSet(OnBank(MacsDone, b))
         /\ Cardinality(OnBank(inflight, b))
              = Cardinality(OnBank(MacsDone, b)) + Cardinality(OnBank(InflightNow, b))
<1> DEFINE S == OnBank(inflight, b)
           D == OnBank(MacsDone, b)
           O == OnBank(inflight \ MacsDone, b)
           N == OnBank(InflightNow, b)
           age == [f \in O |-> [f EXCEPT !.left = @ - 1]]
<1>1. inflight \subseteq Timers /\ IsFiniteSet(inflight) /\ IsFiniteSet(InflightNow)
      /\ MacsDone \subseteq inflight /\ IsFiniteSet(MacsDone)
  BY AgingTypes DEF TypeInv, StepOK, InflightOK
<1>2. IsFiniteSet(S) /\ IsFiniteSet(D) /\ IsFiniteSet(N)
  <2>1. S \in SUBSET inflight /\ D \in SUBSET MacsDone /\ N \in SUBSET InflightNow
    BY DEF OnBank
  <2> QED BY <1>1, <2>1, FS_Subset
<1>3. O = S \ D /\ S \cap D = D
  BY <1>1 DEF OnBank
<1>4. IsFiniteSet(O) /\ Cardinality(O) = Cardinality(S) - Cardinality(D)
  BY <1>2, <1>3, FS_Difference
<1>5. \A f \in O : /\ f \in Timers /\ f = [id |-> f.id, left |-> f.left]
                   /\ [f EXCEPT !.left = @ - 1] = [id |-> f.id, left |-> f.left - 1]
                   /\ f.left \in Nat
  BY <1>1 DEF OnBank, Timers
<1>6. age \in Surjection(O, N)
  <2>1. \A f \in O : age[f] \in N
    BY <1>5 DEF OnBank, InflightNow
  <2>2. \A g \in N : \E f \in O : age[f] = g
    <3> SUFFICES ASSUME NEW g \in N PROVE \E f \in O : age[f] = g
      OBVIOUS
    <3>1. PICK f \in inflight \ MacsDone : g = [f EXCEPT !.left = @ - 1]
      BY DEF OnBank, InflightNow
    <3>2. f \in Timers /\ g.id = f.id
      BY <1>1, <3>1 DEF Timers
    <3>3. f \in O
      BY <3>1, <3>2 DEF OnBank
    <3> QED BY <3>1, <3>3
  <2> QED BY <2>1, <2>2 DEF Surjection
<1>7. age \in Injection(O, N)
  <2> SUFFICES ASSUME NEW f \in O, NEW g \in O, age[f] = age[g] PROVE f = g
    BY <1>6 DEF Injection, Surjection, IsInjective
  <2>1. /\ f = [id |-> f.id, left |-> f.left] /\ g = [id |-> g.id, left |-> g.left]
        /\ f.left \in Nat /\ g.left \in Nat
        /\ age[f] = [id |-> f.id, left |-> f.left - 1]
        /\ age[g] = [id |-> g.id, left |-> g.left - 1]
    BY <1>5
  <2>2. f.id = g.id /\ f.left = g.left
    <3>1. age[f].id = f.id /\ age[g].id = g.id /\ age[f].left = f.left - 1 /\ age[g].left = g.left - 1
      BY <2>1
    <3> QED BY <2>1, <3>1
  <2> QED BY <2>1, <2>2
<1>8. Cardinality(N) = Cardinality(O)
  BY <1>4, <1>6, <1>7, FS_Surjection
<1>9. Cardinality(S) \in Nat /\ Cardinality(D) \in Nat
  BY <1>2, FS_CardinalityType
<1> QED BY <1>2, <1>4, <1>8, <1>9

InflightInv == SessionInv /\ DependentsSerialized /\ BlockExclusive /\ SlotsExact

(* What goes on in this tick is as exclusive as what was in flight.        *)
LEMMA NowExclusive ==
  ASSUME InflightInv
  PROVE  /\ \A f, g \in InflightNow : req[f.id].addr = req[g.id].addr => f = g
         /\ Serial => \A f, g \in InflightNow :
              BankOf(f.id) \div BanksPerBlock = BankOf(g.id) \div BanksPerBlock => f = g
         /\ \A b \in Banks : /\ SlotsNow[b] = SlotsPerRequest * Cardinality(OnBank(InflightNow, b))
                             /\ SlotsNow[b] <= BlocksPerBank
<1>1. TypeInv /\ inflight \subseteq Timers
  BY DEF InflightInv, SessionInv, TypeInv, StepOK, InflightOK
<1>2. \A f \in InflightNow : \E o \in inflight : f = [o EXCEPT !.left = @ - 1] /\ f.id = o.id
  <2> SUFFICES ASSUME NEW f \in InflightNow
               PROVE  \E o \in inflight : f = [o EXCEPT !.left = @ - 1] /\ f.id = o.id
    OBVIOUS
  <2>1. PICK o \in inflight : f = [o EXCEPT !.left = @ - 1]
    BY DEF InflightNow
  <2>2. o \in Timers
    BY <1>1
  <2> QED BY <2>1, <2>2 DEF Timers
<1>3. \A f, g \in InflightNow : req[f.id].addr = req[g.id].addr => f = g
  BY <1>2 DEF InflightInv, DependentsSerialized
<1>4. Serial => \A f, g \in InflightNow :
         BankOf(f.id) \div BanksPerBlock = BankOf(g.id) \div BanksPerBlock => f = g
  BY <1>2 DEF InflightInv, BlockExclusive
<1>5. ASSUME NEW b \in Banks
      PROVE  /\ SlotsNow[b] = SlotsPerRequest * Cardinality(OnBank(InflightNow, b))
             /\ SlotsNow[b] <= BlocksPerBank
  <2> DEFINE d == Cardinality(OnBank(MacsDone, b))
             m == Cardinality(OnBank(InflightNow, b))
  <2>1. d \in Nat /\ m \in Nat /\ Cardinality(OnBank(inflight, b)) = d + m
    BY <1>1, AgingExact, FS_CardinalityType
  <2>2. slots[b] = SlotsPerRequest * (d + m) /\ slots[b] <= BlocksPerBank
    BY <2>1 DEF InflightInv, SlotsExact
  <2>3. SlotsNow[b] = slots[b] - (SlotsPerRequest * d)
    BY DEF SlotsNow
  <2> HIDE DEF d, m
  <2>4. /\ SlotsPerRequest * (d + m) = (SlotsPerRequest * d) + (SlotsPerRequest * m)
        /\ SlotsPerRequest * d \in Nat /\ SlotsPerRequest * m \in Nat
    BY <2>1, ConstantTypes, Products
  <2>5. SlotsNow[b] = SlotsPerRequest * m /\ SlotsNow[b] <= BlocksPerBank
    BY <2>2, <2>3, <2>4, ConstantTypes
  <2> QED BY <2>5 DEF m
<1> QED BY <1>3, <1>4, <1>5

LEMMA MacsGoOnExclusive ==
  ASSUME InflightInv, MacsGoOn, UNCHANGED req
  PROVE  DependentsSerialized' /\ BlockExclusive' /\ SlotsExact'
<1>1. inflight' = InflightNow /\ slots' = SlotsNow
  BY DEF MacsGoOn
<1>2. DependentsSerialized'
  BY <1>1, NowExclusive DEF DependentsSerialized
<1>3. BlockExclusive'
  BY <1>1, NowExclusive DEF BlockExclusive, BankOf
<1>4. SlotsExact'
  <2>1. \A b \in Banks : OnBank(inflight, b)' = OnBank(InflightNow, b)
    BY <1>1 DEF OnBank, BankOf
  <2> QED BY <1>1, <2>1, NowExclusive DEF SlotsExact
<1> QED BY <1>2, <1>3, <1>4

(* A PIM_MAC is launched only if what is in flight leaves room for it.     *)
LEMMA LaunchExclusive ==
  ASSUME InflightInv, UNCHANGED req, NEW n,
         NEW buf \in {"active", "read", "write"}, NEW k \in DOMAIN Buffer(buf), Launch(n, buf, k),
         Eligible(Buffer(buf)[k])
  PROVE  DependentsSerialized' /\ BlockExclusive' /\ SlotsExact'
<1> DEFINE i == Buffer(buf)[k]
           b == BankOf(i)
           new == [id |-> i, left |-> PimLatency]
<1>1. TypeInv /\ i \in Ids /\ CountersOK /\ b \in Banks /\ req[i].addr \in Addrs
  BY HeldIds, RequestTypes DEF InflightInv, SessionInv, TypeInv
<1>2. /\ Final(i) = "PIM_MAC" /\ Command(i) = "PIM_MAC"
      /\ inflight' = InflightNow \cup {new}
      /\ slots' = [SlotsNow EXCEPT ![b] = @ + SlotsPerRequest]
  BY DEF Launch
<1>3. ~MacBlocked(i)
  BY <1>2 DEF Eligible, LaunchBlocked
<1>4. InflightNow \subseteq Timers /\ \A f \in InflightNow : BankOf(f.id) \in Banks
  <2>1. InflightNow \subseteq Timers
    BY <1>1, AgingTypes DEF TypeInv, StepOK
  <2> QED BY <1>1, <2>1, RequestTypes DEF Timers
<1>5. \A f \in InflightNow : req[f.id].addr # req[i].addr
  <2> SUFFICES ASSUME NEW f \in InflightNow, req[f.id].addr = req[i].addr PROVE FALSE
    OBVIOUS
  <2>1. BankOf(f.id) = b
    BY DEF BankOf
  <2>2. f \in OnBank(InflightNow, b)
    BY <2>1 DEF OnBank
  <2> QED BY <1>3, <2>2 DEF MacBlocked
<1>6. Serial => \A f \in InflightNow : BankOf(f.id) \div BanksPerBlock # b \div BanksPerBlock
  <2> SUFFICES ASSUME Serial, NEW f \in InflightNow,
                      BankOf(f.id) \div BanksPerBlock = b \div BanksPerBlock
               PROVE  FALSE
    OBVIOUS
  <2>1. BankOf(f.id) \in Block(b)
    BY <1>1, <1>4, GroupIsBlock
  <2>2. f \in OnBank(InflightNow, BankOf(f.id))
    BY DEF OnBank
  <2> QED BY <1>3, <2>1, <2>2 DEF MacBlocked
<1>7. new \notin InflightNow
  BY <1>5
<1>8. DependentsSerialized'
  <2> SUFFICES ASSUME NEW f \in inflight', NEW g \in inflight', req[f.id].addr = req[g.id].addr
               PROVE  f = g
    BY DEF DependentsSerialized
  <2>1. new.id = i
    OBVIOUS
  <2> QED BY <1>2, <1>5, <2>1, NowExclusive
<1>9. BlockExclusive'
  <2> SUFFICES ASSUME Serial, NEW f \in inflight', NEW g \in inflight',
                      BankOf(f.id) \div BanksPerBlock = BankOf(g.id) \div BanksPerBlock
               PROVE  f = g
    BY DEF BlockExclusive, BankOf
  <2>1. new.id = i
    OBVIOUS
  <2> QED BY <1>2, <1>6, <2>1, NowExclusive
<1>10. SlotsExact'
  <2> SUFFICES ASSUME NEW x \in Banks
               PROVE  /\ slots'[x] = SlotsPerRequest * Cardinality(OnBank(inflight', x))
                      /\ slots'[x] <= BlocksPerBank
    BY DEF SlotsExact, OnBank, BankOf
  <2>1. SlotsNow \in [Banks -> Int] /\ IsFiniteSet(OnBank(InflightNow, x))
    BY <1>1, AgingTypes, AgingExact DEF TypeInv, StepOK
  <2>2. /\ SlotsNow[x] = SlotsPerRequest * Cardinality(OnBank(InflightNow, x))
        /\ SlotsNow[x] <= BlocksPerBank
    BY NowExclusive
  <2>3. CASE x # b
    <3>1. OnBank(inflight', x) = OnBank(InflightNow, x)
      BY <1>2, <2>3 DEF OnBank
    <3>2. slots'[x] = SlotsNow[x]
      BY <1>2, <2>1, <2>3
    <3> QED BY <2>2, <3>1, <3>2
  <2>4. CASE x = b
    <3>1. OnBank(inflight', b) = OnBank(InflightNow, b) \cup {new}
      BY <1>2 DEF OnBank
    <3>2. new \notin OnBank(InflightNow, b)
      BY <1>7 DEF OnBank
    <3> DEFINE m == Cardinality(OnBank(InflightNow, b))
    <3>3. m \in Nat /\ Cardinality(OnBank(inflight', b)) = m + 1
      BY <2>1, <2>4, <3>1, <3>2, FS_AddElement, FS_CardinalityType
    <3>4. slots'[b] = SlotsNow[b] + SlotsPerRequest
      BY <1>1, <1>2, <2>1
    <3>5. SlotsNow[b] + SlotsPerRequest <= BlocksPerBank
      BY <1>1, <1>3, <2>1, ConstantTypes DEF MacBlocked
    <3>6. SlotsNow[b] = SlotsPerRequest * m
      BY <2>2, <2>4
    <3> HIDE DEF m, b, new
    <3>7. SlotsPerRequest * (m + 1) = (SlotsPerRequest * m) + (SlotsPerRequest * 1)
      BY <3>3, ConstantTypes, Products
    <3>8. SlotsPerRequest * 1 = SlotsPerRequest
      BY ConstantTypes
    <3> QED BY <2>4, <3>3, <3>4, <3>5, <3>6, <3>7, <3>8
  <2> QED BY <2>3, <2>4
<1> QED BY <1>8, <1>9, <1>10

(* Every tick either lets the work in flight go on or launches more of it. *)
LEMMA TickInflight ==
  ASSUME NEW n,
         \/ TickSynchronised(n) \/ TickUrgent(n) \/ TickMaintenance(n) \/ TickSelected(n)
         \/ TickDeferred(n) \/ TickThrow(n)
  PROVE  \/ MacsGoOn
         \/ \E buf \in {"active", "read", "write"} : \E k \in DOMAIN Buffer(buf) :
              Launch(n, buf, k) /\ Eligible(Buffer(buf)[k])
<1>1. Wait(n) => MacsGoOn
  BY DEF Wait, PimGoesOn
<1>2. \A k : OpenRow(n, k) => MacsGoOn
  BY DEF OpenRow, PimGoesOn
<1>3. \A buf, k : /\ Perform(n, buf, k) => MacsGoOn
                  /\ Prepare(n, buf, k) => MacsGoOn
                  /\ Activate(n, buf, k) => MacsGoOn
                  /\ LaunchAllBank(n, buf, k) => MacsGoOn
                  /\ Synchronise(n, buf, k) => MacsGoOn
  BY DEF Perform, Prepare, Activate, LaunchAllBank, Synchronise, PimGoesOn
<1>4. CASE TickSelected(n)
  <2>1. PICK buf \in {"active", "read", "write"} : \E k \in DOMAIN Buffer(buf) :
          /\ Selects(buf, k)
          /\ \/ \E j \in DOMAIN activating : OpenRow(n, j)
             \/ Synchronise(n, buf, k) \/ Perform(n, buf, k) \/ Prepare(n, buf, k)
             \/ Activate(n, buf, k) \/ Launch(n, buf, k) \/ LaunchAllBank(n, buf, k)
    BY <1>4 DEF TickSelected
  <2> QED BY <1>2, <1>3, <2>1, SelectedEligible
<1>5. CASE TickSynchronised(n)
  BY <1>1, <1>3, <1>5 DEF TickSynchronised
<1>6. CASE TickUrgent(n) \/ TickDeferred(n) \/ TickThrow(n)
  BY <1>1, <1>2, <1>6 DEF TickUrgent, TickDeferred, TickThrow
<1>7. CASE TickMaintenance(n)
  BY <1>7 DEF TickMaintenance, PimGoesOn
<1> QED BY <1>4, <1>5, <1>6, <1>7

LEMMA InflightInductive == InflightInv /\ [Next]_vars => InflightInv'
<1> SUFFICES ASSUME InflightInv, [Next]_vars PROVE InflightInv'
  OBVIOUS
<1>1. SessionInv /\ SessionInv'
  BY SessionInductive DEF InflightInv
<1>2. CASE Tick
  <2>1. UNCHANGED req
    BY <1>1, <1>2, TickSafe
  <2>2. \/ MacsGoOn
        \/ \E n : \E buf \in {"active", "read", "write"} : \E k \in DOMAIN Buffer(buf) :
             Launch(n, buf, k) /\ Eligible(Buffer(buf)[k])
    BY <1>2, TickInflight DEF Tick
  <2> QED BY <1>1, <2>1, <2>2, MacsGoOnExclusive, LaunchExclusive DEF InflightInv
<1>3. CASE Send
  <2>1. /\ UNCHANGED <<inflight, slots>>
        /\ \A f \in inflight : f.id \in 1 .. sent
        /\ \A i \in 1 .. sent : req'[i] = req[i]
    BY <1>1, <1>3, SendSafe DEF SessionInv, KnownIds, KnownInflight
  <2>2. \A f \in inflight : req'[f.id] = req[f.id]
    BY <2>1
  <2>3. \A b \in Banks : OnBank(inflight, b)' = OnBank(inflight, b)
    BY <2>1, <2>2 DEF OnBank, BankOf
  <2> QED BY <1>1, <2>1, <2>2, <2>3
          DEF InflightInv, DependentsSerialized, BlockExclusive, SlotsExact, BankOf
<1>4. CASE UNCHANGED vars
  <2>1. UNCHANGED <<inflight, slots, req>>
    BY <1>4 DEF vars, pimVars
  <2> QED BY <1>1, <2>1
          DEF InflightInv, DependentsSerialized, BlockExclusive, SlotsExact, OnBank, BankOf
<1> QED BY <1>2, <1>3, <1>4 DEF Next

LEMMA InflightInitially == Init => InflightInv
<1> SUFFICES ASSUME Init PROVE InflightInv
  OBVIOUS
<1>1. inflight = {} /\ slots = [b \in Banks |-> 0]
  BY DEF Init
<1>2. SlotsExact
  <2>1. \A b \in Banks : OnBank(inflight, b) = {}
    BY <1>1 DEF OnBank
  <2>2. SlotsPerRequest * 0 = 0
    BY ConstantTypes
  <2> QED BY <1>1, <2>1, <2>2, FS_EmptySet, ConstantTypes DEF SlotsExact
<1> QED BY <1>1, <1>2, SessionInitially
        DEF InflightInv, DependentsSerialized, BlockExclusive

LEMMA InflightInvariant == Spec => []InflightInv
<1> QED BY InflightInitially, InflightInductive, PTL DEF Spec

(* Work on one operand of a bank is in flight once, whatever overlaps:     *)
(* the dependency that would_block_pim_launch checks is found among the    *)
(* work of the request's own bank.                                         *)
THEOREM OperandsSerialized == Spec => []DependentsSerialized
<1>1. InflightInv => DependentsSerialized
  BY DEF InflightInv
<1> QED BY <1>1, InflightInvariant, PTL

(* With shared_block_serial the groups of pim_banks_per_block banks, in    *)
(* the order of the bank IDs, have one PIM_MAC in flight at most, although *)
(* the controller counts the banks of a rank from its first one.           *)
THEOREM BlocksExclusive == Spec => []BlockExclusive
<1>1. InflightInv => BlockExclusive
  BY DEF InflightInv
<1> QED BY <1>1, InflightInvariant, PTL

(* m_pim_slots_in_use counts the slots of the work in flight at a bank,    *)
(* and they are never more than the bank has.                              *)
THEOREM SlotsCounted == Spec => []SlotsExact
<1>1. InflightInv => SlotsExact
  BY DEF InflightInv
<1> QED BY <1>1, InflightInvariant, PTL

-----------------------------------------------------------------------------
(* Requests. Every step of a tick takes a request from one place to the    *)
(* next. What is due in a tick is answered once although Answer goes by    *)
(* the set of those served, because each of them is in one place only.     *)

Same(i, j) == IF i = j THEN 1 ELSE 0
In(i, S)   == IF i \in S THEN 1 ELSE 0
Sent(i)    == IF i <= sent THEN 1 ELSE 0

(* How often request i is held, waits for its data, is in flight.          *)
Held(i) == Occurrences(readBuf, i) + Occurrences(writeBuf, i) + Occurrences(activating, i)
             + Occurrences(active, i)
Waiting(i) == Cardinality({k \in DOMAIN pending : pending[k].id = i})
Working(i) == Cardinality({f \in inflight : f.id = i})
AllBank(i) == IF ab = i THEN 1 ELSE 0

(* What of it is done in this tick.                                        *)
IdsOf(F) == {f.id : f \in F}
WorkDone(i) == In(i, IdsOf(MacsDone))
AllBankDone(i) == IF AbDone /\ ab = i THEN 1 ELSE 0
AnsweredNow(i) == WorkDone(i) + AllBankDone(i)

Total(i) == Held(i) + Waiting(i) + Working(i) + AllBank(i) + replies[i]

ConservedInv == InflightInv /\ Conserved

LEMMA ConservedParts ==
  Conserved <=> \A i \in Ids : Total(i) = Sent(i)
BY DEF Conserved, Total, Held, Waiting, Working, AllBank, Sent

LEMMA OccurrencesCount ==
  ASSUME NEW q \in Seq(Ids), NEW i
  PROVE  /\ Occurrences(q, i) \in Nat
         /\ Occurrences(q, i) = 0 <=> \A k \in DOMAIN q : q[k] # i
         /\ \A j \in Ids : Occurrences(Append(q, j), i) = Occurrences(q, i) + Same(i, j)
         /\ \A k \in DOMAIN q : Occurrences(RemoveAt(q, k), i) = Occurrences(q, i) - Same(i, q[k])
<1>1. \A l : Occurrences(l, i) = CountIn(l, {i})
  BY DEF Occurrences, CountIn
<1>2. Occurrences(q, i) \in Nat /\ (Occurrences(q, i) = 0 <=> \A k \in DOMAIN q : q[k] # i)
  <2>1. CountIn(q, {i}) \in Nat /\ (CountIn(q, {i}) = 0 <=> \A k \in DOMAIN q : q[k] \notin {i})
    BY CountNat
  <2> QED BY <1>1, <2>1
<1>3. ASSUME NEW j \in Ids PROVE Occurrences(Append(q, j), i) = Occurrences(q, i) + Same(i, j)
  BY <1>1, CountAppend DEF Same
<1>4. ASSUME NEW k \in DOMAIN q
      PROVE  Occurrences(RemoveAt(q, k), i) = Occurrences(q, i) - Same(i, q[k])
  BY <1>1, CountRemoveAt DEF Same
<1> QED BY <1>2, <1>3, <1>4

LEMMA Amounts ==
  ASSUME TypeInv, NEW i \in Ids
  PROVE  /\ Held(i) \in Nat /\ Waiting(i) \in Nat /\ Working(i) \in Nat /\ AllBank(i) \in Nat
         /\ replies[i] \in Nat
<1>1. Held(i) \in Nat
  <2>1. /\ Occurrences(readBuf, i) \in Nat /\ Occurrences(writeBuf, i) \in Nat
        /\ Occurrences(activating, i) \in Nat /\ Occurrences(active, i) \in Nat
    BY OccurrencesCount DEF TypeInv, StepOK, BuffersOK, OpeningOK
  <2> QED BY <2>1 DEF Held
<1>2. Waiting(i) \in Nat
  <2> DEFINE T == {t \in Timers : t.id = i}
  <2>1. pending \in Seq(Timers)
    BY DEF TypeInv, StepOK, AnswersOK
  <2>2. \A k \in DOMAIN pending : pending[k] \in T <=> pending[k].id = i
    BY <2>1, LenProperties, ElementOfSeq
  <2>3. Waiting(i) = CountIn(pending, T)
    BY <2>2 DEF Waiting, CountIn
  <2> QED BY <2>1, <2>3, CountNat
<1>3. Working(i) \in Nat
  <2>1. {f \in inflight : f.id = i} \in SUBSET inflight /\ IsFiniteSet(inflight)
    BY DEF TypeInv, StepOK, InflightOK
  <2> QED BY <2>1, FS_Subset, FS_CardinalityType DEF Working
<1>4. AllBank(i) \in Nat
  BY DEF AllBank
<1>5. replies[i] \in Nat
  BY DEF TypeInv, StepOK, AnswersOK
<1> QED BY <1>1, <1>2, <1>3, <1>4, <1>5

(* No two pieces of work in flight are for one request.                    *)
LEMMA WorkMoves ==
  ASSUME InflightInv, NEW i \in Ids
  PROVE  /\ Working(i) = In(i, IdsOf(inflight))
         /\ IsFiniteSet({f \in InflightNow : f.id = i})
         /\ Cardinality({f \in InflightNow : f.id = i}) = Working(i) - WorkDone(i)
         /\ WorkDone(i) <= Working(i)
<1>1. inflight \subseteq Timers /\ MacsDone \subseteq inflight /\ IsFiniteSet(inflight)
  BY DEF InflightInv, SessionInv, TypeInv, StepOK, InflightOK, MacsDone
<1>2. \A f, g \in inflight : f.id = g.id => f = g
  BY DEF InflightInv, DependentsSerialized
<1>3. Working(i) = In(i, IdsOf(inflight))
  <2> DEFINE S == {f \in inflight : f.id = i}
  <2>1. \A f, g \in S : f = g
    BY <1>2
  <2>2. S = {} <=> i \notin IdsOf(inflight)
    BY DEF IdsOf
  <2> HIDE DEF S
  <2>3. Cardinality(S) = IF S = {} THEN 0 ELSE 1
    BY <2>1, CountOne
  <2> QED BY <2>2, <2>3 DEF Working, S, In
<1>4. /\ Cardinality({f \in InflightNow : f.id = i}) = In(i, IdsOf(inflight \ MacsDone))
      /\ IsFiniteSet({f \in InflightNow : f.id = i})
  <2> DEFINE S == {f \in InflightNow : f.id = i}
  <2>1. \A f \in InflightNow : \E o \in inflight \ MacsDone : f = [o EXCEPT !.left = @ - 1] /\ f.id = o.id
    BY <1>1 DEF InflightNow, Timers
  <2>2. \A f, g \in S : f = g
    BY <1>2, <2>1
  <2>3. \A o \in inflight \ MacsDone : \E f \in InflightNow : f.id = o.id
    <3> SUFFICES ASSUME NEW o \in inflight \ MacsDone PROVE \E f \in InflightNow : f.id = o.id
      OBVIOUS
    <3>1. [o EXCEPT !.left = @ - 1].id = o.id
      BY <1>1 DEF Timers
    <3> QED BY <3>1 DEF InflightNow
  <2>4. S = {} <=> i \notin IdsOf(inflight \ MacsDone)
    BY <2>1, <2>3 DEF IdsOf
  <2>5. IsFiniteSet(S)
    <3>1. CASE S = {}
      BY <3>1, FS_EmptySet
    <3>2. CASE S # {}
      <4>1. PICK x : S = {x}
        BY <2>2, <3>2
      <4> HIDE DEF S
      <4> QED BY <4>1, FS_Singleton
    <3> QED BY <3>1, <3>2
  <2> HIDE DEF S
  <2>6. Cardinality(S) = IF S = {} THEN 0 ELSE 1
    BY <2>2, CountOne
  <2> QED BY <2>4, <2>5, <2>6 DEF S, In
<1>5. /\ i \in IdsOf(MacsDone) => i \in IdsOf(inflight) /\ i \notin IdsOf(inflight \ MacsDone)
      /\ i \notin IdsOf(MacsDone) => (i \in IdsOf(inflight \ MacsDone) <=> i \in IdsOf(inflight))
  BY <1>1, <1>2 DEF IdsOf
<1> HIDE DEF IdsOf
<1>6. CASE i \in IdsOf(MacsDone)
  BY <1>3, <1>4, <1>5, <1>6 DEF WorkDone, In
<1>7. CASE i \notin IdsOf(MacsDone)
  BY <1>3, <1>4, <1>5, <1>7 DEF WorkDone, In
<1> QED BY <1>3, <1>4, <1>6, <1>7

LEMMA AllBankMoves ==
  ASSUME NEW i \in Ids
  PROVE  AllBank(i) - AllBankDone(i) = Same(AbNow, i) /\ AllBankDone(i) <= AllBank(i)
BY DEF AllBank, AllBankDone, AbNow, Same, Ids, AbDone

(* The work and the all-bank operation that go on.                         *)
LEMMA GoingOn ==
  ASSUME InflightInv, NEW i \in Ids
  PROVE  /\ MacsGoOn => Working(i)' = Working(i) - WorkDone(i)
         /\ AbGoesOn => AllBank(i)' = AllBank(i) - AllBankDone(i)
<1>1. MacsGoOn => Working(i)' = Working(i) - WorkDone(i)
  BY WorkMoves DEF MacsGoOn, Working
<1>2. AbGoesOn => AllBank(i)' = AllBank(i) - AllBankDone(i)
  BY AllBankMoves DEF AbGoesOn, AllBank, Same
<1> QED BY <1>1, <1>2

(* The answers of a tick, with a more of request i on their way.           *)
Answers(i, a) ==
  /\ Waiting(i)' \in Nat /\ replies'[i] \in Nat
  /\ Waiting(i)' + replies'[i] = Waiting(i) + replies[i] + AnsweredNow(i) + a

(* What is due is answered, once each as it is in one place only.          *)
LEMMA AnswerMoves ==
  ASSUME ConservedInv, NEW n \in 0 .. Len(pending), NEW S, NEW P, Answer(n, S, P), NEW i \in Ids
  PROVE  /\ P = <<>> => Answers(i, In(i, S))
         /\ \A t \in Timers : P = <<t>> => Answers(i, In(i, S) + Same(t.id, i))
<1> DEFINE T == {t \in Timers : t.id = i}
           C == {k \in 1 .. n : Aged[k] \in T}
           w == Cardinality(C)
           R == SubSeq(Aged, n + 1, Len(pending))
<1>1. TypeInv /\ InflightInv /\ pending \in Seq(Timers) /\ replies \in [Ids -> Nat]
  BY DEF ConservedInv, InflightInv, SessionInv, TypeInv, StepOK, AnswersOK
<1>2. /\ Len(pending) \in Nat /\ DOMAIN pending = 1 .. Len(pending)
      /\ \A k \in 1 .. Len(pending) : pending[k] \in Timers
  BY <1>1, LenProperties, ElementOfSeq
<1>3. \A k \in 1 .. Len(pending) : Aged[k] \in Timers /\ Aged[k].id = pending[k].id
  BY <1>2 DEF Aged, Timers, Larger
<1>4. PICK A \in Seq(Timers) : /\ Len(A) = Len(pending) /\ DOMAIN A = 1 .. Len(pending)
                              /\ \A k \in 1 .. Len(pending) : A[k] = Aged[k]
                              /\ R = SubSeq(A, n + 1, Len(A))
  <2>1. Len(pending) \in Nat /\ n \in 0 .. Len(pending)
    BY <1>2
  <2>2. \A k \in 1 .. Len(pending) : Aged[k] \in Timers
    BY <1>3
  <2> DEFINE A == SubSeq(Aged, 1, Len(pending))
  <2>3. /\ A \in Seq(Timers) /\ Len(A) = Len(pending) /\ DOMAIN A = 1 .. Len(pending)
        /\ \A k \in 1 .. Len(pending) : A[k] = Aged[k]
        /\ R = SubSeq(A, n + 1, Len(pending))
    BY ONLY <2>1, <2>2, TailOfFunction
  <2> HIDE DEF A, R
  <2> QED BY <2>3
<1>5. Waiting(i) = CountIn(A, T)
  <2>1. {k \in DOMAIN pending : pending[k].id = i} = {k \in DOMAIN A : A[k] \in T}
    BY <1>2, <1>3, <1>4
  <2> QED BY <2>1 DEF Waiting, CountIn
<1>6. C = {k \in 1 .. n : A[k] \in T}
  BY <1>2, <1>4
<1>7. R \in Seq(Timers)
  <2>1. \A k \in n + 1 .. Len(pending) : Aged[k] \in Timers
    BY <1>2, <1>3
  <2> QED BY <1>2, <2>1, SubSeqProperties
<1>8. IsFiniteSet(C) /\ CountIn(R, T) = Waiting(i) - w
  <2>1. n \in 0 .. Len(A)
    BY <1>4
  <2>2. /\ IsFiniteSet({k \in 1 .. n : A[k] \in T})
        /\ CountIn(SubSeq(A, n + 1, Len(A)), T)
             = CountIn(A, T) - Cardinality({k \in 1 .. n : A[k] \in T})
    <3> HIDE DEF T
    <3> QED BY <2>1, CountSubSeq
  <2>3. C = {k \in 1 .. n : A[k] \in T} /\ R = SubSeq(A, n + 1, Len(A)) /\ CountIn(A, T) = Waiting(i)
    BY <1>4, <1>5, <1>6
  <2>4. IsFiniteSet(C)
    BY <2>2, <2>3
  <2>5. CountIn(R, T) = Waiting(i) - Cardinality({k \in 1 .. n : A[k] \in T})
    <3> HIDE DEF R, T, C
    <3> QED BY <2>2, <2>3
  <2> HIDE DEF T, R, C
  <2> QED BY <2>3, <2>4, <2>5
<1>9. w \in Nat /\ w <= Waiting(i) /\ (w = 0 <=> C = {})
  <2>1. w \in Nat /\ CountIn(R, T) \in Nat /\ (w = 0 <=> C = {})
    <3> HIDE DEF R, T, C
    <3> QED BY <1>7, <1>8, CountNat, FS_CardinalityType, FS_EmptySet
  <2>2. Waiting(i) \in Nat
    BY <1>1, Amounts
  <2> HIDE DEF w, R, T
  <2> QED BY <1>8, <2>1, <2>2
<1>10. In(i, Served(n)) = w + AnsweredNow(i)
  <2>1. C = {} <=> \A k \in 1 .. n : pending[k].id # i
    BY <1>2, <1>3
  <2>2. i \in Served(n) <=> \/ C # {} \/ i \in IdsOf(MacsDone) \/ (AbDone /\ ab = i)
    BY <2>1 DEF Served, IdsOf
  <2>3. w + AnsweredNow(i) <= 1
    <3>1. Total(i) <= 1
      <4>1. Total(i) = Sent(i)
        BY ConservedParts DEF ConservedInv
      <4> QED BY <4>1 DEF Sent
    <3>2. /\ Held(i) \in Nat /\ Waiting(i) \in Nat /\ Working(i) \in Nat /\ AllBank(i) \in Nat
          /\ replies[i] \in Nat
      BY <1>1, Amounts
    <3>3. /\ WorkDone(i) <= Working(i) /\ AllBankDone(i) <= AllBank(i)
          /\ WorkDone(i) \in Nat /\ AllBankDone(i) \in Nat
      BY <1>1, WorkMoves, AllBankMoves DEF WorkDone, AllBankDone, In
    <3> HIDE DEF w
    <3> QED BY <1>9, <3>1, <3>2, <3>3 DEF Total, AnsweredNow
  <2> HIDE DEF w, C
  <2> QED BY <1>9, <2>2, <2>3 DEF AnsweredNow, WorkDone, AllBankDone, In
<1>11. replies'[i] = replies[i] + In(i, Served(n)) + In(i, S)
  BY DEF Answer, In
<1>12. ASSUME pending' \in Seq(Timers) PROVE Waiting(i)' = CountIn(pending', T)
  <2>1. DOMAIN pending' = 1 .. Len(pending') /\ \A k \in 1 .. Len(pending') : pending'[k] \in Timers
    BY <1>12, LenProperties, ElementOfSeq
  <2>2. {k \in DOMAIN pending' : pending'[k].id = i} = {k \in DOMAIN pending' : pending'[k] \in T}
    BY <2>1
  <2> QED BY <2>2 DEF Waiting, CountIn
<1>13. /\ Waiting(i) \in Nat /\ replies[i] \in Nat /\ In(i, S) \in Nat
       /\ AnsweredNow(i) \in Nat
  BY <1>1, Amounts DEF AnsweredNow, WorkDone, AllBankDone, In
<1>14. CASE P = <<>>
  <2>1. pending' = R
    <3> HIDE DEF R
    <3> QED BY <1>7, <1>14, ConcatEmptySeq DEF Answer, R
  <2>2. Waiting(i)' = Waiting(i) - w
    <3> HIDE DEF R, T, w
    <3> QED BY <1>7, <1>8, <1>12, <2>1
  <2> HIDE DEF w
  <2>3. \A t : P # <<t>>
    BY <1>14
  <2>4. Waiting(i)' \in Nat
    BY <1>9, <1>13, <2>2
  <2>5. replies'[i] = replies[i] + (w + AnsweredNow(i)) + In(i, S)
    BY <1>10, <1>11
  <2>6. replies'[i] \in Nat
    BY <1>9, <1>13, <2>5
  <2>7. Waiting(i)' + replies'[i] = Waiting(i) + replies[i] + AnsweredNow(i) + In(i, S)
    BY <1>9, <1>13, <2>2, <2>5
  <2> QED BY <2>3, <2>4, <2>6, <2>7 DEF Answers
<1>15. ASSUME NEW t \in Timers, P = <<t>> PROVE Answers(i, In(i, S) + Same(t.id, i))
  <2>1. pending' = Append(R, t) /\ pending' \in Seq(Timers)
    <3>1. pending' = R \o <<t>>
      BY <1>15 DEF Answer
    <3> HIDE DEF R
    <3> QED BY <1>7, <3>1, AppendIsConcat, AppendProperties
  <2>2. CountIn(Append(R, t), T) = CountIn(R, T) + In(t, T)
    <3> HIDE DEF R, T
    <3> QED BY <1>7, CountAppend DEF In
  <2>3. In(t, T) = Same(t.id, i) /\ Same(t.id, i) \in Nat
    BY DEF Same, In
  <2>4. Waiting(i)' = Waiting(i) - w + Same(t.id, i)
    <3> HIDE DEF R, T, w
    <3> QED BY <1>8, <1>12, <2>1, <2>2, <2>3
  <2> HIDE DEF w
  <2>5. replies'[i] = replies[i] + (w + AnsweredNow(i)) + In(i, S)
    BY <1>10, <1>11
  <2>6. replies'[i] \in Nat
    BY <1>9, <1>13, <2>5
  <2>7. Waiting(i)' \in Nat
    BY <1>9, <1>13, <2>3, <2>4
  <2>8. Waiting(i)' + replies'[i]
          = Waiting(i) + replies[i] + AnsweredNow(i) + (In(i, S) + Same(t.id, i))
    BY <1>9, <1>13, <2>3, <2>4, <2>5
  <2> QED BY <2>6, <2>7, <2>8 DEF Answers
<1> QED BY <1>14, <1>15

LEMMA RetireMoves ==
  ASSUME ConservedInv, NEW n \in 0 .. Len(pending), NEW i \in Ids
  PROVE  /\ Answer(n, {}, <<>>) => Answers(i, 0)
         /\ \A j \in Ids : Retire(n, j) => Answers(i, Same(i, j))
<1>1. In(i, {}) = 0
  BY DEF In
<1>2. ASSUME Answer(n, {}, <<>>) PROVE Answers(i, 0)
  BY <1>1, <1>2, AnswerMoves
<1>3. ASSUME NEW j \in Ids, Retire(n, j) PROVE Answers(i, Same(i, j))
  <2> DEFINE t == [id |-> j, left |-> ReadLatency]
  <2>1. t \in Timers /\ t.id = j
    BY ConstantTypes DEF Timers
  <2>2. CASE Final(j) = "RD"
    <3>1. Answer(n, {}, <<t>>)
      BY <1>3, <2>2 DEF Retire
    <3>2. In(i, {}) + Same(t.id, i) = Same(i, j)
      BY <2>1 DEF Same, In
    <3> HIDE DEF t
    <3>3. Answers(i, In(i, {}) + Same(t.id, i))
      BY <2>1, <3>1, AnswerMoves
    <3> QED BY <3>2, <3>3
  <2>3. CASE Final(j) # "RD"
    <3>1. Answer(n, {j}, <<>>)
      BY <1>3, <2>3 DEF Retire
    <3>2. In(i, {j}) = Same(i, j)
      BY DEF Same, In
    <3>3. Answers(i, In(i, {j}))
      BY <3>1, AnswerMoves
    <3> QED BY <3>2, <3>3
  <2> QED BY <2>2, <2>3
<1> QED BY <1>2, <1>3

(* What h more held, a more answered, f more in flight and b more all-bank *)
(* operations add up to.                                                   *)
LEMMA Balance ==
  ASSUME ConservedInv, NEW i \in Ids, NEW h \in Int, NEW a \in Int, NEW f \in Int, NEW b \in Int,
         h + a + f + b = 0,
         Held(i)' = Held(i) + h, Answers(i, a),
         Working(i)' = Working(i) - WorkDone(i) + f,
         AllBank(i)' = AllBank(i) - AllBankDone(i) + b
  PROVE  Total(i)' = Total(i)
<1>1. /\ Held(i) \in Nat /\ Waiting(i) \in Nat /\ Working(i) \in Nat /\ AllBank(i) \in Nat
      /\ replies[i] \in Nat
  BY Amounts DEF ConservedInv, InflightInv, SessionInv
<1>2. WorkDone(i) \in Nat /\ AllBankDone(i) \in Nat
  BY DEF WorkDone, AllBankDone, In
<1>3. Total(i)' = Held(i)' + Waiting(i)' + Working(i)' + AllBank(i)' + replies'[i]
  BY DEF Total
<1>4. Waiting(i)' + replies'[i] = Waiting(i) + replies[i] + WorkDone(i) + AllBankDone(i) + a
  BY <1>1, <1>2 DEF Answers, AnsweredNow
<1>5. Waiting(i)' \in Nat /\ replies'[i] \in Nat
  BY DEF Answers
<1>6. Total(i) = Held(i) + Waiting(i) + Working(i) + AllBank(i) + replies[i]
  BY DEF Total
<1>7. PICK hold \in Int, wait1 \in Int, work \in Int, all \in Int, reply \in Int :
        hold = Held(i) /\ wait1 = Waiting(i) /\ work = Working(i) /\ all = AllBank(i) /\ reply = replies[i]
  BY <1>1
<1>8. PICK wait2 \in Int, reply2 \in Int, d \in Int, e \in Int :
        wait2 = Waiting(i)' /\ reply2 = replies'[i] /\ d = WorkDone(i) /\ e = AllBankDone(i)
  BY <1>2, <1>5
<1>9. wait2 + reply2 = wait1 + reply + d + e + a
  BY <1>4, <1>7, <1>8
<1>10. Total(i)' = (hold + h) + wait2 + (work - d + f) + (all - e + b) + reply2
  BY <1>3, <1>7, <1>8
<1>11. Total(i) = hold + wait1 + work + all + reply
  BY <1>6, <1>7
<1>12. (hold + h) + wait2 + (work - d + f) + (all - e + b) + reply2 = hold + wait1 + work + all + reply
  BY ONLY <1>9, h + a + f + b = 0, h \in Int, a \in Int, f \in Int, b \in Int,
          hold \in Int, wait1 \in Int, work \in Int, all \in Int, reply \in Int,
          wait2 \in Int, reply2 \in Int, d \in Int, e \in Int
<1> QED BY <1>10, <1>11, <1>12

Queued(i) == Occurrences(readBuf, i) + Occurrences(writeBuf, i) + Occurrences(active, i)

LEMMA LeaveMoves ==
  ASSUME TypeInv, NEW buf \in {"active", "read", "write"}, NEW k \in DOMAIN Buffer(buf),
         Leave(buf, k), NEW i \in Ids
  PROVE  /\ Queued(i) \in Nat /\ Occurrences(activating, i) \in Nat
         /\ Held(i) = Queued(i) + Occurrences(activating, i)
         /\ Queued(i)' = Queued(i) - Same(i, Buffer(buf)[k])
         /\ Buffer(buf)[k] \in Ids /\ Held(Buffer(buf)[k]) # 0
         /\ Occurrences(readBuf', i) \in Nat /\ Occurrences(writeBuf', i) \in Nat
         /\ Occurrences(active', i) \in Nat
<1> DEFINE j == Buffer(buf)[k]
<1>1. readBuf \in Seq(Ids) /\ writeBuf \in Seq(Ids) /\ active \in Seq(Ids) /\ activating \in Seq(Ids)
  BY DEF TypeInv, StepOK, BuffersOK, OpeningOK
<1>2. Buffer(buf) \in Seq(Ids) /\ j \in Ids
  <2>1. Buffer(buf) \in Seq(Ids)
    BY <1>1 DEF Buffer
  <2> QED BY <2>1, ListTypes
<1>3. \A x \in Ids : /\ Occurrences(readBuf, x) \in Nat /\ Occurrences(writeBuf, x) \in Nat
                     /\ Occurrences(active, x) \in Nat /\ Occurrences(activating, x) \in Nat
                     /\ Held(x) = Queued(x) + Occurrences(activating, x)
  BY <1>1, OccurrencesCount DEF Held, Queued
<1>4. Occurrences(RemoveAt(Buffer(buf), k), i) = Occurrences(Buffer(buf), i) - Same(i, j)
  BY <1>2, OccurrencesCount
<1>5. Queued(i)' = Queued(i) - Same(i, j)
  <2>1. Same(i, j) \in Nat
    BY DEF Same
  <2>2. Queued(i)' = Occurrences(readBuf', i) + Occurrences(writeBuf', i) + Occurrences(active', i)
    BY DEF Queued, Occurrences
  <2> HIDE DEF j
  <2>3. CASE buf = "active"
    <3>1. readBuf' = readBuf /\ writeBuf' = writeBuf /\ active' = RemoveAt(active, k)
          /\ Buffer(buf) = active
      BY <2>3 DEF Leave, Buffer
    <3> QED BY <1>3, <1>4, <2>1, <2>2, <3>1 DEF Queued
  <2>4. CASE buf = "read"
    <3>1. active' = active /\ writeBuf' = writeBuf /\ readBuf' = RemoveAt(readBuf, k)
          /\ Buffer(buf) = readBuf
      BY <2>4 DEF Leave, Buffer
    <3> QED BY <1>3, <1>4, <2>1, <2>2, <3>1 DEF Queued
  <2>5. CASE buf = "write"
    <3>1. active' = active /\ readBuf' = readBuf /\ writeBuf' = RemoveAt(writeBuf, k)
          /\ Buffer(buf) = writeBuf
      BY <2>5 DEF Leave, Buffer
    <3> QED BY <1>3, <1>4, <2>1, <2>2, <3>1 DEF Queued
  <2> QED BY <2>3, <2>4, <2>5
<1>6. Held(j) # 0
  <2>1. Occurrences(Buffer(buf), j) # 0
    BY <1>2, OccurrencesCount
  <2>2. Buffer(buf) \in {readBuf, writeBuf, active}
    BY DEF Buffer
  <2> HIDE DEF j
  <2>3. /\ Occurrences(readBuf, j) \in Nat /\ Occurrences(writeBuf, j) \in Nat
        /\ Occurrences(active, j) \in Nat /\ Occurrences(activating, j) \in Nat
        /\ Held(j) = Queued(j) + Occurrences(activating, j)
    BY <1>2, <1>3
  <2>4. \/ Occurrences(readBuf, j) # 0 \/ Occurrences(writeBuf, j) # 0 \/ Occurrences(active, j) # 0
    BY <2>1, <2>2
  <2>5. Queued(j) \in Nat /\ Queued(j) # 0
    BY <2>3, <2>4 DEF Queued
  <2> QED BY <2>3, <2>5
<1>7. Queued(i) \in Nat
  BY <1>3 DEF Queued
<1>8. /\ Occurrences(readBuf', i) \in Nat /\ Occurrences(writeBuf', i) \in Nat
      /\ Occurrences(active', i) \in Nat
  <2>1. RemoveAt(Buffer(buf), k) \in Seq(Ids)
    BY <1>2, ListTypes
  <2>2. readBuf' \in Seq(Ids) /\ writeBuf' \in Seq(Ids) /\ active' \in Seq(Ids)
    BY <1>1, <2>1 DEF Leave
  <2> QED BY <2>2, OccurrencesCount
<1> QED BY <1>2, <1>3, <1>5, <1>6, <1>7, <1>8

-----------------------------------------------------------------------------
(* The steps of a tick keep the total of every request.                    *)
Keeps == \A i \in Ids : Total(i)' = Total(i)

LEMMA HeldStays ==
  ASSUME NEW i \in Ids, UNCHANGED <<readBuf, writeBuf, active, activating>>
  PROVE  Held(i)' = Held(i)
BY DEF Held, Occurrences

LEMMA HeldLeaves ==
  ASSUME TypeInv, NEW buf \in {"active", "read", "write"}, NEW k \in DOMAIN Buffer(buf),
         Leave(buf, k), UNCHANGED activating, NEW i \in Ids
  PROVE  Held(i)' = Held(i) - Same(i, Buffer(buf)[k])
<1>1. /\ Queued(i) \in Nat /\ Occurrences(activating, i) \in Nat
      /\ Held(i) = Queued(i) + Occurrences(activating, i)
      /\ Queued(i)' = Queued(i) - Same(i, Buffer(buf)[k])
      /\ Occurrences(readBuf', i) \in Nat /\ Occurrences(writeBuf', i) \in Nat
      /\ Occurrences(active', i) \in Nat
      /\ Same(i, Buffer(buf)[k]) \in Nat
  BY LeaveMoves DEF Same
<1>2. Held(i)' = Occurrences(readBuf', i) + Occurrences(writeBuf', i) + Occurrences(activating, i)
                   + Occurrences(active', i)
  BY DEF Held, Occurrences
<1>3. Queued(i)' = Occurrences(readBuf', i) + Occurrences(writeBuf', i) + Occurrences(active', i)
  BY DEF Queued, Occurrences
<1>4. Held(i)' = Queued(i)' + Occurrences(activating, i)
  BY <1>1, <1>2, <1>3
<1> QED BY <1>1, <1>4

LEMMA RestKeeps ==
  ASSUME ConservedInv, NEW n \in 0 .. Len(pending), Answer(n, {}, <<>>), AbGoesOn, MacsGoOn,
         UNCHANGED <<readBuf, writeBuf, active, activating>>
  PROVE  Keeps
<1> SUFFICES ASSUME NEW i \in Ids PROVE Total(i)' = Total(i)
  BY DEF Keeps
<1>1. InflightInv /\ TypeInv
  BY DEF ConservedInv, InflightInv, SessionInv
<1>2. Held(i)' = Held(i) + 0 /\ Answers(i, 0)
  BY <1>1, HeldStays, RetireMoves, Amounts
<1>3. Working(i)' = Working(i) - WorkDone(i) + 0 /\ AllBank(i)' = AllBank(i) - AllBankDone(i) + 0
  <2>1. WorkDone(i) \in Nat /\ AllBankDone(i) \in Nat
    BY DEF WorkDone, AllBankDone, In
  <2> QED BY <1>1, <2>1, GoingOn, Amounts
<1> QED BY <1>2, <1>3, Balance

LEMMA PerformKeeps ==
  ASSUME ConservedInv, NEW n \in 0 .. Len(pending),
         NEW buf \in {"active", "read", "write"}, NEW k \in DOMAIN Buffer(buf), Perform(n, buf, k)
  PROVE  Keeps
<1> SUFFICES ASSUME NEW i \in Ids PROVE Total(i)' = Total(i)
  BY DEF Keeps
<1> DEFINE j == Buffer(buf)[k]
<1>1. InflightInv /\ TypeInv
  BY DEF ConservedInv, InflightInv, SessionInv
<1>2. Leave(buf, k) /\ Retire(n, j) /\ AbGoesOn /\ MacsGoOn /\ UNCHANGED activating
  BY DEF Perform, OpeningGoesOn
<1>3. j \in Ids
  BY <1>1, <1>2, LeaveMoves
<1>4. WorkDone(i) \in Nat /\ AllBankDone(i) \in Nat /\ Same(i, j) \in Nat
  BY DEF WorkDone, AllBankDone, Same, In
<1>5. Held(i)' = Held(i) - Same(i, j)
  BY <1>1, <1>2, HeldLeaves
<1> HIDE DEF j
<1>6. Held(i)' = Held(i) + (0 - Same(i, j)) /\ Answers(i, Same(i, j))
  BY <1>1, <1>2, <1>3, <1>4, <1>5, RetireMoves, Amounts
<1>7. Working(i)' = Working(i) - WorkDone(i) + 0 /\ AllBank(i)' = AllBank(i) - AllBankDone(i) + 0
  BY <1>1, <1>2, <1>4, GoingOn, Amounts
<1>8. (0 - Same(i, j)) + Same(i, j) + 0 + 0 = 0 /\ 0 - Same(i, j) \in Int /\ Same(i, j) \in Int
  BY <1>4
<1> QED BY <1>6, <1>7, <1>8, Balance

LEMMA ActivateKeeps ==
  ASSUME ConservedInv, NEW n \in 0 .. Len(pending),
         NEW buf \in {"active", "read", "write"}, NEW k \in DOMAIN Buffer(buf), Activate(n, buf, k)
  PROVE  Keeps
<1> SUFFICES ASSUME NEW i \in Ids PROVE Total(i)' = Total(i)
  BY DEF Keeps
<1> DEFINE j == Buffer(buf)[k]
<1>1. InflightInv /\ TypeInv
  BY DEF ConservedInv, InflightInv, SessionInv
<1>2. /\ Leave(buf, k) /\ Answer(n, {}, <<>>) /\ AbGoesOn /\ MacsGoOn
      /\ activating' = Append(activating, j)
  BY DEF Activate, PimGoesOn
<1>3. /\ Queued(i) \in Nat /\ Occurrences(activating, i) \in Nat
      /\ Held(i) = Queued(i) + Occurrences(activating, i)
      /\ Queued(i)' = Queued(i) - Same(i, j) /\ j \in Ids
      /\ Occurrences(readBuf', i) \in Nat /\ Occurrences(writeBuf', i) \in Nat
      /\ Occurrences(active', i) \in Nat
  BY <1>1, <1>2, LeaveMoves
<1>4. Occurrences(activating', i) = Occurrences(activating, i) + Same(i, j)
  <2>1. activating \in Seq(Ids)
    BY <1>1 DEF TypeInv, StepOK, OpeningOK
  <2> HIDE DEF j
  <2> QED BY <1>2, <1>3, <2>1, OccurrencesCount
<1>5. WorkDone(i) \in Nat /\ AllBankDone(i) \in Nat /\ Same(i, j) \in Nat
  BY DEF WorkDone, AllBankDone, Same, In
<1> HIDE DEF j
<1>6. Held(i)' = Held(i) + 0
  <2>1. Held(i)' = Occurrences(readBuf', i) + Occurrences(writeBuf', i) + Occurrences(activating', i)
                     + Occurrences(active', i)
    BY DEF Held, Occurrences
  <2>2. Queued(i)' = Occurrences(readBuf', i) + Occurrences(writeBuf', i) + Occurrences(active', i)
    BY DEF Queued, Occurrences
  <2>3. Occurrences(activating', i) \in Nat
    BY <1>3, <1>4, <1>5
  <2>4. Held(i)' = Queued(i)' + Occurrences(activating', i)
    BY <1>3, <2>1, <2>2, <2>3
  <2> QED BY <1>3, <1>4, <1>5, <2>4
<1>7. Working(i)' = Working(i) - WorkDone(i) + 0 /\ AllBank(i)' = AllBank(i) - AllBankDone(i) + 0
  BY <1>1, <1>2, <1>5, GoingOn, Amounts
<1> QED BY <1>2, <1>6, <1>7, RetireMoves, Balance

(* What is held is not in flight, so that what is launched is new there.   *)
LEMMA LaunchKeeps ==
  ASSUME ConservedInv, NEW n \in 0 .. Len(pending),
         NEW buf \in {"active", "read", "write"}, NEW k \in DOMAIN Buffer(buf), Launch(n, buf, k)
  PROVE  Keeps
<1> SUFFICES ASSUME NEW i \in Ids PROVE Total(i)' = Total(i)
  BY DEF Keeps
<1> DEFINE j == Buffer(buf)[k]
           new == [id |-> j, left |-> PimLatency]
           S == {f \in InflightNow : f.id = i}
<1>1. InflightInv /\ TypeInv
  BY DEF ConservedInv, InflightInv, SessionInv
<1>2. /\ Leave(buf, k) /\ Answer(n, {}, <<>>) /\ AbGoesOn /\ UNCHANGED activating
      /\ inflight' = InflightNow \cup {new}
  BY DEF Launch, OpeningGoesOn
<1>3. j \in Ids /\ Held(j) # 0
  BY <1>1, <1>2, LeaveMoves
<1>4. WorkDone(i) \in Nat /\ AllBankDone(i) \in Nat /\ Same(i, j) \in Nat
  BY DEF WorkDone, AllBankDone, Same, In
<1>5. Held(i)' = Held(i) - Same(i, j)
  BY <1>1, <1>2, HeldLeaves
<1>6. Working(i)' = Working(i) - WorkDone(i) + Same(i, j)
  <2>1. IsFiniteSet(S) /\ Cardinality(S) = Working(i) - WorkDone(i) /\ WorkDone(i) <= Working(i)
    BY <1>1, WorkMoves
  <2>2. Working(i)' = Cardinality({f \in InflightNow \cup {new} : f.id = i})
    BY <1>2 DEF Working
  <2>3. Working(i) \in Nat
    BY <1>1, Amounts
  <2>4. CASE i = j
    <3>1. {f \in InflightNow \cup {new} : f.id = i} = S \cup {new}
      BY <2>4
    <3>2. Working(i) = 0
      <4>1. /\ Held(i) \in Nat /\ Waiting(i) \in Nat /\ Working(i) \in Nat /\ AllBank(i) \in Nat
            /\ replies[i] \in Nat
        BY <1>1, Amounts
      <4>2. Total(i) = Sent(i) /\ Sent(i) <= 1
        BY ConservedParts DEF ConservedInv, Sent
      <4>3. Held(i) # 0
        BY <1>3, <2>4
      <4>4. Sent(i) \in Nat
        BY DEF Sent
      <4> QED BY <4>1, <4>2, <4>3, <4>4 DEF Total
    <3> HIDE DEF S, new
    <3>3. Cardinality(S) = 0
      BY <1>4, <2>1, <3>2
    <3>4. S = {}
      BY <2>1, <3>3, FS_EmptySet
    <3>5. Cardinality(S \cup {new}) = 1
      BY <3>4, FS_Singleton
    <3>6. Same(i, j) = 1
      BY <2>4 DEF Same
    <3>7. WorkDone(i) = 0
      BY <1>4, <2>1, <3>2
    <3>8. Working(i)' = 1
      BY <2>2, <3>1, <3>5
    <3> QED BY <3>2, <3>6, <3>7, <3>8
  <2>5. CASE i # j
    <3>1. {f \in InflightNow \cup {new} : f.id = i} = S
      BY <2>5
    <3>2. Same(i, j) = 0
      BY <2>5 DEF Same
    <3>3. Working(i)' = Working(i) - WorkDone(i)
      BY <2>1, <2>2, <3>1
    <3> QED BY <1>4, <2>3, <3>2, <3>3
  <2> QED BY <2>4, <2>5
<1> HIDE DEF j
<1>7. Held(i)' = Held(i) + (0 - Same(i, j)) /\ AllBank(i)' = AllBank(i) - AllBankDone(i) + 0
  BY <1>1, <1>2, <1>4, <1>5, GoingOn, Amounts
<1>8. (0 - Same(i, j)) + 0 + Same(i, j) + 0 = 0 /\ 0 - Same(i, j) \in Int /\ Same(i, j) \in Int
  BY <1>4
<1> QED BY <1>2, <1>6, <1>7, <1>8, RetireMoves, Balance

LEMMA LaunchAllBankKeeps ==
  ASSUME ConservedInv, NEW n \in 0 .. Len(pending),
         NEW buf \in {"active", "read", "write"}, NEW k \in DOMAIN Buffer(buf),
         LaunchAllBank(n, buf, k), Eligible(Buffer(buf)[k])
  PROVE  Keeps
<1> SUFFICES ASSUME NEW i \in Ids PROVE Total(i)' = Total(i)
  BY DEF Keeps
<1> DEFINE j == Buffer(buf)[k]
<1>1. InflightInv /\ TypeInv
  BY DEF ConservedInv, InflightInv, SessionInv
<1>2. /\ Leave(buf, k) /\ Answer(n, {}, <<>>) /\ MacsGoOn /\ UNCHANGED activating
      /\ ab' = j /\ AbNow = 0
  BY DEF LaunchAllBank, OpeningGoesOn, Eligible
<1>3. j \in Ids
  BY <1>1, <1>2, LeaveMoves
<1>4. WorkDone(i) \in Nat /\ AllBankDone(i) \in Nat /\ Same(i, j) \in Nat
  BY DEF WorkDone, AllBankDone, Same, In
<1>5. Held(i)' = Held(i) - Same(i, j)
  BY <1>1, <1>2, HeldLeaves
<1> HIDE DEF j
<1>6. AllBank(i)' = AllBank(i) - AllBankDone(i) + Same(i, j)
  <2>1. AllBank(i) - AllBankDone(i) = 0
    BY <1>2, AllBankMoves DEF Same, Ids
  <2>2. AllBank(i)' = Same(i, j)
    BY <1>2 DEF AllBank, Same
  <2> QED BY <1>4, <2>1, <2>2
<1>7. Held(i)' = Held(i) + (0 - Same(i, j)) /\ Working(i)' = Working(i) - WorkDone(i) + 0
  BY <1>1, <1>2, <1>4, <1>5, GoingOn, Amounts
<1>8. (0 - Same(i, j)) + 0 + 0 + Same(i, j) = 0 /\ 0 - Same(i, j) \in Int /\ Same(i, j) \in Int
  BY <1>4
<1> QED BY <1>2, <1>6, <1>7, <1>8, RetireMoves, Balance

LEMMA OpenRowKeeps ==
  ASSUME ConservedInv, NEW n \in 0 .. Len(pending), NEW k \in DOMAIN activating, OpenRow(n, k)
  PROVE  Keeps
<1> SUFFICES ASSUME NEW i \in Ids PROVE Total(i)' = Total(i)
  BY DEF Keeps
<1> DEFINE j == activating[k]
<1>1. InflightInv /\ TypeInv /\ active \in Seq(Ids) /\ activating \in Seq(Ids)
      /\ readBuf \in Seq(Ids) /\ writeBuf \in Seq(Ids)
  BY DEF ConservedInv, InflightInv, SessionInv, TypeInv, StepOK, BuffersOK, OpeningOK
<1>2. /\ Answer(n, {}, <<>>) /\ AbGoesOn /\ MacsGoOn /\ UNCHANGED <<readBuf, writeBuf>>
      /\ \/ UNCHANGED <<active, activating>>
         \/ active' = Append(active, j) /\ activating' = RemoveAt(activating, k)
  BY DEF OpenRow, PimGoesOn, bufferVars
<1>3. CASE UNCHANGED <<active, activating>>
  <2>1. Keeps
    BY <1>2, <1>3, RestKeeps
  <2> QED BY <2>1 DEF Keeps
<1>4. CASE active' = Append(active, j) /\ activating' = RemoveAt(activating, k)
  <2>1. j \in Ids
    BY <1>1, ListTypes
  <2>2. /\ Occurrences(readBuf, i) \in Nat /\ Occurrences(writeBuf, i) \in Nat
        /\ Occurrences(active, i) \in Nat /\ Occurrences(activating, i) \in Nat
    BY <1>1, OccurrencesCount
  <2>3. /\ Occurrences(active', i) = Occurrences(active, i) + Same(i, j)
        /\ Occurrences(activating', i) = Occurrences(activating, i) - Same(i, j)
    BY <1>1, <1>4, <2>1, OccurrencesCount
  <2>4. WorkDone(i) \in Nat /\ AllBankDone(i) \in Nat /\ Same(i, j) \in Nat
    BY DEF WorkDone, AllBankDone, Same, In
  <2> HIDE DEF j
  <2>5. Held(i)' = Held(i) + 0
    <3>1. Held(i)' = Occurrences(readBuf', i) + Occurrences(writeBuf', i)
                       + Occurrences(activating', i) + Occurrences(active', i)
      BY DEF Held, Occurrences
    <3>2. readBuf' = readBuf /\ writeBuf' = writeBuf
      BY <1>2
    <3> QED BY <2>2, <2>3, <2>4, <3>1, <3>2 DEF Held
  <2>6. Working(i)' = Working(i) - WorkDone(i) + 0 /\ AllBank(i)' = AllBank(i) - AllBankDone(i) + 0
    <3>1. Working(i) \in Nat /\ AllBank(i) \in Nat
      BY <1>1, Amounts
    <3>2. Working(i)' = Working(i) - WorkDone(i) /\ AllBank(i)' = AllBank(i) - AllBankDone(i)
      BY <1>1, <1>2, GoingOn
    <3> QED BY <2>4, <3>1, <3>2
  <2> QED BY <1>2, <2>5, <2>6, RetireMoves, Balance
<1> QED BY <1>2, <1>3, <1>4

LEMMA TickKeeps ==
  ASSUME ConservedInv, Tick
  PROVE  Keeps /\ UNCHANGED sent
<1>1. PICK n \in 0 .. Len(pending) :
        \/ TickSynchronised(n) \/ TickUrgent(n) \/ TickMaintenance(n) \/ TickSelected(n)
        \/ TickDeferred(n) \/ TickThrow(n)
  BY DEF Tick
<1>2. UNCHANGED sent
  BY <1>1 DEF TickSynchronised, TickUrgent, TickMaintenance, TickSelected, TickDeferred,
              TickThrow, TickStart
<1>3. Wait(n) => Keeps
  BY RestKeeps DEF Wait, PimGoesOn, OpeningGoesOn, Stay, bufferVars
<1>4. CASE TickUrgent(n) \/ TickDeferred(n) \/ TickThrow(n)
  <2>1. Wait(n) \/ \E k \in DOMAIN activating : OpenRow(n, k)
    BY <1>4 DEF TickUrgent, TickDeferred, TickThrow
  <2> QED BY <1>2, <1>3, <2>1, OpenRowKeeps
<1>5. CASE TickMaintenance(n)
  BY <1>2, <1>5, RestKeeps DEF TickMaintenance, PimGoesOn, OpeningGoesOn, Stay, bufferVars
<1>6. CASE TickSynchronised(n)
  BY <1>2, <1>3, <1>6, PerformKeeps DEF TickSynchronised
<1>7. CASE TickSelected(n)
  <2> DEFINE Step(buf, k) ==
               /\ Selects(buf, k)
               /\ \/ \E m \in DOMAIN activating : OpenRow(n, m)
                  \/ Synchronise(n, buf, k) \/ Perform(n, buf, k) \/ Prepare(n, buf, k)
                  \/ Activate(n, buf, k) \/ Launch(n, buf, k) \/ LaunchAllBank(n, buf, k)
  <2>1. PICK buf \in {"active", "read", "write"} : \E k \in DOMAIN Buffer(buf) : Step(buf, k)
    BY <1>7 DEF TickSelected
  <2>2. PICK k \in DOMAIN Buffer(buf) : Step(buf, k)
    BY <2>1
  <2>3. Eligible(Buffer(buf)[k])
    BY <2>2, SelectedEligible
  <2>4. CASE Synchronise(n, buf, k)
    BY <1>2, <2>4, RestKeeps DEF Synchronise, PimGoesOn, OpeningGoesOn, Stay, bufferVars
  <2>5. CASE Prepare(n, buf, k)
    BY <1>2, <2>5, RestKeeps DEF Prepare, OpeningGoesOn, Stay, bufferVars
  <2> QED BY <1>2, <2>2, <2>3, <2>4, <2>5, OpenRowKeeps, PerformKeeps, ActivateKeeps, LaunchKeeps,
             LaunchAllBankKeeps
<1> QED BY <1>1, <1>2, <1>4, <1>5, <1>6, <1>7

(* A request that is sent is new, and put in one place.                    *)
LEMMA SendKeeps ==
  ASSUME ConservedInv, Send, NEW i \in Ids
  PROVE  Total(i)' = Total(i) + Same(i, sent + 1) /\ sent' = sent + 1
<1> DEFINE x == sent + 1
<1>1. PICK a \in Addrs : \/ SendForwardedRead(a) \/ SendCoalescedWrite(a) \/ SendWrite(a)
                         \/ \E final \in Finals : SendQueued(final, a)
  BY DEF Send
<1>2. PICK final \in Finals : Accept(final, a)
  BY <1>1 DEF SendForwardedRead, SendCoalescedWrite, SendWrite, SendQueued, Finals, Accesses
<1>3. /\ TypeInv /\ readBuf \in Seq(Ids) /\ writeBuf \in Seq(Ids) /\ pending \in Seq(Timers)
      /\ active \in Seq(Ids) /\ activating \in Seq(Ids) /\ replies \in [Ids -> Nat]
  BY DEF ConservedInv, InflightInv, SessionInv, TypeInv, StepOK, BuffersOK, OpeningOK, AnswersOK
<1>4. x \in Ids /\ sent' = x
  BY <1>2, <1>3, SentIds, ConstantTypes DEF Accept, Ids
<1>5. /\ UNCHANGED <<active, activating, inflight, ab>>
  BY <1>2 DEF Accept, pimVars, openingVars
<1>6. /\ Occurrences(readBuf, i) \in Nat /\ Occurrences(writeBuf, i) \in Nat
      /\ Occurrences(active, i) \in Nat /\ Occurrences(activating, i) \in Nat
  BY <1>3, OccurrencesCount
<1>7. /\ Held(i) \in Nat /\ Waiting(i) \in Nat /\ Working(i) \in Nat /\ AllBank(i) \in Nat
      /\ replies[i] \in Nat /\ Same(i, x) \in Nat
  BY <1>3, Amounts DEF Same
<1>8. Working(i)' = Working(i) /\ AllBank(i)' = AllBank(i)
  BY <1>5 DEF Working, AllBank
<1>9. Total(i)' = Held(i)' + Waiting(i)' + Working(i)' + AllBank(i)' + replies'[i]
  BY DEF Total
<1>10. Held(i)' = Occurrences(readBuf', i) + Occurrences(writeBuf', i)
                    + Occurrences(activating', i) + Occurrences(active', i)
  BY DEF Held, Occurrences
<1>11. Waiting(i)' = Waiting(i) \/ UNCHANGED pending => Waiting(i)' = Waiting(i)
  BY DEF Waiting
<1>12. CASE SendForwardedRead(a)
  <2> DEFINE t == [id |-> x, left |-> 1]
             T == {y \in Timers : y.id = i}
  <2>1. pending' = Append(pending, t) /\ UNCHANGED <<readBuf, writeBuf, replies>> /\ t \in Timers
    BY <1>4, <1>12 DEF SendForwardedRead, bufferVars, Timers
  <2>2. pending' \in Seq(Timers)
    BY <1>3, <2>1, AppendProperties
  <2>3. \A q \in Seq(Timers) : {k \in DOMAIN q : q[k].id = i} = {k \in DOMAIN q : q[k] \in T}
    BY LenProperties, ElementOfSeq
  <2>4. Waiting(i) = CountIn(pending, T) /\ Waiting(i)' = CountIn(pending', T)
    BY <1>3, <2>2, <2>3 DEF Waiting, CountIn
  <2>5. CountIn(Append(pending, t), T) = CountIn(pending, T) + Same(i, x)
    <3>1. t \in T <=> i = x
      BY <2>1
    <3> HIDE DEF t, T, x
    <3> QED BY <1>3, <2>1, <3>1, CountAppend DEF Same
  <2> HIDE DEF t, T, x
  <2>6. Waiting(i)' = Waiting(i) + Same(i, x)
    BY <2>1, <2>4, <2>5
  <2>7. Held(i)' = Held(i)
    BY <1>5, <2>1, HeldStays
  <2> QED BY <1>4, <1>7, <1>8, <1>9, <2>1, <2>6, <2>7 DEF Total, x
<1>13. CASE SendCoalescedWrite(a)
  <2>1. replies' = [replies EXCEPT ![x] = @ + 1] /\ UNCHANGED <<readBuf, writeBuf, pending>>
    BY <1>13 DEF SendCoalescedWrite, bufferVars
  <2>2. replies'[i] = replies[i] + Same(i, x)
    BY <1>3, <2>1 DEF Same
  <2>3. Held(i)' = Held(i)
    BY <1>5, <2>1, HeldStays
  <2> HIDE DEF x
  <2> QED BY <1>4, <1>7, <1>8, <1>9, <1>11, <2>1, <2>2, <2>3 DEF Total, x
<1>14. ASSUME \/ readBuf' = Append(readBuf, x) /\ UNCHANGED writeBuf
              \/ writeBuf' = Append(writeBuf, x) /\ UNCHANGED readBuf,
              UNCHANGED <<pending, replies>>
       PROVE  Total(i)' = Total(i) + Same(i, x)
  <2> HIDE DEF x
  <2>1. \/ /\ Occurrences(readBuf', i) = Occurrences(readBuf, i) + Same(i, x)
           /\ Occurrences(writeBuf', i) = Occurrences(writeBuf, i)
        \/ /\ Occurrences(writeBuf', i) = Occurrences(writeBuf, i) + Same(i, x)
           /\ Occurrences(readBuf', i) = Occurrences(readBuf, i)
    <3>1. \A q \in Seq(Ids) : Occurrences(Append(q, x), i) = Occurrences(q, i) + Same(i, x)
      BY <1>4, OccurrencesCount
    <3> QED BY <1>3, <1>14, <3>1
  <2>2. Held(i)' = Held(i) + Same(i, x)
    BY <1>5, <1>6, <1>7, <1>10, <2>1 DEF Held
  <2> QED BY <1>7, <1>8, <1>9, <1>11, <1>14, <2>2 DEF Total
<1>15. CASE SendWrite(a)
  BY <1>4, <1>14, <1>15 DEF SendWrite
<1>16. CASE \E f \in Finals : SendQueued(f, a)
  BY <1>4, <1>14, <1>16 DEF SendQueued
<1> QED BY <1>1, <1>12, <1>13, <1>15, <1>16

LEMMA ConservedInductive == ConservedInv /\ [Next]_vars => ConservedInv'
<1> SUFFICES ASSUME ConservedInv, [Next]_vars PROVE ConservedInv'
  OBVIOUS
<1>1. InflightInv /\ InflightInv' /\ sent \in Nat
  BY InflightInductive, SentIds, ConstantTypes DEF ConservedInv, InflightInv, SessionInv
<1>2. \A i \in Ids : Total(i) = Sent(i)
  BY ConservedParts DEF ConservedInv
<1>3. ASSUME \A i \in Ids : Total(i)' = Sent(i)' PROVE Conserved'
  BY <1>3 DEF Conserved, Total, Held, Waiting, Working, AllBank, Sent, Occurrences
<1>4. CASE Tick
  <2>1. Keeps /\ UNCHANGED sent
    BY <1>4, TickKeeps
  <2>2. \A i \in Ids : Total(i)' = Sent(i)'
    BY <1>2, <2>1 DEF Keeps, Sent
  <2> QED BY <1>1, <1>3, <2>2 DEF ConservedInv
<1>5. CASE Send
  <2>1. \A i \in Ids : Total(i)' = Sent(i)'
    <3> SUFFICES ASSUME NEW i \in Ids PROVE Total(i)' = Sent(i)'
      OBVIOUS
    <3>1. Total(i)' = Total(i) + Same(i, sent + 1) /\ sent' = sent + 1
      BY <1>5, SendKeeps
    <3>2. i \in Int
      BY ConstantTypes DEF Ids
    <3>3. Sent(i)' = Sent(i) + Same(i, sent + 1)
      BY <1>1, <3>1, <3>2 DEF Sent, Same
    <3> QED BY <1>2, <3>1, <3>3
  <2> QED BY <1>1, <1>3, <2>1 DEF ConservedInv
<1>6. CASE UNCHANGED vars
  <2>1. Conserved'
    BY <1>6 DEF ConservedInv, Conserved, Occurrences, vars, bufferVars, openingVars, pimVars
  <2> QED BY <1>1, <2>1 DEF ConservedInv
<1> QED BY <1>4, <1>5, <1>6 DEF Next

LEMMA ConservedInitially == Init => ConservedInv
<1> SUFFICES ASSUME Init PROVE ConservedInv
  OBVIOUS
<1>1. InflightInv
  BY InflightInitially
<1>2. /\ readBuf = <<>> /\ writeBuf = <<>> /\ activating = <<>> /\ active = <<>> /\ pending = <<>>
      /\ inflight = {} /\ ab = 0 /\ sent = 0 /\ replies = [i \in Ids |-> 0]
  BY DEF Init
<1>3. ASSUME NEW i \in Ids PROVE Total(i) = Sent(i)
  <2>1. \A k \in DOMAIN <<>> : FALSE
    OBVIOUS
  <2>2. Occurrences(<<>>, i) = 0
    <3>1. {k \in DOMAIN <<>> : <<>>[k] = i} = {}
      BY <2>1
    <3> QED BY <3>1, FS_EmptySet DEF Occurrences
  <2>3. Waiting(i) = 0
    <3>1. {k \in DOMAIN pending : pending[k].id = i} = {}
      BY <1>2, <2>1
    <3> QED BY <3>1, FS_EmptySet DEF Waiting
  <2>4. Working(i) = 0
    <3>1. {f \in inflight : f.id = i} = {}
      BY <1>2
    <3> QED BY <3>1, FS_EmptySet DEF Working
  <2>5. AllBank(i) = 0 /\ Sent(i) = 0 /\ replies[i] = 0
    BY <1>2, ConstantTypes DEF AllBank, Sent, Ids
  <2> QED BY <1>2, <2>2, <2>3, <2>4, <2>5 DEF Total, Held
<1> QED BY <1>1, <1>3, ConservedParts DEF ConservedInv

(* A request is in exactly one place until it has been answered, once: no  *)
(* step of a tick, no completion and no answer loses it or makes it twice, *)
(* in whatever order they come.                                            *)
THEOREM RequestsConserved == Spec => []Conserved
<1>1. ConservedInv => Conserved
  BY DEF ConservedInv
<1>2. Spec => []ConservedInv
  BY ConservedInitially, ConservedInductive, PTL DEF Spec
<1> QED BY <1>1, <1>2, PTL

-----------------------------------------------------------------------------
(* The port. No step takes an answer back, and none is given twice.        *)

AnswersStay == \A i \in Ids : replies'[i] >= replies[i]

LEMMA AnswerStays ==
  ASSUME replies \in [Ids -> Nat], NEW n, NEW S, NEW P, Answer(n, S, P)
  PROVE  AnswersStay
BY DEF AnswersStay, Answer

LEMMA TickAnswers == ASSUME ConservedInv, Tick PROVE AnswersStay
<1>1. replies \in [Ids -> Nat]
  BY DEF ConservedInv, InflightInv, SessionInv, TypeInv, StepOK, AnswersOK
<1>2. PICK n \in 0 .. Len(pending) :
        \/ TickSynchronised(n) \/ TickUrgent(n) \/ TickMaintenance(n) \/ TickSelected(n)
        \/ TickDeferred(n) \/ TickThrow(n)
  BY DEF Tick
<1>3. /\ Wait(n) => AnswersStay
      /\ \A k : OpenRow(n, k) => AnswersStay
      /\ \A b, k : Perform(n, b, k) \/ Prepare(n, b, k) \/ Activate(n, b, k) \/ Synchronise(n, b, k)
                 \/ Launch(n, b, k) \/ LaunchAllBank(n, b, k) => AnswersStay
  BY <1>1, AnswerStays DEF Wait, OpenRow, Perform, Prepare, Activate, Synchronise, Launch,
                           LaunchAllBank, Retire
<1>4. CASE TickMaintenance(n)
  BY <1>1, <1>4, AnswerStays DEF TickMaintenance
<1>5. CASE TickSelected(n)
  BY <1>3, <1>5 DEF TickSelected
<1>6. CASE TickSynchronised(n)
  BY <1>3, <1>6 DEF TickSynchronised
<1>7. CASE TickUrgent(n) \/ TickDeferred(n) \/ TickThrow(n)
  BY <1>3, <1>7 DEF TickUrgent, TickDeferred, TickThrow
<1> QED BY <1>2, <1>4, <1>5, <1>6, <1>7

(* A request is answered once at most, and only when it has been sent.     *)
LEMMA AnsweredOnce ==
  ASSUME ConservedInv
  PROVE  /\ replies \in [Ids -> {0, 1}] /\ sent \in 0 .. MaxSend
         /\ \A i \in Ids : i > sent => replies[i] = 0
<1>1. TypeInv /\ replies \in [Ids -> Nat] /\ sent \in 0 .. MaxSend
  BY SentIds DEF ConservedInv, InflightInv, SessionInv, TypeInv, StepOK, AnswersOK
<1>2. ASSUME NEW i \in Ids PROVE replies[i] \in {0, 1} /\ (i > sent => replies[i] = 0)
  <2>1. Total(i) = Sent(i)
    BY ConservedParts DEF ConservedInv
  <2>2. /\ Held(i) \in Nat /\ Waiting(i) \in Nat /\ Working(i) \in Nat /\ AllBank(i) \in Nat
        /\ replies[i] \in Nat
    BY <1>1, Amounts
  <2>3. Sent(i) \in {0, 1} /\ (i > sent => Sent(i) = 0)
    BY <1>1, ConstantTypes DEF Sent, Ids
  <2>4. replies[i] <= Sent(i)
    <3>1. Held(i) + Waiting(i) + Working(i) + AllBank(i) + replies[i] = Sent(i)
      BY <2>1 DEF Total
    <3> QED BY ONLY <2>2, <3>1
  <2> QED BY <2>2, <2>3, <2>4
<1> QED BY <1>1, <1>2

LEMMA PortStep ==
  ASSUME ConservedInv, ConservedInv', [Next]_vars
  PROVE  Port!PortNext \/ UNCHANGED Port!portVars
<1>1. /\ replies \in [Ids -> {0, 1}] /\ sent \in 0 .. MaxSend
      /\ \A i \in Ids : i > sent => replies[i] = 0
  BY AnsweredOnce
<1>2. replies' \in [Ids -> {0, 1}] /\ \A i \in Ids : i > sent' => replies'[i] = 0
  <2>1. ConservedInv' => /\ (replies \in [Ids -> {0, 1}])'
                         /\ (\A i \in Ids : i > sent => replies[i] = 0)'
    BY AnsweredOnce, PTL
  <2> QED BY <2>1
<1>3. CASE Tick
  <2>1. UNCHANGED sent /\ AnswersStay
    BY <1>3, TickKeeps, TickAnswers
  <2> DEFINE S == {i \in Ids : replies[i] = 0 /\ replies'[i] = 1}
  <2>2. S \in SUBSET Port!Unanswered
    BY <1>1, <1>2, <2>1, ConstantTypes DEF Port!Unanswered, Ids
  <2>3. \A i \in Ids : replies'[i] = IF i \in S THEN 1 ELSE replies[i]
    BY <1>1, <1>2, <2>1 DEF AnswersStay
  <2>4. replies' = [i \in 1 .. MaxSend |-> IF i \in S THEN 1 ELSE replies[i]]
    BY <1>2, <2>3 DEF Ids
  <2>5. CASE S = {}
    <3>1. replies' = replies
      BY <1>1, <1>2, <2>3, <2>5
    <3> QED BY <2>1, <3>1 DEF Port!portVars
  <2>6. CASE S # {}
    <3> HIDE DEF S
    <3>1. Port!AnswerRequests
      BY <2>1, <2>2, <2>4, <2>6 DEF Port!AnswerRequests
    <3> QED BY <3>1 DEF Port!PortNext
  <2> QED BY <2>5, <2>6
<1>4. CASE Send
  <2>1. PICK a \in Addrs : \/ SendForwardedRead(a) \/ SendCoalescedWrite(a) \/ SendWrite(a)
                           \/ \E final \in Finals : SendQueued(final, a)
    BY <1>4 DEF Send
  <2>2. /\ sent < MaxSend /\ sent' = sent + 1
        /\ UNCHANGED replies \/ replies' = [replies EXCEPT ![sent + 1] = @ + 1]
    BY <2>1 DEF SendForwardedRead, SendCoalescedWrite, SendWrite, SendQueued, Accept
  <2>3. sent + 1 \in Ids /\ replies[sent + 1] = 0
    BY <1>1, <2>2, ConstantTypes DEF Ids
  <2>4. Port!AcceptRequest
    <3>1. CASE UNCHANGED replies
      BY <2>2, <3>1 DEF Port!AcceptRequest
    <3>2. CASE replies' = [replies EXCEPT ![sent + 1] = @ + 1]
      <4>1. replies' = [replies EXCEPT ![sent + 1] = 1]
        BY <2>3, <3>2
      <4> QED BY <2>2, <4>1 DEF Port!AcceptRequest
    <3> QED BY <2>2, <3>1, <3>2
  <2> QED BY <2>4 DEF Port!PortNext
<1>5. CASE UNCHANGED vars
  BY <1>5 DEF vars, Port!portVars
<1> QED BY <1>3, <1>4, <1>5 DEF Next

(* The frontend sees a memory port: a request it has sent is answered once *)
(* at most, and never before it was sent. The controller refines           *)
(* MemoryPort.                                                             *)
THEOREM PortImplemented == Spec => ImplementsPort
<1>1. Init => Port!PortInit
  BY DEF Init, Port!PortInit, Ids
<1>2. Spec => []ConservedInv
  BY ConservedInitially, ConservedInductive, PTL DEF Spec
<1>3. ConservedInv /\ ConservedInv' /\ [Next]_vars => [Port!PortNext]_Port!portVars
  BY PortStep
<1> QED BY <1>1, <1>2, <1>3, PTL DEF Spec, ImplementsPort, Port!PortSpec

-----------------------------------------------------------------------------
(* Rows.                                                                   *)
RowAccesses == {"RD", "WR", "PIM_MAC"}

(* A bank between ACT1 and ACT2 is owned by the one activating request of  *)
(* its.                                                                    *)
OpeningExact ==
  /\ \A b \in Banks : open[b] = Activating <=> b \in owner
  /\ \A k \in DOMAIN activating : BankOf(activating[k]) \in owner /\ Final(activating[k]) \in RowAccesses
  /\ \A j, k \in DOMAIN activating : BankOf(activating[j]) = BankOf(activating[k]) => j = k
  /\ \A b \in owner : \E k \in DOMAIN activating : BankOf(activating[k]) = b

(* Requests are active one to a bank, with their row open.                 *)
ActiveAt(b) == \E k \in DOMAIN active : BankOf(active[k]) = b
ActiveExact ==
  /\ \A k \in DOMAIN active : /\ open[BankOf(active[k])] = RowOf(active[k])
                              /\ Final(active[k]) \in RowAccesses
  /\ \A j, k \in DOMAIN active : BankOf(active[j]) = BankOf(active[k]) => j = k
  /\ \A b \in Banks : activePerBank[b] = IF ActiveAt(b) THEN 1 ELSE 0

RowInv == InflightInv /\ OpeningExact /\ ActiveExact /\ ExecutingRowOpen

-----------------------------------------------------------------------------
(* Facts about a state.                                                    *)

LEMMA RowTypes ==
  ASSUME RowInv
  PROVE  /\ TypeInv /\ StepOK /\ CountersOK /\ KnownIds
         /\ active \in Seq(Ids) /\ activating \in Seq(Ids)
         /\ \A k \in DOMAIN active : active[k] \in Ids
         /\ \A k \in DOMAIN activating : activating[k] \in Ids
         /\ \A f \in inflight : f.id \in Ids
         /\ open \in [Banks -> Rows \cup {Closed, Activating}]
         /\ activePerBank \in [Banks -> Int]
<1>1. TypeInv /\ StepOK /\ CountersOK /\ KnownIds
  BY DEF RowInv, InflightInv, SessionInv, TypeInv
<1>2. active \in Seq(Ids) /\ activating \in Seq(Ids)
  BY <1>1 DEF StepOK, BuffersOK, OpeningOK
<1>3. \A f \in inflight : f.id \in Ids
  BY <1>1 DEF StepOK, InflightOK, Timers
<1>4. open \in [Banks -> Rows \cup {Closed, Activating}] /\ activePerBank \in [Banks -> Int]
  BY <1>1 DEF StepOK, PIMDeviceTypeOK
<1> QED BY <1>1, <1>2, <1>3, <1>4, ListTypes

LEMMA RowsAreNot == \A r \in Rows : r # Closed /\ r # Activating
BY PIMDeviceAssumption

(* A request to an open row needs no prerequisite.                         *)
LEMMA CommandOfRow ==
  ASSUME CountersOK, NEW i \in Ids
  PROVE  /\ Final(i) \in RowAccesses /\ open[BankOf(i)] = RowOf(i) => Command(i) = Final(i)
         /\ Final(i) \in RowAccesses /\ Command(i) = Final(i) => open[BankOf(i)] = RowOf(i)
         /\ Command(i) = "ACT1" => open[BankOf(i)] = Closed /\ Final(i) \in RowAccesses
         /\ Command(i) # "PREab"
<1>1. Final(i) \in Finals /\ RowOf(i) \in Rows
  BY RequestTypes
<1>2. RowOf(i) # Closed /\ RowOf(i) # Activating
  BY <1>1, RowsAreNot
<1>3. CASE Final(i) \in RowAccesses
  BY <1>2, <1>3 DEF Command, PreqCommand, RowAccesses
<1>4. CASE Final(i) \notin RowAccesses
  BY <1>1, <1>4 DEF Command, PreqCommand, RowAccesses, Finals, Accesses, Modes
<1> QED BY <1>3, <1>4

(* Only these commands change a row.                                       *)
LEMMA NeutralCommand ==
  ASSUME PIMDeviceTypeOK, NEW c, NEW b, NEW r, IssueCommand(c, b, r),
         c \notin {"PREpb", "PREab", "ACT1", "ACT2"}
  PROVE  open' = open
BY DEF IssueCommand, IsClosing, PIMDeviceTypeOK

(* The work in flight keeps its rows if they stay as they are.             *)
LEMMA ExecutingKept ==
  ASSUME RowInv, MacsGoOn, UNCHANGED req,
         \A x \in Banks : OnBank(InflightNow, x) # {} => open'[x] = open[x]
  PROVE  ExecutingRowOpen'
<1> SUFFICES ASSUME NEW f \in InflightNow PROVE open'[BankOf(f.id)] = RowOf(f.id)
  BY DEF ExecutingRowOpen, MacsGoOn, BankOf, RowOf
<1>1. PICK o \in inflight : f = [o EXCEPT !.left = @ - 1]
  BY DEF InflightNow
<1>2. o \in Timers /\ f.id = o.id /\ f.id \in Ids
  <2>1. o \in Timers
    BY RowTypes DEF StepOK, InflightOK
  <2> QED BY <1>1, <2>1 DEF Timers
<1>3. open[BankOf(f.id)] = RowOf(f.id) /\ BankOf(f.id) \in Banks
  BY <1>2, RowTypes, RequestTypes DEF RowInv, ExecutingRowOpen
<1>4. f \in OnBank(InflightNow, BankOf(f.id))
  BY DEF OnBank
<1> QED BY <1>3, <1>4

(* A step that closes only banks nobody has a claim on.                    *)
LEMMA RowsKept ==
  ASSUME RowInv, MacsGoOn, UNCHANGED <<req, active, activePerBank, activating, owner>>,
         \A x \in Banks : \/ open'[x] = open[x]
                          \/ /\ open'[x] = Closed /\ x \notin owner /\ ~ActiveAt(x)
                             /\ OnBank(InflightNow, x) = {}
  PROVE  OpeningExact' /\ ActiveExact' /\ ExecutingRowOpen'
<1>1. ExecutingRowOpen'
  BY ExecutingKept
<1>2. OpeningExact'
  BY PIMDeviceAssumption DEF RowInv, OpeningExact, BankOf, Final
<1>3. ActiveExact'
  <2>1. \A b : ActiveAt(b)' <=> ActiveAt(b)
    BY DEF ActiveAt, BankOf
  <2>2. ASSUME NEW k \in DOMAIN active
        PROVE  open'[BankOf(active[k])] = RowOf(active[k])
    <3>1. ActiveAt(BankOf(active[k])) /\ BankOf(active[k]) \in Banks
      BY RowTypes, RequestTypes DEF ActiveAt
    <3>2. open[BankOf(active[k])] = RowOf(active[k])
      BY DEF RowInv, ActiveExact
    <3> QED BY <3>1, <3>2
  <2> QED BY <2>1, <2>2 DEF RowInv, ActiveExact, BankOf, RowOf, Final
<1> QED BY <1>1, <1>2, <1>3

(* A request that leaves takes its place in the count with it.             *)
LEMMA LeaveActive ==
  ASSUME RowInv, UNCHANGED req, open' = open,
         NEW buf \in {"active", "read", "write"}, NEW k \in DOMAIN Buffer(buf),
         Leave(buf, k), ReleaseBank(buf, BankOf(Buffer(buf)[k]))
  PROVE  ActiveExact'
<1>1. CASE buf # "active"
  <2>1. UNCHANGED <<active, activePerBank>>
    BY <1>1 DEF Leave, ReleaseBank
  <2>2. \A b : ActiveAt(b)' <=> ActiveAt(b)
    BY <2>1 DEF ActiveAt, BankOf
  <2> QED BY <2>1, <2>2 DEF RowInv, ActiveExact, BankOf, RowOf, Final
<1>2. CASE buf = "active"
  <2> DEFINE c == BankOf(active[k])
  <2>1. /\ active' = RemoveAt(active, k) /\ k \in DOMAIN active
        /\ activePerBank' = [activePerBank EXCEPT ![c] = @ - 1]
    BY <1>2 DEF Leave, ReleaseBank, Buffer
  <2>2. active \in Seq(Ids) /\ c \in Banks /\ activePerBank \in [Banks -> Int]
    BY <2>1, RowTypes, RequestTypes
  <2>3. /\ \A j \in DOMAIN active' : \E m \in DOMAIN active : m # k /\ active'[j] = active[m]
        /\ \A m \in DOMAIN active \ {k} : \E j \in DOMAIN active' : active'[j] = active[m]
        /\ \A i, j \in DOMAIN active' : i # j =>
             \E m, n \in DOMAIN active : m # n /\ active'[i] = active[m] /\ active'[j] = active[n]
    BY <2>1, <2>2, RemoveAtElements
  <2>4. /\ \A j \in DOMAIN active' : /\ open[BankOf(active'[j])] = RowOf(active'[j])
                                     /\ Final(active'[j]) \in RowAccesses
        /\ \A i, j \in DOMAIN active' : BankOf(active'[i]) = BankOf(active'[j]) => i = j
    BY <2>3 DEF RowInv, ActiveExact
  <2>5. ASSUME NEW b \in Banks
        PROVE  activePerBank'[b] = IF ActiveAt(b)' THEN 1 ELSE 0
    <3>1. ActiveAt(b)' <=> \E j \in DOMAIN active' : BankOf(active'[j]) = b
      BY DEF ActiveAt, BankOf
    <3>2. CASE b = c
      <4>1. ActiveAt(b) /\ activePerBank[b] = 1
        BY <2>1, <3>2 DEF RowInv, ActiveExact, ActiveAt
      <4>2. ~ActiveAt(b)'
        BY <2>1, <2>3, <3>1, <3>2 DEF RowInv, ActiveExact
      <4>3. activePerBank'[b] = 0
        BY <2>1, <2>2, <3>2, <4>1
      <4> QED BY <4>2, <4>3
    <3>3. CASE b # c
      <4>1. ActiveAt(b)' <=> ActiveAt(b)
        BY <2>1, <2>3, <3>1, <3>3 DEF ActiveAt
      <4>2. activePerBank'[b] = activePerBank[b]
        BY <2>1, <2>2, <3>3
      <4> QED BY <4>1, <4>2 DEF RowInv, ActiveExact
    <3> QED BY <3>2, <3>3
  <2> QED BY <2>4, <2>5 DEF ActiveExact, BankOf, RowOf, Final
<1> QED BY <1>1, <1>2

LEMMA OpeningStays ==
  ASSUME RowInv, UNCHANGED <<req, open, activating, owner>>
  PROVE  OpeningExact'
BY DEF RowInv, OpeningExact, BankOf, Final

-----------------------------------------------------------------------------
(* The steps of a tick.                                                    *)

RowsSafe == OpeningExact' /\ ActiveExact' /\ ExecutingRowOpen'

LEMMA PerformRows ==
  ASSUME RowInv, UNCHANGED req, NEW n,
         NEW buf \in {"active", "read", "write"}, NEW k \in DOMAIN Buffer(buf), Perform(n, buf, k)
  PROVE  RowsSafe
<1> DEFINE i == Buffer(buf)[k]
<1>1. i \in Ids /\ StepOK /\ CountersOK
  BY RowTypes, BufferTypes
<1>2. /\ IssueCommand(Final(i), BankOf(i), RowOf(i)) /\ Leave(buf, k) /\ ReleaseBank(buf, BankOf(i))
      /\ OpeningGoesOn /\ MacsGoOn
  BY DEF Perform
<1>3. open' = open
  <2>1. Final(i) \in Finals
    BY <1>1, RequestTypes
  <2> QED BY <1>1, <1>2, <2>1, NeutralCommand DEF Finals, Accesses, Modes, StepOK
<1>4. ExecutingRowOpen'
  BY <1>2, <1>3, ExecutingKept
<1> QED BY <1>2, <1>3, <1>4, LeaveActive, OpeningStays DEF RowsSafe, OpeningGoesOn

LEMMA PrepareRows ==
  ASSUME RowInv, UNCHANGED req, NEW n,
         NEW buf \in {"active", "read", "write"}, NEW k \in DOMAIN Buffer(buf), Prepare(n, buf, k),
         Selects(buf, k)
  PROVE  RowsSafe
<1> DEFINE i == Buffer(buf)[k]
           c == Command(i)
           b == BankOf(i)
<1>1. i \in Ids /\ StepOK /\ CountersOK /\ TypeInv
  BY RowTypes, BufferTypes
<1>2. b \in Banks
  BY <1>1, RequestTypes
<1>3. /\ IssueCommand(c, b, RowOf(i)) /\ c \notin {Final(i), "ACT1"}
      /\ MacsGoOn /\ UNCHANGED <<active, activePerBank, activating, owner>>
  BY DEF Prepare, Stay, OpeningGoesOn
<1>4. buf # "active" => Undisturbing(i)
  BY DEF Selects, IsBest, Ready
<1>5. CASE c \in {"PREpb", "ACT2"}
  <2>1. buf # "active"
    <3> SUFFICES ASSUME buf = "active" PROVE FALSE
      OBVIOUS
    <3>1. i = active[k] /\ k \in DOMAIN active
      BY DEF Buffer
    <3>2. open[b] = RowOf(i) /\ Final(i) \in RowAccesses
      BY <3>1 DEF RowInv, ActiveExact
    <3> QED BY <1>1, <1>3, <3>2, CommandOfRow
  <2>2. c = "PREpb" /\ ~WouldCloseActive(c, b) /\ ~ActivationBlocked(c, b)
    BY <1>4, <1>5, <2>1 DEF Undisturbing
  <2>3. Targets(c, b) = {b} /\ IsClosing(c) /\ Disturbs(c)
    BY <2>2 DEF Targets, TargetsAll, IsClosing, Disturbs, Modes
  <2>4. b \notin owner /\ OnBank(InflightNow, b) = {}
    BY <2>2, <2>3 DEF ActivationBlocked
  <2>5. ~ActiveAt(b)
    <3> SUFFICES ASSUME ActiveAt(b) PROVE FALSE
      OBVIOUS
    <3>1. active # <<>> /\ activePerBank[b] = 1
      <4>1. activePerBank[b] = 1
        BY <1>2 DEF RowInv, ActiveExact
      <4>2. DOMAIN active # {}
        BY DEF ActiveAt
      <4> QED BY <4>1, <4>2
    <3> QED BY <2>2, <2>3, <3>1 DEF WouldCloseActive
  <2>6. \A x \in Banks : open'[x] = IF x = b THEN Closed ELSE open[x]
    BY <1>3, <2>3 DEF IssueCommand
  <2> QED BY <1>3, <2>4, <2>5, <2>6, RowsKept DEF RowsSafe
<1>6. CASE c \notin {"PREpb", "ACT2"}
  <2>1. c # "PREab"
    BY <1>1, CommandOfRow
  <2>2. open' = open
    BY <1>1, <1>3, <1>6, <2>1, NeutralCommand DEF StepOK
  <2> QED BY <1>3, <2>2, RowsKept DEF RowsSafe
<1> QED BY <1>5, <1>6

LEMMA ActivateRows ==
  ASSUME RowInv, UNCHANGED req, NEW n,
         NEW buf \in {"active", "read", "write"}, NEW k \in DOMAIN Buffer(buf), Activate(n, buf, k)
  PROVE  RowsSafe
<1> DEFINE i == Buffer(buf)[k]
           b == BankOf(i)
<1>1. i \in Ids /\ StepOK /\ CountersOK /\ TypeInv
  BY RowTypes, BufferTypes
<1>2. b \in Banks /\ RowOf(i) \in Rows
  BY <1>1, RequestTypes
<1>3. /\ Command(i) = "ACT1" /\ IssueCommand("ACT1", b, RowOf(i)) /\ Leave(buf, k)
      /\ UNCHANGED activePerBank /\ activating' = Append(activating, i) /\ owner' = owner \cup {b}
      /\ MacsGoOn
  BY DEF Activate, PimGoesOn
<1>4. open[b] = Closed /\ Final(i) \in RowAccesses
  BY <1>1, <1>3, CommandOfRow
<1>5. open' = [x \in Banks |-> IF x = b THEN Activating ELSE open[x]]
  BY <1>3 DEF IssueCommand, Targets, TargetsAll, IsClosing, Modes
<1>6. b \notin owner /\ ~ActiveAt(b)
  <2>1. b \notin owner
    BY <1>2, <1>4, PIMDeviceAssumption DEF RowInv, OpeningExact
  <2>2. ASSUME NEW j \in DOMAIN active PROVE open[BankOf(active[j])] # Closed
    <3>1. RowOf(active[j]) \in Rows
      BY RowTypes, RequestTypes
    <3> QED BY <3>1, RowsAreNot DEF RowInv, ActiveExact
  <2> QED BY <1>4, <2>1, <2>2 DEF ActiveAt
<1>7. OnBank(InflightNow, b) = {}
  <2> SUFFICES ASSUME NEW f \in InflightNow, BankOf(f.id) = b PROVE FALSE
    BY DEF OnBank
  <2>1. PICK o \in inflight : f = [o EXCEPT !.left = @ - 1]
    BY DEF InflightNow
  <2>2. f.id = o.id
    BY <1>1, <2>1 DEF StepOK, InflightOK, Timers
  <2>3. open[BankOf(o.id)] = RowOf(o.id) /\ RowOf(o.id) \in Rows
    BY RowTypes, RequestTypes DEF RowInv, ExecutingRowOpen
  <2> QED BY <1>4, <2>2, <2>3, RowsAreNot
<1>8. ExecutingRowOpen'
  BY <1>3, <1>5, <1>7, ExecutingKept
<1>9. ActiveExact'
  <2>1. UNCHANGED active
    <3>1. CASE buf = "active"
      BY <1>6, <3>1 DEF ActiveAt, Buffer
    <3> QED BY <1>3, <3>1 DEF Leave
  <2>2. \A x : ActiveAt(x)' <=> ActiveAt(x)
    BY <2>1 DEF ActiveAt, BankOf
  <2>3. ASSUME NEW j \in DOMAIN active PROVE open'[BankOf(active[j])] = open[BankOf(active[j])]
    <3>1. BankOf(active[j]) # b /\ BankOf(active[j]) \in Banks
      BY <1>6, RowTypes, RequestTypes DEF ActiveAt
    <3> QED BY <1>5, <3>1
  <2> QED BY <1>3, <2>1, <2>2, <2>3 DEF RowInv, ActiveExact, BankOf, RowOf, Final
<1>10. OpeningExact'
  <2>1. /\ activating \in Seq(Ids) /\ Len(activating) \in Nat
        /\ DOMAIN activating = 1 .. Len(activating)
        /\ DOMAIN activating' = 1 .. Len(activating) + 1
        /\ \A j \in DOMAIN activating : activating'[j] = activating[j]
        /\ activating'[Len(activating) + 1] = i
    <3>1. activating \in Seq(Ids)
      BY RowTypes
    <3>2. /\ activating' \in Seq(Ids) /\ Len(activating') = Len(activating) + 1
          /\ \A j \in 1 .. Len(activating) : activating'[j] = activating[j]
          /\ activating'[Len(activating) + 1] = i
      BY <1>1, <1>3, <3>1, AppendProperties
    <3> QED BY <3>1, <3>2, LenProperties
  <2>2. \A j \in DOMAIN activating' :
          j \in DOMAIN activating \/ (j = Len(activating) + 1 /\ j \notin DOMAIN activating)
    BY <2>1
  <2>3. \A j \in DOMAIN activating : BankOf(activating[j]) # b
    BY <1>6 DEF RowInv, OpeningExact
  <2>4. \A x \in Banks : open'[x] = Activating <=> x \in owner'
    BY <1>3, <1>5 DEF RowInv, OpeningExact
  <2>5. \A j \in DOMAIN activating' : /\ BankOf(activating'[j]) \in owner'
                                      /\ Final(activating'[j]) \in RowAccesses
    BY <1>3, <1>4, <2>1, <2>2 DEF RowInv, OpeningExact
  <2>6. \A j, m \in DOMAIN activating' : BankOf(activating'[j]) = BankOf(activating'[m]) => j = m
    BY <2>1, <2>2, <2>3 DEF RowInv, OpeningExact
  <2>7. ASSUME NEW x \in owner' PROVE \E j \in DOMAIN activating' : BankOf(activating'[j]) = x
    <3>1. CASE x \in owner
      <4>1. PICK j \in DOMAIN activating : BankOf(activating[j]) = x
        BY <3>1 DEF RowInv, OpeningExact
      <4>2. j \in DOMAIN activating' /\ activating'[j] = activating[j]
        BY <2>1
      <4> QED BY <4>1, <4>2
    <3>2. CASE x = b
      BY <2>1, <3>2
    <3> QED BY <1>3, <3>1, <3>2
  <2> QED BY <2>4, <2>5, <2>6, <2>7 DEF OpeningExact, BankOf, Final
<1> QED BY <1>8, <1>9, <1>10 DEF RowsSafe

LEMMA LaunchRows ==
  ASSUME RowInv, UNCHANGED req, NEW n,
         NEW buf \in {"active", "read", "write"}, NEW k \in DOMAIN Buffer(buf), Launch(n, buf, k)
  PROVE  RowsSafe
<1> DEFINE i == Buffer(buf)[k]
           b == BankOf(i)
           new == [id |-> i, left |-> PimLatency]
<1>1. i \in Ids /\ StepOK /\ CountersOK
  BY RowTypes, BufferTypes
<1>2. /\ Command(i) = "PIM_MAC" /\ Final(i) = "PIM_MAC" /\ IssueCommand("PIM_MAC", b, RowOf(i))
      /\ Leave(buf, k) /\ ReleaseBank(buf, b) /\ inflight' = InflightNow \cup {new}
      /\ OpeningGoesOn
  BY DEF Launch
<1>3. open' = open
  BY <1>1, <1>2, NeutralCommand DEF StepOK
<1>4. open[b] = RowOf(i)
  BY <1>1, <1>2, CommandOfRow DEF RowAccesses
<1>5. ExecutingRowOpen'
  <2> SUFFICES ASSUME NEW f \in inflight' PROVE open[BankOf(f.id)] = RowOf(f.id)
    BY <1>3 DEF ExecutingRowOpen, BankOf, RowOf
  <2>1. CASE f = new
    BY <1>4, <2>1
  <2>2. CASE f \in InflightNow
    <3>1. PICK o \in inflight : f = [o EXCEPT !.left = @ - 1]
      BY <2>2 DEF InflightNow
    <3>2. f.id = o.id
      BY <1>1, <3>1 DEF StepOK, InflightOK, Timers
    <3> QED BY <3>2 DEF RowInv, ExecutingRowOpen
  <2> QED BY <1>2, <2>1, <2>2
<1> QED BY <1>2, <1>3, <1>5, LeaveActive, OpeningStays DEF RowsSafe, OpeningGoesOn

LEMMA LaunchAllBankRows ==
  ASSUME RowInv, UNCHANGED req, NEW n,
         NEW buf \in {"active", "read", "write"}, NEW k \in DOMAIN Buffer(buf),
         LaunchAllBank(n, buf, k)
  PROVE  RowsSafe
<1> DEFINE i == Buffer(buf)[k]
<1>1. i \in Ids /\ StepOK /\ CountersOK
  BY RowTypes, BufferTypes
<1>2. /\ Final(i) = "PIM_MAC_AB" /\ IssueCommand("PIM_MAC_AB", BankOf(i), RowOf(i))
      /\ Leave(buf, k) /\ UNCHANGED activePerBank /\ OpeningGoesOn /\ MacsGoOn
  BY DEF LaunchAllBank
<1>3. open' = open
  BY <1>1, <1>2, NeutralCommand DEF StepOK
<1>4. UNCHANGED active
  <2>1. buf # "active"
    <3> SUFFICES ASSUME buf = "active" PROVE FALSE
      OBVIOUS
    <3>1. i = active[k] /\ k \in DOMAIN active
      BY DEF Buffer
    <3>2. Final(i) \in RowAccesses
      BY <3>1 DEF RowInv, ActiveExact
    <3> QED BY <1>2, <3>2 DEF RowAccesses
  <2> QED BY <1>2, <2>1 DEF Leave
<1> QED BY <1>2, <1>3, <1>4, RowsKept DEF RowsSafe, OpeningGoesOn

(* A bank whose row is being opened has neither active requests nor work.  *)
LEMMA OwnedIdle ==
  ASSUME RowInv, NEW b \in owner
  PROVE  /\ b \in Banks /\ ~ActiveAt(b) /\ OnBank(InflightNow, b) = {}
         /\ Len(active) < NBanks
<1>1. StepOK /\ CountersOK /\ b \in Banks
  BY RowTypes DEF StepOK, OpeningOK
<1>2. open[b] = Activating
  BY <1>1 DEF RowInv, OpeningExact
<1>3. \A j \in DOMAIN active : BankOf(active[j]) \in Banks \ {b}
  <2> SUFFICES ASSUME NEW j \in DOMAIN active PROVE BankOf(active[j]) \in Banks \ {b}
    OBVIOUS
  <2>1. RowOf(active[j]) \in Rows /\ BankOf(active[j]) \in Banks
    BY RowTypes, RequestTypes
  <2>2. open[BankOf(active[j])] = RowOf(active[j])
    BY DEF RowInv, ActiveExact
  <2> QED BY <1>2, <2>1, <2>2, RowsAreNot
<1>4. OnBank(InflightNow, b) = {}
  <2> SUFFICES ASSUME NEW f \in InflightNow, BankOf(f.id) = b PROVE FALSE
    BY DEF OnBank
  <2>1. PICK o \in inflight : f = [o EXCEPT !.left = @ - 1]
    BY DEF InflightNow
  <2>2. f.id = o.id
    BY <1>1, <2>1 DEF StepOK, InflightOK, Timers
  <2>3. open[BankOf(o.id)] = RowOf(o.id) /\ RowOf(o.id) \in Rows
    BY RowTypes, RequestTypes DEF RowInv, ExecutingRowOpen
  <2> QED BY <1>2, <2>2, <2>3, RowsAreNot
<1>5. Len(active) < NBanks
  <2> DEFINE bank == [j \in 1 .. Len(active) |-> BankOf(active[j])]
  <2>1. Len(active) \in Nat /\ DOMAIN active = 1 .. Len(active)
    BY RowTypes, ListTypes
  <2>2. IsFiniteSet(1 .. Len(active)) /\ Cardinality(1 .. Len(active)) = Len(active)
    <3>1. ASSUME NEW m \in Nat PROVE IsFiniteSet(1 .. m) /\ Cardinality(1 .. m) = m
      <4>1. 1 \in Int /\ m \in Int
        OBVIOUS
      <4>2. IsFiniteSet(1 .. m) /\ Cardinality(1 .. m) = IF 1 > m THEN 0 ELSE m - 1 + 1
        BY ONLY <4>1, FS_Interval
      <4> QED BY <4>2
    <3> QED BY <2>1, <3>1
  <2>3. IsFiniteSet(Banks \ {b}) /\ Cardinality(Banks \ {b}) = NBanks - 1
    <3>1. IsFiniteSet(Banks) /\ Cardinality(Banks) = NBanks
      BY ConstantTypes, FS_Interval DEF Banks
    <3> QED BY <1>1, <3>1, FS_RemoveElement
  <2>4. bank \in [1 .. Len(active) -> Banks \ {b}]
    BY <1>3, <2>1
  <2>5. \A x, y \in 1 .. Len(active) : bank[x] = bank[y] => x = y
    BY <2>1 DEF RowInv, ActiveExact
  <2> HIDE DEF bank
  <2>6. ~(Cardinality(Banks \ {b}) < Cardinality(1 .. Len(active)))
    BY <2>2, <2>3, <2>4, <2>5, FS_PigeonHole
  <2> QED BY <2>1, <2>2, <2>3, <2>6, ConstantTypes
<1> QED BY <1>1, <1>3, <1>4, <1>5 DEF ActiveAt

LEMMA OpenRowRows ==
  ASSUME RowInv, UNCHANGED req, NEW n, NEW k \in DOMAIN activating, OpenRow(n, k)
  PROVE  RowsSafe
<1> DEFINE i == activating[k]
           b == BankOf(i)
<1>1. /\ TypeInv /\ StepOK /\ i \in Ids /\ active \in Seq(Ids) /\ activating \in Seq(Ids)
      /\ open \in [Banks -> Rows \cup {Closed, Activating}] /\ activePerBank \in [Banks -> Int]
  BY RowTypes
<1>2. b \in owner /\ Final(i) \in RowAccesses
  BY DEF RowInv, OpeningExact
<1>3. b \in Banks /\ ~ActiveAt(b) /\ OnBank(InflightNow, b) = {} /\ Len(active) < NBanks
  BY <1>2, OwnedIdle
<1>4. RowOf(i) \in Rows /\ RowOf(i) # Activating
  BY <1>1, RowTypes, RequestTypes, RowsAreNot
<1>5. /\ IssueCommand("ACT2", b, RowOf(i)) /\ owner' = owner \ {b} /\ MacsGoOn
      /\ active' = Append(active, i) /\ activating' = RemoveAt(activating, k)
      /\ activePerBank' = [activePerBank EXCEPT ![b] = @ + 1]
  BY <1>3 DEF OpenRow, PimGoesOn
<1>6. \A x \in Banks : open'[x] = IF x = b THEN RowOf(i) ELSE open[x]
  BY <1>5 DEF IssueCommand, Targets, TargetsAll, IsClosing, Modes
<1> HIDE DEF b
<1>7. ExecutingRowOpen'
  BY <1>3, <1>5, <1>6, ExecutingKept
<1>8. OpeningExact'
  <2>1. /\ \A j \in DOMAIN activating' : \E m \in DOMAIN activating :
               m # k /\ activating'[j] = activating[m]
        /\ \A m \in DOMAIN activating \ {k} : \E j \in DOMAIN activating' :
               activating'[j] = activating[m]
        /\ \A j, l \in DOMAIN activating' : j # l =>
             \E m, p \in DOMAIN activating : /\ m # p /\ activating'[j] = activating[m]
                                             /\ activating'[l] = activating[p]
    BY <1>1, <1>5, RemoveAtElements
  <2>2. \A m \in DOMAIN activating : BankOf(activating[m]) = b => m = k
    BY DEF RowInv, OpeningExact, b
  <2>3. \A x \in Banks : open'[x] = Activating <=> x \in owner'
    BY <1>4, <1>5, <1>6 DEF RowInv, OpeningExact
  <2>4. \A j \in DOMAIN activating' : /\ BankOf(activating'[j]) \in owner'
                                      /\ Final(activating'[j]) \in RowAccesses
    BY <1>5, <2>1, <2>2 DEF RowInv, OpeningExact
  <2>5. \A j, l \in DOMAIN activating' : BankOf(activating'[j]) = BankOf(activating'[l]) => j = l
    BY <2>1 DEF RowInv, OpeningExact
  <2>6. ASSUME NEW x \in owner' PROVE \E j \in DOMAIN activating' : BankOf(activating'[j]) = x
    <3>1. x \in owner /\ x # b
      BY <1>5
    <3>2. PICK m \in DOMAIN activating : BankOf(activating[m]) = x
      BY <3>1 DEF RowInv, OpeningExact
    <3>3. m # k
      BY <3>1, <3>2 DEF b
    <3> QED BY <2>1, <3>2, <3>3
  <2> QED BY <2>3, <2>4, <2>5, <2>6 DEF OpeningExact, BankOf, Final
<1>9. ActiveExact'
  <2>1. /\ Len(active) \in Nat /\ DOMAIN active = 1 .. Len(active)
        /\ DOMAIN active' = 1 .. Len(active) + 1
        /\ \A j \in DOMAIN active : active'[j] = active[j]
        /\ active'[Len(active) + 1] = i
    <3>1. /\ active' \in Seq(Ids) /\ Len(active') = Len(active) + 1
          /\ \A j \in 1 .. Len(active) : active'[j] = active[j]
          /\ active'[Len(active) + 1] = i
      BY <1>1, <1>5, AppendProperties
    <3> QED BY <1>1, <3>1, LenProperties
  <2>2. /\ Len(active) + 1 \in DOMAIN active'
        /\ \A j \in DOMAIN active' :
             j \in DOMAIN active \/ (j = Len(active) + 1 /\ j \notin DOMAIN active)
    BY <2>1
  <2>3. \A j \in DOMAIN active : BankOf(active[j]) # b /\ BankOf(active[j]) \in Banks
    BY <1>3, RowTypes, RequestTypes DEF ActiveAt
  <2>4. BankOf(i) = b
    BY DEF b
  <2>5. \A j \in DOMAIN active' : /\ open'[BankOf(active'[j])] = RowOf(active'[j])
                                  /\ Final(active'[j]) \in RowAccesses
    <3>1. \A j \in DOMAIN active : /\ open'[BankOf(active[j])] = RowOf(active[j])
                                   /\ Final(active[j]) \in RowAccesses
      BY <1>6, <2>3 DEF RowInv, ActiveExact
    <3>2. open'[BankOf(i)] = RowOf(i) /\ Final(i) \in RowAccesses
      BY <1>2, <1>3, <1>6, <2>4
    <3> QED BY <2>1, <2>2, <3>1, <3>2
  <2>6. \A j, m \in DOMAIN active' : BankOf(active'[j]) = BankOf(active'[m]) => j = m
    BY <2>1, <2>2, <2>3, <2>4 DEF RowInv, ActiveExact
  <2>7. ASSUME NEW x \in Banks PROVE activePerBank'[x] = IF ActiveAt(x)' THEN 1 ELSE 0
    <3>1. ActiveAt(x)' <=> \E j \in DOMAIN active' : BankOf(active'[j]) = x
      BY DEF ActiveAt, BankOf
    <3>2. ActiveAt(x)' <=> ActiveAt(x) \/ x = b
      BY <2>1, <2>2, <2>4, <3>1 DEF ActiveAt
    <3>3. CASE x = b
      <4>1. activePerBank[b] = 0
        BY <1>3 DEF RowInv, ActiveExact
      <4>2. activePerBank'[b] = 1
        BY <1>1, <1>3, <1>5, <4>1
      <4> QED BY <3>2, <3>3, <4>2
    <3>4. CASE x # b
      <4>1. activePerBank'[x] = activePerBank[x]
        BY <1>1, <1>5, <3>4
      <4> QED BY <3>2, <3>4, <4>1 DEF RowInv, ActiveExact
    <3> QED BY <3>3, <3>4
  <2> QED BY <2>5, <2>6, <2>7 DEF ActiveExact, BankOf, RowOf, Final
<1> QED BY <1>7, <1>8, <1>9 DEF RowsSafe

(* Steps that issue nothing that changes a row.                            *)
LEMMA QuietRows ==
  ASSUME RowInv, UNCHANGED req, NEW n,
         \/ Wait(n)
         \/ \E buf \in {"active", "read", "write"} : \E k \in DOMAIN Buffer(buf) :
              Synchronise(n, buf, k)
  PROVE  RowsSafe
<1>1. UNCHANGED <<activePerBank, active, activating, owner>> /\ MacsGoOn
  BY DEF Wait, Synchronise, Stay, OpeningGoesOn, PimGoesOn
<1>2. open' = open
  <2>1. CASE Wait(n)
    BY <2>1 DEF Wait, IssueNothing
  <2>2. CASE \E buf \in {"active", "read", "write"} : \E k \in DOMAIN Buffer(buf) :
               Synchronise(n, buf, k)
    <3>1. \E c \in {"CAS_RD", "CAS_WR"} : \E b, r : IssueCommand(c, b, r)
      BY <2>2 DEF Synchronise
    <3> QED BY <3>1, NeutralCommand, RowTypes DEF StepOK
  <2> QED BY <2>1, <2>2
<1> QED BY <1>1, <1>2, RowsKept DEF RowsSafe

(* A refresh finds its rank without active requests, without banks that    *)
(* are being activated and without work.                                   *)
LEMMA MaintenanceRows ==
  ASSUME RowInv, UNCHANGED req, NEW n, TickMaintenance(n)
  PROVE  RowsSafe
<1> DEFINE c == RefreshCommand
           b == RefreshBank
<1>1. /\ IssueCommand(c, b, Closed) /\ MaintenanceReady
      /\ UNCHANGED <<activePerBank, active, activating, owner>> /\ MacsGoOn
  BY DEF TickMaintenance, SelectsMaintenance, Stay, OpeningGoesOn, PimGoesOn
<1>2. CASE c = "REFab"
  <2>1. open' = open
    BY <1>1, <1>2, NeutralCommand, RowTypes DEF StepOK
  <2> QED BY <1>1, <2>1, RowsKept DEF RowsSafe
<1>3. CASE c = "PREab"
  <2>1. IsClosing(c) /\ Disturbs(c) /\ ~WouldCloseActive(c, b) /\ ~ActivationBlocked(c, b)
    BY <1>1, <1>3 DEF MaintenanceReady, IsClosing, Disturbs
  <2>2. \A x \in Targets(c, b) : x \notin owner /\ OnBank(InflightNow, x) = {}
    BY <2>1 DEF ActivationBlocked
  <2>3. ASSUME NEW x \in Targets(c, b), x \in Banks PROVE ~ActiveAt(x)
    <3> SUFFICES ASSUME ActiveAt(x) PROVE FALSE
      OBVIOUS
    <3>1. activePerBank[x] = 1
      BY <2>3 DEF RowInv, ActiveExact
    <3>2. active # <<>>
      <4>1. DOMAIN active # {}
        BY DEF ActiveAt
      <4> QED BY <4>1
    <3> QED BY <2>1, <2>3, <3>1, <3>2 DEF WouldCloseActive
  <2>4. \A x \in Banks : open'[x] = IF x \in Targets(c, b) THEN Closed ELSE open[x]
    BY <1>1, <2>1 DEF IssueCommand
  <2> QED BY <1>1, <2>2, <2>3, <2>4, RowsKept DEF RowsSafe
<1> QED BY <1>2, <1>3 DEF RefreshCommand, PreqCommand, Modes

LEMMA TickRows ==
  ASSUME RowInv, Tick
  PROVE  RowsSafe
<1>1. UNCHANGED req
  BY TickSafe DEF RowInv, InflightInv
<1>2. PICK n \in 0 .. Len(pending) :
        \/ TickSynchronised(n) \/ TickUrgent(n) \/ TickMaintenance(n) \/ TickSelected(n)
        \/ TickDeferred(n) \/ TickThrow(n)
  BY DEF Tick
<1>3. CASE TickSynchronised(n)
  <2>1. \/ Wait(n)
        \/ \E buf \in {"active", "read", "write"} : \E k \in DOMAIN Buffer(buf) : Perform(n, buf, k)
    BY <1>3 DEF TickSynchronised
  <2> QED BY <1>1, <2>1, QuietRows, PerformRows
<1>4. CASE TickUrgent(n)
  <2>1. \E k \in DOMAIN activating : OpenRow(n, k)
    BY <1>4 DEF TickUrgent
  <2> QED BY <1>1, <2>1, OpenRowRows
<1>5. CASE TickMaintenance(n)
  BY <1>1, <1>5, MaintenanceRows
<1>6. CASE TickSelected(n)
  <2>1. PICK buf \in {"active", "read", "write"} : \E k \in DOMAIN Buffer(buf) :
          /\ Selects(buf, k)
          /\ \/ \E j \in DOMAIN activating : OpenRow(n, j)
             \/ Synchronise(n, buf, k) \/ Perform(n, buf, k) \/ Prepare(n, buf, k)
             \/ Activate(n, buf, k) \/ Launch(n, buf, k) \/ LaunchAllBank(n, buf, k)
    BY <1>6 DEF TickSelected
  <2> QED BY <1>1, <2>1, OpenRowRows, QuietRows, PerformRows, PrepareRows, ActivateRows, LaunchRows,
             LaunchAllBankRows
<1>7. CASE TickDeferred(n)
  <2>1. Wait(n) \/ \E k \in DOMAIN activating : OpenRow(n, k)
    BY <1>7 DEF TickDeferred
  <2> QED BY <1>1, <2>1, QuietRows, OpenRowRows
<1>8. CASE TickThrow(n)
  <2>1. Wait(n)
    BY <1>8 DEF TickThrow
  <2> QED BY <1>1, <2>1, QuietRows
<1> QED BY <1>2, <1>3, <1>4, <1>5, <1>6, <1>7, <1>8

-----------------------------------------------------------------------------
(* The invariant and what follows from it.                                 *)

LEMMA SendRows ==
  ASSUME RowInv, Send
  PROVE  RowsSafe
<1>1. UNCHANGED <<open, active, activePerBank, activating, owner>>
  <2>1. \E a \in Addrs : \E final : Accept(final, a)
    BY DEF Send, SendForwardedRead, SendCoalescedWrite, SendWrite, SendQueued
  <2> QED BY <2>1 DEF Accept, deviceVars, openingVars
<1>2. UNCHANGED inflight /\ \A i \in 1 .. sent : req'[i] = req[i]
  BY SendSafe DEF RowInv, InflightInv
<1>3. /\ \A k \in DOMAIN active : active[k] \in 1 .. sent
      /\ \A k \in DOMAIN activating : activating[k] \in 1 .. sent
      /\ \A f \in inflight : f.id \in 1 .. sent
  BY RowTypes, KnownLists DEF KnownIds, KnownBuffers, KnownInflight
<1>4. /\ \A k \in DOMAIN active : req'[active[k]] = req[active[k]]
      /\ \A k \in DOMAIN activating : req'[activating[k]] = req[activating[k]]
      /\ \A f \in inflight : req'[f.id] = req[f.id]
  BY <1>2, <1>3
<1>5. OpeningExact'
  BY <1>1, <1>4 DEF RowInv, OpeningExact, BankOf, Final
<1>6. ActiveExact'
  <2>1. \A b : ActiveAt(b)' <=> ActiveAt(b)
    BY <1>1, <1>4 DEF ActiveAt, BankOf
  <2> QED BY <1>1, <1>4, <2>1 DEF RowInv, ActiveExact, BankOf, RowOf, Final
<1>7. ExecutingRowOpen'
  BY <1>1, <1>2, <1>4 DEF RowInv, ExecutingRowOpen, BankOf, RowOf
<1> QED BY <1>5, <1>6, <1>7 DEF RowsSafe

LEMMA RowInductive == RowInv /\ [Next]_vars => RowInv'
<1> SUFFICES ASSUME RowInv, [Next]_vars PROVE RowInv'
  OBVIOUS
<1>1. InflightInv'
  BY InflightInductive DEF RowInv
<1>2. CASE Tick
  BY <1>1, <1>2, TickRows DEF RowInv, RowsSafe
<1>3. CASE Send
  BY <1>1, <1>3, SendRows DEF RowInv, RowsSafe
<1>4. CASE UNCHANGED vars
  <2>1. UNCHANGED <<req, open, active, activePerBank, activating, owner, inflight>>
    BY <1>4 DEF vars, deviceVars, openingVars, pimVars
  <2>2. \A b : ActiveAt(b)' <=> ActiveAt(b)
    BY <2>1 DEF ActiveAt, BankOf
  <2> QED BY <1>1, <2>1, <2>2
          DEF RowInv, OpeningExact, ActiveExact, ExecutingRowOpen, BankOf, RowOf, Final
<1> QED BY <1>2, <1>3, <1>4 DEF Next

LEMMA RowInitially == Init => RowInv
<1> SUFFICES ASSUME Init PROVE RowInv
  OBVIOUS
<1>1. /\ open = [b \in Banks |-> Closed] /\ activePerBank = [b \in Banks |-> 0]
      /\ active = <<>> /\ activating = <<>> /\ owner = {} /\ inflight = {}
  BY DEF Init, PIMDeviceInit
<1>2. OpeningExact
  BY <1>1, PIMDeviceAssumption DEF OpeningExact
<1>3. ActiveExact
  BY <1>1 DEF ActiveExact, ActiveAt
<1> QED BY <1>1, <1>2, <1>3, InflightInitially DEF RowInv, ExecutingRowOpen

LEMMA RowInvariant == Spec => []RowInv
<1> QED BY RowInitially, RowInductive, PTL DEF Spec

(* A bank is between ACT1 and ACT2 exactly while one request of the        *)
(* activating buffer owns it (move_to_activating, issue_owned_act2), and   *)
(* the row of a request that waits in the active buffer stays open: no     *)
(* precharge, refresh or launch of other work takes it away.               *)
THEOREM ActivationOwned == Spec => []ActivationExact
<1>1. ASSUME RowInv PROVE ActivationExact
  <2>1. ASSUME NEW b \in Banks
        PROVE  Cardinality({k \in DOMAIN activating : BankOf(activating[k]) = b})
                 = IF b \in owner THEN 1 ELSE 0
    <3> DEFINE S == {k \in DOMAIN activating : BankOf(activating[k]) = b}
    <3>1. \A x, y \in S : x = y
      BY <1>1 DEF RowInv, OpeningExact
    <3>2. S # {} <=> b \in owner
      BY <1>1 DEF RowInv, OpeningExact
    <3> HIDE DEF S
    <3>3. Cardinality(S) = IF b \in owner THEN 1 ELSE 0
      BY <3>1, <3>2, CountOne
    <3> QED BY <3>3 DEF S
  <2> QED BY <1>1, <2>1 DEF RowInv, OpeningExact, ActiveExact, ActivationExact
<1> QED BY <1>1, RowInvariant, PTL

(* m_active_per_bank, which keeps the rows of active requests from being   *)
(* closed, is their number at every bank.                                  *)
THEOREM ActiveCounted == Spec => []ActiveCountExact
<1>1. ASSUME RowInv PROVE ActiveCountExact
  <2> SUFFICES ASSUME NEW b \in Banks
               PROVE  activePerBank[b] = Cardinality({k \in DOMAIN active : BankOf(active[k]) = b})
    BY DEF ActiveCountExact
  <2> DEFINE S == {k \in DOMAIN active : BankOf(active[k]) = b}
  <2>1. \A x, y \in S : x = y
    BY <1>1 DEF RowInv, ActiveExact
  <2>2. S # {} <=> ActiveAt(b)
    BY DEF ActiveAt
  <2> HIDE DEF S
  <2>3. Cardinality(S) = IF ActiveAt(b) THEN 1 ELSE 0
    BY <2>1, <2>2, CountOne
  <2> QED BY <1>1, <2>3 DEF S, RowInv, ActiveExact
<1> QED BY <1>1, RowInvariant, PTL

(* While a PIM_MAC executes its bank keeps the row it was launched on,     *)
(* whatever is precharged, refreshed or activated meanwhile                *)
(* (would_block_activating).                                               *)
THEOREM ExecutionKeepsRow == Spec => []ExecutingRowOpen
<1>1. RowInv => ExecutingRowOpen
  BY DEF RowInv
<1> QED BY <1>1, RowInvariant, PTL

-----------------------------------------------------------------------------
(* The deadlines of the ACT2s. One ACT1 issues in a cycle, so no two       *)
(* deadlines are the same, and of those that are due one is served.        *)

(* The cycles a synchronised access still has to wait for.                 *)
SyncWait == wait[BankOf(casReq)][Final(casReq)]

DeadlinesSpaced ==
  /\ \A b \in owner : deadline[b] >= 1 /\ deadline[b] <= nAAD
  /\ \A a, b \in owner : deadline[a] = deadline[b] => a = b
  /\ casReq # 0 => \A b \in owner : deadline[b] >= 2 /\ deadline[b] > SyncWait

DeadlineInv == RowInv /\ (failed \/ DeadlinesSpaced)

LEMMA DeadlinesNow ==
  ASSUME RowInv, DeadlinesSpaced
  PROVE  /\ owner \subseteq Banks /\ DeadlineNow \in [Banks -> Int]
         /\ \A b \in owner : /\ DeadlineNow[b] = deadline[b] - 1
                              /\ DeadlineNow[b] >= 0 /\ DeadlineNow[b] < nAAD
         /\ \A a, b \in owner : DeadlineNow[a] = DeadlineNow[b] => a = b
         /\ ~Urgent => \A b \in owner : DeadlineNow[b] >= 1
<1>1. owner \subseteq Banks /\ deadline \in [Banks -> Int] /\ nAAD \in Nat
  BY RowTypes, ConstantTypes DEF StepOK, OpeningOK
<1>2. DeadlineNow \in [Banks -> Int] /\ \A b \in owner : DeadlineNow[b] = deadline[b] - 1
  BY <1>1 DEF DeadlineNow
<1>3. \A b \in owner : DeadlineNow[b] >= 0 /\ DeadlineNow[b] < nAAD
  BY <1>1, <1>2 DEF DeadlinesSpaced
<1>4. \A a, b \in owner : DeadlineNow[a] = DeadlineNow[b] => a = b
  <2> SUFFICES ASSUME NEW a \in owner, NEW b \in owner, DeadlineNow[a] = DeadlineNow[b]
               PROVE  a = b
    OBVIOUS
  <2>1. deadline[a] \in Int /\ deadline[b] \in Int
    BY <1>1
  <2>2. deadline[a] - 1 = deadline[b] - 1
    BY <1>2
  <2> QED BY <2>1, <2>2 DEF DeadlinesSpaced
<1>5. ASSUME ~Urgent, NEW b \in owner PROVE DeadlineNow[b] >= 1
  <2>1. PICK k \in DOMAIN activating : BankOf(activating[k]) = b
    BY DEF RowInv, OpeningExact
  <2>2. ~(DeadlineNow[b] <= 0) /\ DeadlineNow[b] \in Int
    BY <1>1, <1>2, <1>5, <2>1 DEF Urgent
  <2> QED BY <2>2
<1> QED BY <1>1, <1>2, <1>3, <1>4, <1>5

(* A cycle in which no deadline comes passes all of them.                  *)
LEMMA SpacedGoOn ==
  ASSUME RowInv, DeadlinesSpaced, ~Urgent, OpeningGoesOn, casReq' = 0
  PROVE  DeadlinesSpaced'
<1>1. owner' = owner /\ \A b \in owner : deadline'[b] = DeadlineNow[b]
  BY DEF OpeningGoesOn
<1>2. nAAD \in Nat /\ \A b \in owner : DeadlineNow[b] \in Int
  BY DeadlinesNow, ConstantTypes
<1>3. \A b \in owner : deadline'[b] >= 1 /\ deadline'[b] <= nAAD
  BY <1>1, <1>2, DeadlinesNow
<1>4. \A a, b \in owner : deadline'[a] = deadline'[b] => a = b
  BY <1>1, DeadlinesNow
<1> QED BY <1>1, <1>3, <1>4 DEF DeadlinesSpaced

LEMMA SpacedActivate ==
  ASSUME RowInv, DeadlinesSpaced, ~Urgent, casReq' = 0, NEW n,
         NEW buf \in {"active", "read", "write"}, NEW k \in DOMAIN Buffer(buf), Activate(n, buf, k)
  PROVE  DeadlinesSpaced'
<1> DEFINE b == BankOf(Buffer(buf)[k])
<1>1. b \in Banks
  BY RowTypes, BufferTypes, RequestTypes
<1>2. owner' = owner \cup {b} /\ deadline' = [DeadlineNow EXCEPT ![b] = nAAD]
  BY DEF Activate
<1> HIDE DEF b
<1>3. nAAD \in Nat \ {0} /\ deadline'[b] = nAAD /\ \A x \in owner \ {b} : deadline'[x] = DeadlineNow[x]
  BY <1>1, <1>2, DeadlinesNow, ConstantTypes
<1>4. \A x \in owner \ {b} : /\ deadline'[x] \in Int /\ deadline'[x] >= 1
                              /\ deadline'[x] < nAAD
  BY <1>3, DeadlinesNow
<1>5. \A x \in owner' : deadline'[x] >= 1 /\ deadline'[x] <= nAAD
  BY <1>2, <1>3, <1>4
<1>6. \A a, x \in owner' : deadline'[a] = deadline'[x] => a = x
  BY <1>2, <1>3, <1>4, DeadlinesNow
<1> QED BY <1>5, <1>6 DEF DeadlinesSpaced

(* The ACT2 that is issued is the one that is due first.                   *)
LEMMA SpacedOpenRow ==
  ASSUME RowInv, DeadlinesSpaced, casReq' = 0, NEW n, NEW k, FirstDue(k), OpenRow(n, k)
  PROVE  DeadlinesSpaced'
<1> DEFINE b == BankOf(activating[k])
<1>1. k \in DOMAIN activating /\ b \in owner /\ b \in Banks
  BY DeadlinesNow DEF FirstDue, RowInv, OpeningExact
<1>2. owner' = owner \ {b} /\ deadline' = [DeadlineNow EXCEPT ![b] = 0]
  BY DEF OpenRow
<1>3. ASSUME NEW x \in owner \ {b} PROVE DeadlineNow[x] >= 1
  <2>1. PICK j \in DOMAIN activating : BankOf(activating[j]) = x
    BY DEF RowInv, OpeningExact
  <2>2. DeadlineNow[b] < DeadlineNow[x] \/ DeadlineNow[b] = DeadlineNow[x]
    BY <2>1 DEF FirstDue
  <2>3. DeadlineNow[b] # DeadlineNow[x]
    BY <1>1, DeadlinesNow
  <2>4. DeadlineNow[b] \in Int /\ DeadlineNow[x] \in Int /\ DeadlineNow[b] >= 0
    BY <1>1, DeadlinesNow
  <2> QED BY <2>2, <2>3, <2>4
<1> HIDE DEF b
<1>4. \A x \in owner' : x # b /\ x \in owner /\ deadline'[x] = DeadlineNow[x]
  BY <1>2, DeadlinesNow
<1>5. nAAD \in Nat /\ \A x \in owner : DeadlineNow[x] \in Int
  BY DeadlinesNow, ConstantTypes
<1>6. \A x \in owner' : deadline'[x] >= 1 /\ deadline'[x] <= nAAD
  BY <1>3, <1>4, <1>5, DeadlinesNow
<1>7. \A a, x \in owner' : deadline'[a] = deadline'[x] => a = x
  BY <1>4, DeadlinesNow
<1> QED BY <1>6, <1>7 DEF DeadlinesSpaced

(* A CAS is issued only if its access can follow before the next deadline. *)
LEMMA SpacedSynchronise ==
  ASSUME RowInv, DeadlinesSpaced, ~CasWouldBlockDeadline, UNCHANGED req, NEW n,
         NEW buf \in {"active", "read", "write"}, NEW k \in DOMAIN Buffer(buf),
         Selects(buf, k), NeedsSync(Buffer(buf)[k]), Synchronise(n, buf, k)
  PROVE  DeadlinesSpaced'
<1> DEFINE i == Buffer(buf)[k]
           b == BankOf(i)
           f == Final(i)
           c == IF f = "RD" THEN "CAS_RD" ELSE "CAS_WR"
<1>1. i \in Ids /\ StepOK /\ CountersOK /\ b \in Banks
  BY RowTypes, BufferTypes, RequestTypes
<1>2. Command(i) = f /\ f \in Accesses
  BY <1>1, CommandCases DEF NeedsSync
<1>3. Elapsed[b][f] = 0
  <2>1. CheckTiming(Elapsed, f, b)
    BY <1>2 DEF Selects, IsBest, Ready
  <2>2. f \in Timed /\ Targets(f, b) = {b}
    BY <1>2 DEF Accesses, Timed, Targets, TargetsAll, Modes
  <2> QED BY <2>1, <2>2 DEF CheckTiming
<1>4. Delay(c, b, f, b) \in Nat /\ Delay(c, b, f, b) <= CasGuard
  <2>1. <<c, f>> \in {<<"CAS_RD", "RD">>, <<"CAS_WR", "WR">>}
    BY <1>2 DEF Accesses
  <2>2. RankLat[<<c, f>>] <= CasGuard /\ BankLat[<<c, f>>] <= CasGuard
    BY <2>1, CasGuardAssumption
  <2>3. RankLat[<<c, f>>] \in Nat /\ BankLat[<<c, f>>] \in Nat
    <3>1. <<c, f>> \in Cmd \X Cmd
      BY <2>1 DEF Cmd
    <3> QED BY <3>1, PIMDeviceAssumption
  <2>4. b \in Targets(c, b)
    BY DEF Targets, TargetsAll, Modes
  <2> HIDE DEF c, f, b
  <2> QED BY <2>2, <2>3, <2>4 DEF Delay, Larger
<1>5. /\ IssueCommand(c, b, RowOf(i)) /\ casReq' = i /\ OpeningGoesOn
  BY DEF Synchronise
<1>6. SyncWait' <= CasGuard /\ SyncWait' \in Nat
  <2>1. SyncWait' = wait'[b][f]
    BY <1>5 DEF SyncWait, BankOf, Final
  <2>2. f \in Timed
    BY <1>2 DEF Accesses, Timed
  <2> HIDE DEF c, f, b
  <2>3. wait'[b][f] = Larger(Elapsed[b][f], Delay(c, b, f, b))
    BY <1>1, <1>5, <2>2 DEF IssueCommand
  <2> QED BY <1>3, <1>4, <2>1, <2>3 DEF Larger
<1>7. owner' = owner /\ deadline' = DeadlineNow
  BY <1>5 DEF OpeningGoesOn
<1>8. CasGuard \in Nat /\ CasGuard >= 2 /\ nAAD \in Nat
  BY PIMControllerAssumption
<1>9. \A x \in owner : DeadlineNow[x] \in Int /\ DeadlineNow[x] > CasGuard
  <2>1. \A x \in owner : DeadlineNow[x] \in Int /\ ~(DeadlineNow[x] <= CasGuard)
    BY DeadlinesNow DEF CasWouldBlockDeadline
  <2> QED BY <1>8, <2>1
<1>10. \A x \in owner : deadline'[x] >= 2 /\ deadline'[x] > SyncWait' /\ deadline'[x] <= nAAD
  BY <1>6, <1>7, <1>8, <1>9, DeadlinesNow
<1>11. \A x \in owner : deadline'[x] >= 1
  BY <1>7, <1>8, <1>9
<1>12. \A a, x \in owner : deadline'[a] = deadline'[x] => a = x
  BY <1>7, DeadlinesNow
<1> QED BY <1>7, <1>10, <1>11, <1>12 DEF DeadlinesSpaced

LEMMA SpacedSynchronised ==
  ASSUME RowInv, DeadlinesSpaced, UNCHANGED req, NEW n, TickSynchronised(n)
  PROVE  DeadlinesSpaced'
<1> DEFINE b == BankOf(casReq)
           f == Final(casReq)
<1>1. casReq # 0 /\ \A x \in owner : deadline[x] >= 2 /\ deadline[x] > SyncWait
  BY DEF TickSynchronised, DeadlinesSpaced
<1>2. ~Urgent
  <2> SUFFICES ASSUME NEW j \in DOMAIN activating, DeadlineNow[BankOf(activating[j])] <= 0
               PROVE  FALSE
    BY DEF Urgent
  <2>1. BankOf(activating[j]) \in owner
    BY DEF RowInv, OpeningExact
  <2>2. deadline[BankOf(activating[j])] \in Int
    BY <2>1, RowTypes DEF StepOK, OpeningOK
  <2> QED BY <1>1, <2>1, <2>2, DeadlinesNow
<1>3. CASE CheckTiming(Elapsed, f, b)
  <2>1. casReq' = 0 /\ OpeningGoesOn
    BY <1>3 DEF TickSynchronised, Perform
  <2> QED BY <1>2, <2>1, SpacedGoOn
<1>4. CASE ~CheckTiming(Elapsed, f, b)
  <2>1. wait' = Elapsed /\ OpeningGoesOn /\ casReq' = casReq
    BY <1>4 DEF TickSynchronised, Wait, IssueNothing
  <2>2. b \in Banks /\ f \in Timed /\ f \in Accesses
    <3>1. casReq \in Ids /\ f \in Accesses
      BY <1>1, SentIds, RowTypes DEF RowInv, InflightInv, SessionInv, SyncInHostMode, IsHost
    <3> QED BY <3>1, RowTypes, RequestTypes DEF Accesses, Timed
  <2>3. Elapsed[b][f] # 0
    <3>1. Targets(f, b) = {b}
      BY <2>2 DEF Accesses, Targets, TargetsAll, Modes
    <3> QED BY <1>4, <2>2, <3>1 DEF CheckTiming
  <2>4. SyncWait \in Nat /\ SyncWait' = Elapsed[b][f]
    BY <2>1, <2>2, RowTypes DEF SyncWait, StepOK, PIMDeviceTypeOK, BankOf, Final
  <2>5. Elapsed[b][f] = Larger(SyncWait - 1, 0)
    BY <2>2 DEF Elapsed, SyncWait
  <2>6. SyncWait' = SyncWait - 1 /\ SyncWait' >= 1
    BY <2>3, <2>4, <2>5 DEF Larger
  <2>7. owner' = owner /\ deadline' = DeadlineNow
    BY <2>1 DEF OpeningGoesOn
  <2>8. \A x \in owner : deadline[x] \in Int /\ DeadlineNow[x] = deadline[x] - 1 /\ nAAD \in Nat
    BY RowTypes, DeadlinesNow, ConstantTypes DEF StepOK, OpeningOK
  <2>9. \A x \in owner : /\ deadline'[x] >= 1 /\ deadline'[x] <= nAAD
                         /\ deadline'[x] >= 2 /\ deadline'[x] > SyncWait'
    BY <1>1, <2>4, <2>6, <2>7, <2>8, DeadlinesNow
  <2>10. \A a, x \in owner : deadline'[a] = deadline'[x] => a = x
    BY <2>7, DeadlinesNow
  <2> QED BY <2>7, <2>9, <2>10 DEF DeadlinesSpaced
<1> QED BY <1>3, <1>4

LEMMA TickSpaced ==
  ASSUME RowInv, DeadlinesSpaced, Tick
  PROVE  failed' \/ DeadlinesSpaced'
<1>1. UNCHANGED req
  BY TickSafe DEF RowInv, InflightInv
<1>2. PICK n \in 0 .. Len(pending) :
        \/ TickSynchronised(n) \/ TickUrgent(n) \/ TickMaintenance(n) \/ TickSelected(n)
        \/ TickDeferred(n) \/ TickThrow(n)
  BY DEF Tick
<1>3. CASE TickSynchronised(n)
  BY <1>1, <1>3, SpacedSynchronised
<1>4. CASE TickUrgent(n)
  <2>1. casReq' = 0 /\ \E k : FirstDue(k) /\ OpenRow(n, k)
    BY <1>4 DEF TickUrgent
  <2> QED BY <2>1, SpacedOpenRow
<1>5. CASE TickMaintenance(n)
  <2>1. casReq' = 0 /\ ~Urgent /\ OpeningGoesOn
    BY <1>5 DEF TickMaintenance
  <2> QED BY <2>1, SpacedGoOn
<1>6. CASE TickSelected(n)
  <2> DEFINE Step(buf, k) ==
               /\ Selects(buf, k) /\ casReq = 0 /\ ~Urgent
               /\ \/ UNCHANGED casReq /\ \E j : FirstDue(j) /\ OpenRow(n, j)
                  \/ /\ NeedsSync(Buffer(buf)[k]) /\ ~CasWouldBlockDeadline
                     /\ Synchronise(n, buf, k)
                  \/ /\ UNCHANGED casReq
                     /\ \/ Perform(n, buf, k) \/ Prepare(n, buf, k) \/ Activate(n, buf, k)
                        \/ Launch(n, buf, k) \/ LaunchAllBank(n, buf, k)
  <2>1. PICK buf \in {"active", "read", "write"} : \E k \in DOMAIN Buffer(buf) : Step(buf, k)
    BY <1>6 DEF TickSelected
  <2>2. PICK k \in DOMAIN Buffer(buf) : Step(buf, k)
    BY <2>1
  <2>3. CASE UNCHANGED casReq /\ \E j : FirstDue(j) /\ OpenRow(n, j)
    BY <2>2, <2>3, SpacedOpenRow
  <2>4. CASE /\ NeedsSync(Buffer(buf)[k]) /\ ~CasWouldBlockDeadline
             /\ Synchronise(n, buf, k)
    BY <1>1, <2>2, <2>4, SpacedSynchronise
  <2>5. CASE UNCHANGED casReq /\ Activate(n, buf, k)
    BY <2>2, <2>5, SpacedActivate
  <2>6. CASE /\ UNCHANGED casReq
             /\ \/ Perform(n, buf, k) \/ Prepare(n, buf, k)
                \/ Launch(n, buf, k) \/ LaunchAllBank(n, buf, k)
    <3>1. OpeningGoesOn
      BY <2>6 DEF Perform, Prepare, Launch, LaunchAllBank
    <3> QED BY <2>2, <2>6, <3>1, SpacedGoOn
  <2> QED BY <2>2, <2>3, <2>4, <2>5, <2>6
<1>7. CASE TickDeferred(n)
  <2>1. casReq' = 0 /\ ~Urgent /\ (Wait(n) \/ \E k : FirstDue(k) /\ OpenRow(n, k))
    BY <1>7 DEF TickDeferred
  <2>2. Wait(n) => OpeningGoesOn
    BY DEF Wait
  <2> QED BY <2>1, <2>2, SpacedGoOn, SpacedOpenRow
<1>8. CASE TickThrow(n)
  BY <1>8 DEF TickThrow
<1> QED BY <1>2, <1>3, <1>4, <1>5, <1>6, <1>7, <1>8

LEMMA DeadlineInductive == DeadlineInv /\ [Next]_vars => DeadlineInv'
<1> SUFFICES ASSUME DeadlineInv, [Next]_vars PROVE DeadlineInv'
  OBVIOUS
<1>1. RowInv'
  BY RowInductive DEF DeadlineInv
<1>2. CASE Tick
  <2>1. ~failed
    BY <1>2 DEF Tick, TickSynchronised, TickUrgent, TickMaintenance, TickSelected, TickDeferred,
                TickThrow, TickStart
  <2> QED BY <1>1, <1>2, <2>1, TickSpaced DEF DeadlineInv
<1>3. CASE Send
  <2>1. UNCHANGED <<wait, owner, deadline, casReq, failed>>
    <3>1. \E a \in Addrs : \E final : Accept(final, a)
      BY <1>3 DEF Send, SendForwardedRead, SendCoalescedWrite, SendWrite, SendQueued
    <3> QED BY <3>1 DEF Accept, deviceVars, openingVars
  <2>2. casReq # 0 => req'[casReq] = req[casReq]
    BY <1>3, SendSafe DEF DeadlineInv, RowInv, InflightInv, SessionInv, SyncInHostMode
  <2>3. casReq # 0 => SyncWait' = SyncWait
    BY <2>1, <2>2 DEF SyncWait, BankOf, Final
  <2> QED BY <1>1, <2>1, <2>3 DEF DeadlineInv, DeadlinesSpaced
<1>4. CASE UNCHANGED vars
  <2>1. UNCHANGED <<wait, owner, deadline, casReq, failed, req>>
    BY <1>4 DEF vars, deviceVars, openingVars
  <2> QED BY <1>1, <2>1 DEF DeadlineInv, DeadlinesSpaced, SyncWait, BankOf, Final
<1> QED BY <1>2, <1>3, <1>4 DEF Next

LEMMA DeadlineInitially == Init => DeadlineInv
<1>1. Init => DeadlinesSpaced
  BY DEF Init, DeadlinesSpaced
<1> QED BY <1>1, RowInitially DEF DeadlineInv

(* An ACT2 is issued at its deadline at the latest, however the CAS        *)
(* commands, the column commands and the other banks' ACT2s compete for    *)
(* the cycles, and none becomes urgent between a CAS and its access: the   *)
(* assertions of pick_urgent_act2, issue_owned_act2 and the synchronised   *)
(* branch of tick.                                                         *)
THEOREM DeadlinesMet == Spec => []DeadlinesKept
<1>1. DeadlineInv => DeadlinesKept
  BY DEF DeadlineInv, DeadlinesSpaced, DeadlinesKept
<1> QED BY <1>1, DeadlineInitially, DeadlineInductive, PTL DEF Spec

-----------------------------------------------------------------------------
(* Refreshes.                                                              *)

RefreshInv == TypeInv /\ Len(priority) <= PrioritySize

LEMMA PriorityGrows ==
  ASSUME RefreshInv
  PROVE  /\ PriorityNow \in Seq(Ranks) /\ Len(PriorityNow) >= Len(priority)
         /\ PriorityNow # <<>> => Len(Tail(PriorityNow)) = Len(PriorityNow) - 1
         /\ RefreshFails => Len(SubSeq(PriorityNow, 1, PrioritySize)) = PrioritySize
         /\ PrioritySize \in Nat /\ Len(PriorityNow) \in Nat /\ Len(priority) \in Nat
<1>1. priority \in Seq(Ranks) /\ Len(priority) \in Nat /\ PrioritySize \in Nat
  BY ConstantTypes, LenProperties DEF RefreshInv, TypeInv, ChoicesOK
<1> DEFINE more == [k \in 1 .. Cardinality(Ranks) |-> k - 1]
<1>2. more \in Seq(Ranks)
  <2>1. \A k \in 1 .. Cardinality(Ranks) : k - 1 \in Ranks
    BY RankNumbers
  <2> QED BY <2>1, RankNumbers, IsASeq
<1> HIDE DEF more
<1>3. PriorityNow \in Seq(Ranks) /\ Len(PriorityNow) >= Len(priority)
  <2>1. CASE RefreshDue
    <3>1. PriorityNow = priority \o more
      BY <2>1 DEF PriorityNow, more
    <3>2. Len(more) \in Nat
      BY <1>2, LenProperties
    <3>3. priority \o more \in Seq(Ranks) /\ Len(priority \o more) = Len(priority) + Len(more)
      BY <1>1, <1>2, ConcatProperties
    <3> QED BY <1>1, <3>1, <3>2, <3>3
  <2>2. CASE ~RefreshDue
    BY <1>1, <2>2 DEF PriorityNow
  <2> QED BY <2>1, <2>2
<1>4. Len(PriorityNow) \in Nat
  BY <1>3, LenProperties
<1>5. PriorityNow # <<>> => Len(Tail(PriorityNow)) = Len(PriorityNow) - 1
  BY <1>3, HeadTailProperties
<1>6. RefreshFails => Len(SubSeq(PriorityNow, 1, PrioritySize)) = PrioritySize
  <2> SUFFICES ASSUME RefreshFails PROVE Len(SubSeq(PriorityNow, 1, PrioritySize)) = PrioritySize
    OBVIOUS
  <2>1. PrioritySize \in 1 - 1 .. Len(PriorityNow) /\ 1 \in 1 .. Len(PriorityNow) + 1
    BY <1>1, <1>4 DEF RefreshFails
  <2> QED BY <1>3, <2>1, SubSeqProperties
<1> QED BY <1>1, <1>3, <1>4, <1>5, <1>6

(* What a tick makes of the priority buffer.                               *)
LEMMA TickPriority ==
  ASSUME Tick
  PROVE  \/ priority' = PriorityNow /\ ~RefreshFails
         \/ /\ priority' = Tail(PriorityNow) /\ ~RefreshFails /\ PriorityNow # <<>> /\ ab' = AbNow
            /\ ~ActivationBlocked("REFab", RefreshBank)
         \/ priority' = SubSeq(PriorityNow, 1, PrioritySize) /\ RefreshFails
<1>1. PICK n \in 0 .. Len(pending) :
        \/ TickSynchronised(n) \/ TickUrgent(n) \/ TickMaintenance(n) \/ TickSelected(n)
        \/ TickDeferred(n) \/ TickThrow(n)
  BY DEF Tick
<1>2. CASE TickSynchronised(n) \/ TickUrgent(n) \/ TickSelected(n) \/ TickDeferred(n)
  BY <1>2 DEF TickSynchronised, TickUrgent, TickSelected, TickDeferred, TickStart
<1>3. CASE TickMaintenance(n)
  BY <1>3 DEF TickMaintenance, TickStart, SelectsMaintenance, MaintenanceReady, PimGoesOn, AbGoesOn
<1>4. CASE TickThrow(n)
  BY <1>4 DEF TickThrow
<1> QED BY <1>1, <1>2, <1>3, <1>4

RefreshWaits == ab # 0 /\ ab' = ab => Len(priority') >= Len(priority)

LEMMA RefreshInductive == RefreshInv /\ [Next]_vars => RefreshInv' /\ RefreshWaits
<1> SUFFICES ASSUME RefreshInv, [Next]_vars PROVE RefreshInv' /\ RefreshWaits
  OBVIOUS
<1>1. TypeInv'
  BY TypeInductive DEF RefreshInv
<1>2. CASE Tick
  <2>1. Len(priority') <= PrioritySize
    BY <1>2, TickPriority, PriorityGrows DEF RefreshFails
  <2>2. RefreshWaits
    <3> SUFFICES ASSUME ab # 0, ab' = ab PROVE Len(priority') >= Len(priority)
      BY DEF RefreshWaits
    <3>1. CASE priority' = Tail(PriorityNow) /\ ab' = AbNow /\ ~ActivationBlocked("REFab", RefreshBank)
      BY <3>1 DEF ActivationBlocked, Disturbs
    <3>2. CASE priority' = PriorityNow
      BY <3>2, PriorityGrows
    <3>3. CASE priority' = SubSeq(PriorityNow, 1, PrioritySize) /\ RefreshFails
      BY <3>3, PriorityGrows DEF RefreshInv
    <3> QED BY <1>2, <3>1, <3>2, <3>3, TickPriority
  <2> QED BY <1>1, <2>1, <2>2 DEF RefreshInv
<1>3. CASE Send \/ UNCHANGED vars
  <2>1. priority' = priority
    <3>1. Send => \E a \in Addrs : \E final : Accept(final, a)
      BY DEF Send, SendForwardedRead, SendCoalescedWrite, SendWrite, SendQueued
    <3> QED BY <1>3, <3>1 DEF Accept, vars
  <2>2. Len(priority) \in Nat
    BY PriorityGrows
  <2> QED BY <1>1, <2>1, <2>2 DEF RefreshInv, RefreshWaits
<1> QED BY <1>2, <1>3 DEF Next

(* No REFab leaves the priority buffer while an all-bank operation is in   *)
(* flight, whichever rank it is for (would_block_activating).              *)
THEOREM RefreshHeldBack == Spec => RefreshWaitsForAllBank
<1>1. Init => RefreshInv
  BY TypeInitially, ConstantTypes DEF RefreshInv, Init
<1>2. RefreshInv /\ [Next]_vars => [RefreshWaits]_vars
  BY RefreshInductive
<1>3. [RefreshWaits]_vars => [ab # 0 /\ ab' = ab => Len(priority') >= Len(priority)]_vars
  BY DEF RefreshWaits
<1>4. RefreshInv /\ [Next]_vars => RefreshInv'
  BY RefreshInductive
<1> QED BY <1>1, <1>2, <1>3, <1>4, PTL DEF Spec, RefreshWaitsForAllBank
=============================================================================
