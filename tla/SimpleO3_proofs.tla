--------------------------- MODULE SimpleO3_proofs ---------------------------
(***************************************************************************)
(* The SimpleO3 frontend and its cache, for every number of cores, every   *)
(* trace and every order of the memory's answers: the windows of the cores *)
(* never overflow, and in a cache whose line size and number of sets are   *)
(* powers of two, lines and MSHRs belong together and no store is lost.    *)
(***************************************************************************)
EXTENDS SimpleO3, BufferLemmas

-----------------------------------------------------------------------------
(* Types.                                                                  *)

Slots == [addr : Addrs \cup {NoAddr}, ready : BOOLEAN]
CoreStates ==
  [window : Seq(Slots), bubbles : Nat, load : Addrs \cup {NoAddr}, store : Addrs \cup {NoAddr},
   next : Nat, retired : Nat]
Lines    == [addr : Addrs, dirty : BOOLEAN, ready : BOOLEAN]
Misses   == [due : Nat, addr : Addrs, type : {"Read", "Write"}]
Hits     == [due : Nat, core : Cores, addr : Addrs]
Waiters  == [core : Cores, addr : Addrs]
Requests == [core : Cores, addr : Addrs, type : {"Read", "Write"}]

(* A core between two lines of its trace has something to send, and its    *)
(* window has its depth.                                                   *)
CoreOK(c, t) ==
  /\ c \in CoreStates
  /\ c.next \in 1 .. Len(t)
  /\ Len(c.window) <= Depth
  /\ c.load # NoAddr \/ c.store # NoAddr

CoresOK ==
  /\ trace \in [Cores -> Seq(Insts) \ {<<>>}]
  /\ DOMAIN core = Cores
  /\ \A c \in Cores : CoreOK(core[c], trace[c])
  /\ turn \in Cores
  /\ phase = "send" /\ core[turn].load # NoAddr => Len(core[turn].window) < Depth

CacheTypes ==
  /\ sets \in [Indices -> Seq(Lines)]
  /\ mshrs \in Seq(Addrs)
  /\ waiting \in [Addrs -> Seq(Waiters)]
  /\ misses \in Seq(Misses)
  /\ hits \in Seq(Hits)
  /\ memory \in [Addrs -> Nat]

-----------------------------------------------------------------------------
(* The cores.                                                              *)

LEMMA FetchedOK ==
  ASSUME NEW t \in Seq(Insts) \ {<<>>}, NEW c \in CoreStates, c.next \in 1 .. Len(t),
         Len(c.window) <= Depth
  PROVE  CoreOK(Fetched(c, t), t) /\ Fetched(c, t).window = c.window
<1>1. Len(t) \in Nat \ {0}
  BY EmptySeq
<1>2. t[c.next] \in Insts
  BY ElementOfSeq
<1>3. (c.next % Len(t)) + 1 \in 1 .. Len(t)
  <2> DEFINE n == c.next
  <2>1. n \in Nat
    BY <1>1
  <2> HIDE DEF n
  <2>2. n % Len(t) \in 0 .. Len(t) - 1
    BY <1>1, <2>1
  <2> QED BY <1>1, <2>2 DEF n
<1> DEFINE i == t[c.next]
           n == (c.next % Len(t)) + 1
<1>4. /\ i.bubbles \in Nat /\ i.load \in Addrs /\ i.store \in Addrs \cup {NoAddr}
      /\ i.load # NoAddr
  BY <1>2, CoreAssumption DEF Insts
<1>5. n \in Nat /\ n \in 1 .. Len(t)
  BY <1>1, <1>3
<1>6. Fetched(c, t) = [c EXCEPT !.bubbles = i.bubbles, !.load = i.load, !.store = i.store, !.next = n]
  BY DEF Fetched
<1> HIDE DEF i, n
<1>7. Fetched(c, t) \in CoreStates
  BY <1>4, <1>5, <1>6 DEF CoreStates
<1>8. Fetched(c, t).window = c.window /\ Fetched(c, t).load = i.load /\ Fetched(c, t).next = n
  BY <1>6 DEF CoreStates
<1> QED BY <1>4, <1>5, <1>7, <1>8 DEF CoreOK

LEMMA NewCoreOK ==
  ASSUME NEW t \in Seq(Insts) \ {<<>>}
  PROVE  CoreOK(NewCore(t), t)
<1> DEFINE c == [window |-> <<>>, bubbles |-> 0, load |-> NoAddr, store |-> NoAddr, next |-> 1, retired |-> 0]
<1>1. Len(t) \in Nat \ {0}
  BY EmptySeq
<1>2. <<>> \in Seq(Slots) /\ Len(<<>>) = 0
  BY EmptySeq
<1>3. c \in CoreStates /\ c.next = 1 /\ c.window = <<>>
  BY <1>2 DEF CoreStates
<1>4. Len(c.window) <= Depth
  BY <1>2, <1>3, CoreAssumption
<1> HIDE DEF c
<1>5. CoreOK(Fetched(c, t), t)
  BY <1>1, <1>3, <1>4, FetchedOK
<1> QED BY <1>5 DEF NewCore, c

LEMMA SetReadyOK ==
  ASSUME NEW t, NEW c, CoreOK(c, t), NEW as
  PROVE  /\ CoreOK(SetReady(c, as), t)
         /\ SetReady(c, as).load = c.load /\ Len(SetReady(c, as).window) = Len(c.window)
<1> DEFINE e(k) == Answered(c.window[k], as)
           w    == [k \in 1 .. Len(c.window) |-> e(k)]
<1>1. /\ c \in CoreStates /\ c.window \in Seq(Slots) /\ Len(c.window) \in Nat
      /\ DOMAIN c.window = 1 .. Len(c.window)
  BY LenProperties DEF CoreOK, CoreStates
<1>2. ASSUME NEW k \in 1 .. Len(c.window) PROVE e(k) \in Slots
  <2>1. c.window[k] \in Slots
    BY <1>1, ElementOfSeq
  <2> QED BY <2>1 DEF Slots, Answered
<1> HIDE DEF e
<1>3. w \in Seq(Slots)
  BY <1>1, <1>2, IsASeq
<1>4. Len(w) = Len(c.window)
  <2>1. DOMAIN w = 1 .. Len(w) /\ Len(w) \in Nat
    BY <1>3, LenProperties
  <2>2. DOMAIN w = 1 .. Len(c.window)
    OBVIOUS
  <2> HIDE DEF w
  <2> QED BY <1>1, <2>1, <2>2
<1>5. SetReady(c, as) = [c EXCEPT !.window = w]
  BY <1>1 DEF SetReady, e
<1> HIDE DEF w
<1> QED BY <1>1, <1>3, <1>4, <1>5 DEF CoreOK, CoreStates

LEMMA RetireOK ==
  ASSUME NEW t, NEW c, CoreOK(c, t)
  PROVE  CoreOK(Retire(c), t)
<1> DEFINE ready == {k \in DOMAIN c.window : \A j \in 1 .. k : c.window[j].ready}
           n     == Min({Ipc, Cardinality(ready)})
           w     == SubSeq(c.window, n + 1, Len(c.window))
<1>1. /\ c \in CoreStates /\ c.window \in Seq(Slots) /\ Len(c.window) \in Nat
      /\ DOMAIN c.window = 1 .. Len(c.window)
  BY LenProperties DEF CoreOK, CoreStates
<1>2. Cardinality(ready) \in Nat
  <2>1. IsFiniteSet(1 .. Len(c.window))
    BY <1>1, FS_Interval
  <2>2. ready \in SUBSET (1 .. Len(c.window))
    BY <1>1
  <2> HIDE DEF ready
  <2>3. IsFiniteSet(ready)
    BY <2>1, <2>2, FS_Subset
  <2> QED BY <2>3, FS_CardinalityType
<1>3. n \in Nat
  <2> HIDE DEF ready
  <2>1. {Ipc, Cardinality(ready)} \in SUBSET Nat /\ {Ipc, Cardinality(ready)} # {}
    BY <1>2, CoreAssumption
  <2>2. n \in {Ipc, Cardinality(ready)}
    BY <2>1, MinNat
  <2> QED BY <2>1, <2>2
<1> HIDE DEF n
<1>4. w \in Seq(Slots) /\ Len(w) <= Len(c.window)
  <2>1. \A k \in n + 1 .. Len(c.window) : c.window[k] \in Slots
    BY <1>1, <1>3, ElementOfSeq
  <2>2. /\ w \in Seq(Slots)
        /\ Len(w) = IF n + 1 <= Len(c.window) THEN Len(c.window) - (n + 1) + 1 ELSE 0
    BY <1>1, <1>3, <2>1, SubSeqProperties
  <2> HIDE DEF w
  <2> QED BY <1>1, <1>3, <2>2
<1>5. Min({NumExpected, c.retired + n}) \in Nat
  <2>1. c.retired \in Nat
    BY <1>1 DEF CoreStates
  <2>2. {NumExpected, c.retired + n} \in SUBSET Nat /\ {NumExpected, c.retired + n} # {}
    BY <1>3, <2>1, CoreAssumption
  <2>3. Min({NumExpected, c.retired + n}) \in {NumExpected, c.retired + n}
    BY <2>2, MinNat
  <2> QED BY <2>2, <2>3
<1> DEFINE r == Min({NumExpected, c.retired + n})
<1>6. Retire(c) = [c EXCEPT !.window = w, !.retired = r]
  BY DEF Retire, n
<1>7. Len(w) \in Nat
  BY <1>4, LenProperties
<1> HIDE DEF w, r
<1>8. Retire(c) \in CoreStates /\ Retire(c).window = w
  BY <1>1, <1>4, <1>5, <1>6 DEF CoreStates, r
<1>9. Retire(c).next = c.next /\ Retire(c).load = c.load /\ Retire(c).store = c.store
  BY <1>1, <1>6 DEF CoreStates
<1>10. Len(w) <= Depth
  BY <1>1, <1>4, <1>7, CoreAssumption DEF CoreOK
<1> QED BY <1>8, <1>9, <1>10 DEF CoreOK

LEMMA InsertOK ==
  ASSUME NEW t, NEW c, CoreOK(c, t), NEW n \in Nat, n <= c.bubbles, n <= Depth - Len(c.window)
  PROVE  CoreOK(InsertBubbles(c, n), t)
<1> DEFINE b == [k \in 1 .. n |-> [addr |-> NoAddr, ready |-> TRUE]]
           w == c.window \o b
<1>1. /\ c \in CoreStates /\ c.window \in Seq(Slots) /\ Len(c.window) \in Nat /\ c.bubbles \in Nat
  BY LenProperties DEF CoreOK, CoreStates
<1>2. b \in Seq(Slots) /\ Len(b) = n
  <2>1. [addr |-> NoAddr, ready |-> TRUE] \in Slots
    BY DEF Slots
  <2>2. b \in Seq(Slots)
    BY <2>1, IsASeq
  <2>3. DOMAIN b = 1 .. n
    OBVIOUS
  <2> HIDE DEF b
  <2>4. DOMAIN b = 1 .. Len(b) /\ Len(b) \in Nat
    BY <2>2, LenProperties
  <2>5. Len(b) = n
    BY <2>3, <2>4
  <2> QED BY <2>2, <2>5
<1> HIDE DEF b
<1>3. w \in Seq(Slots) /\ Len(w) = Len(c.window) + n
  BY <1>1, <1>2, ConcatProperties
<1>4. InsertBubbles(c, n) = [c EXCEPT !.window = w, !.bubbles = c.bubbles - n]
  BY DEF InsertBubbles, b
<1> HIDE DEF w
<1>5. InsertBubbles(c, n) \in CoreStates /\ InsertBubbles(c, n).window = w
  <2> DEFINE left == c.bubbles - n
  <2>1. left \in Nat
    BY <1>1
  <2> HIDE DEF left
  <2>2. InsertBubbles(c, n) = [c EXCEPT !.window = w, !.bubbles = left]
    BY <1>4 DEF left
  <2> QED BY <1>1, <1>3, <2>1, <2>2 DEF CoreStates
<1>6. /\ InsertBubbles(c, n).next = c.next /\ InsertBubbles(c, n).load = c.load
      /\ InsertBubbles(c, n).store = c.store
  BY <1>1, <1>4 DEF CoreStates
<1>7. Len(w) <= Depth
  BY <1>1, <1>3, CoreAssumption
<1> QED BY <1>5, <1>6, <1>7 DEF CoreOK

LEMMA TakenOK ==
  ASSUME NEW t \in Seq(Insts) \ {<<>>}, NEW c, CoreOK(c, t),
         c.load # NoAddr => Len(c.window) < Depth
  PROVE  CoreOK(Taken(c, t, c.load # NoAddr), t)
<1> DEFINE w    == Append(c.window, [addr |-> c.load, ready |-> FALSE])
           sent == [c EXCEPT !.window = w, !.load = NoAddr]
<1>1. /\ c \in CoreStates /\ c.next \in 1 .. Len(t) /\ c.window \in Seq(Slots) /\ Len(c.window) \in Nat
      /\ Len(c.window) <= Depth
  BY LenProperties DEF CoreOK, CoreStates
<1>2. CASE c.load = NoAddr
  BY <1>1, <1>2, FetchedOK DEF Taken
<1>3. CASE c.load # NoAddr
  <2>1. [addr |-> c.load, ready |-> FALSE] \in Slots
    BY <1>1 DEF CoreStates, Slots
  <2>2. w \in Seq(Slots) /\ Len(w) = Len(c.window) + 1
    BY <1>1, <2>1, AppendProperties
  <2>3. Taken(c, t, TRUE) = IF c.store = NoAddr THEN Fetched(sent, t) ELSE sent
    BY DEF Taken
  <2> HIDE DEF w
  <2>4. sent \in CoreStates /\ sent.window = w /\ sent.next = c.next /\ sent.store = c.store
    BY <1>1, <2>2 DEF CoreStates
  <2> HIDE DEF sent
  <2>5. Len(sent.window) <= Depth
    BY <1>1, <1>3, <2>2, <2>4, CoreAssumption
  <2>6. CASE c.store = NoAddr
    BY <1>1, <1>3, <2>3, <2>4, <2>5, <2>6, FetchedOK
  <2>7. CASE c.store # NoAddr
    <3>1. CoreOK(sent, t)
      BY <1>1, <2>4, <2>5, <2>7 DEF CoreOK
    <3> QED BY <1>3, <2>3, <2>7, <3>1
  <2> QED BY <2>6, <2>7
<1> QED BY <1>2, <1>3

LEMMA RequestType ==
  ASSUME CoresOK
  PROVE  Request \in Requests
<1>1. /\ turn \in Cores /\ core[turn] \in CoreStates
      /\ core[turn].load # NoAddr \/ core[turn].store # NoAddr
  BY DEF CoresOK, CoreOK
<1>2. /\ core[turn].load \in Addrs \cup {NoAddr} /\ core[turn].store \in Addrs \cup {NoAddr}
  BY <1>1 DEF CoreStates
<1> QED BY <1>1, <1>2 DEF Request, Requests

LEMMA NextTurnOK ==
  ASSUME turn \in Cores, NextTurn
  PROVE  turn' \in Cores /\ phase' # "send"
BY CoreAssumption DEF NextTurn, Cores

LEMMA CoresInit == Init => CoresOK
<1> SUFFICES ASSUME Init PROVE CoresOK
  OBVIOUS
<1>1. trace \in [Cores -> Seq(Insts) \ {<<>>}]
  BY TraceAssumption DEF Init
<1>2. \A c \in Cores : CoreOK(core[c], trace[c])
  BY <1>1, NewCoreOK DEF Init
<1>3. turn \in Cores /\ phase # "send"
  BY CoreAssumption DEF Init, Cores
<1> QED BY <1>1, <1>2, <1>3 DEF CoresOK, Init

(* The answers of the memory and of the cache reach the windows only.      *)
LEMMA CoresReceive ==
  ASSUME CoresOK, NEW a, NEW waiters, Receive(a, waiters), UNCHANGED <<trace, turn>>,
         phase' = phase \/ phase' # "send"
  PROVE  CoresOK'
<1>1. core' = [c \in Cores |-> SetReady(core[c], AddrsOf(c, waiters))]
  BY DEF Receive
<1>2. ASSUME NEW c \in Cores
      PROVE  /\ CoreOK(core'[c], trace[c])
             /\ core'[c].load = core[c].load /\ Len(core'[c].window) = Len(core[c].window)
  <2>1. CoreOK(core[c], trace[c]) /\ core'[c] = SetReady(core[c], AddrsOf(c, waiters))
    BY <1>1 DEF CoresOK
  <2> QED BY <2>1, SetReadyOK
<1>3. turn \in Cores /\ turn' = turn /\ trace' = trace /\ DOMAIN core' = Cores
  BY <1>1 DEF CoresOK
<1>4. phase' = "send" /\ core'[turn].load # NoAddr => Len(core'[turn].window) < Depth
  BY <1>2, <1>3 DEF CoresOK
<1>5. \A c \in Cores : CoreOK(core'[c], trace'[c])
  BY <1>2, <1>3
<1> QED BY <1>3, <1>4, <1>5 DEF CoresOK

LEMMA CoresIssue ==
  ASSUME CoresOK, Issue
  PROVE  CoresOK'
<1> DEFINE old  == Retire(core[turn])
           n    == Min({old.bubbles, Ipc, Depth - Len(old.window)})
           new  == InsertBubbles(old, n)
           room == n < Ipc /\ Len(new.window) < Depth
<1>1. turn \in Cores /\ CoreOK(core[turn], trace[turn])
  BY DEF CoresOK
<1>2. CoreOK(old, trace[turn])
  BY <1>1, RetireOK
<1> HIDE DEF old
<1>3. old.bubbles \in Nat /\ Len(old.window) \in Nat /\ Len(old.window) <= Depth
  BY <1>2, LenProperties DEF CoreOK, CoreStates
<1>4. n \in Nat /\ n <= old.bubbles /\ n <= Depth - Len(old.window)
  <2> DEFINE m == Depth - Len(old.window)
  <2>1. m \in Nat
    BY <1>3, CoreAssumption
  <2> HIDE DEF m
  <2>2. {old.bubbles, Ipc, m} \in SUBSET Nat /\ {old.bubbles, Ipc, m} # {}
    BY <1>3, <2>1, CoreAssumption
  <2>3. Min({old.bubbles, Ipc, m}) \in {old.bubbles, Ipc, m}
        /\ \A y \in {old.bubbles, Ipc, m} : Min({old.bubbles, Ipc, m}) <= y
    BY <2>2, MinNat
  <2>4. Min({old.bubbles, Ipc, m}) \in Nat
    BY <2>2, <2>3
  <2> QED BY <2>3, <2>4 DEF m
<1> HIDE DEF n
<1>5. CoreOK(new, trace[turn])
  BY <1>2, <1>4, InsertOK
<1>6. /\ core' = [core EXCEPT ![turn] = new] /\ trace' = trace
      /\ IF new.bubbles = 0 /\ (new.load # NoAddr => room)
         THEN phase' = "send" /\ UNCHANGED turn
         ELSE NextTurn
  BY DEF Issue, old, n
<1> HIDE DEF new
<1>7. \A c \in Cores : CoreOK(core'[c], trace'[c])
  BY <1>1, <1>5, <1>6 DEF CoresOK
<1>8. DOMAIN core' = Cores /\ core'[turn] = new
  BY <1>1, <1>6 DEF CoresOK
<1>9. turn' \in Cores /\ (phase' = "send" /\ core'[turn'].load # NoAddr => Len(core'[turn'].window) < Depth)
  <2>1. CASE new.bubbles = 0 /\ (new.load # NoAddr => room)
    BY <1>1, <1>6, <1>8, <2>1
  <2>2. CASE ~(new.bubbles = 0 /\ (new.load # NoAddr => room))
    <3> HIDE DEF room
    <3>1. NextTurn
      BY <1>6, <2>2
    <3> QED BY <1>1, <3>1, NextTurnOK
  <2> QED BY <2>1, <2>2
<1> QED BY <1>6, <1>7, <1>8, <1>9 DEF CoresOK

LEMMA CoresSendTaken ==
  ASSUME CoresOK, SendTaken
  PROVE  CoresOK'
<1>1. turn \in Cores /\ CoreOK(core[turn], trace[turn]) /\ trace[turn] \in Seq(Insts) \ {<<>>}
      /\ (core[turn].load # NoAddr => Len(core[turn].window) < Depth)
  BY DEF CoresOK, SendTaken
<1> DEFINE new == Taken(core[turn], trace[turn], core[turn].load # NoAddr)
<1>2. CoreOK(new, trace[turn])
  BY <1>1, TakenOK
<1>3. core' = [core EXCEPT ![turn] = new] /\ trace' = trace /\ NextTurn
  BY DEF SendTaken
<1> HIDE DEF new
<1>4. turn' \in Cores /\ phase' # "send"
  BY <1>1, <1>3, NextTurnOK
<1>5. \A c \in Cores : CoreOK(core'[c], trace'[c])
  BY <1>1, <1>2, <1>3 DEF CoresOK
<1> QED BY <1>3, <1>4, <1>5 DEF CoresOK

LEMMA CoresStep == CoresOK /\ [Next]_vars => CoresOK'
<1> SUFFICES ASSUME CoresOK, [Next]_vars PROVE CoresOK'
  OBVIOUS
<1>1. ASSUME NEW taken, BeginTick(taken) PROVE CoresOK'
  BY <1>1 DEF BeginTick, CoresOK
<1>2. CASE ReceiveHit
  <2>1. PICK a, waiters : Receive(a, waiters)
    BY <1>2 DEF ReceiveHit
  <2> QED BY <1>2, <2>1, CoresReceive DEF ReceiveHit
<1>3. CASE EndHits
  BY <1>3 DEF EndHits, CoresOK
<1>4. CASE Issue
  BY <1>4, CoresIssue
<1>5. CASE SendTaken
  BY <1>5, CoresSendTaken
<1>6. CASE SendRefused
  <2>1. turn' \in Cores /\ phase' # "send" /\ UNCHANGED <<trace, core>>
    BY <1>6, NextTurnOK DEF SendRefused, CoresOK
  <2> QED BY <2>1 DEF CoresOK
<1>7. ASSUME NEW a \in Addrs, Answer(a) PROVE CoresOK'
  BY <1>7, CoresReceive DEF Answer
<1>8. CASE UNCHANGED vars
  BY <1>8 DEF vars, CoresOK
<1> QED BY <1>1, <1>2, <1>3, <1>4, <1>5, <1>6, <1>7, <1>8 DEF Next, InTick, TakeSome

-----------------------------------------------------------------------------
(* The lists of the cache.                                                 *)

LEMMA WithoutProperties ==
  ASSUME NEW S, NEW q \in Seq(S), NEW P
  PROVE  /\ Without(q, P) \in Seq(S)
         /\ Range(Without(q, P)) = {q[k] : k \in Kept(q, P)}
<1> DEFINE K == Kept(q, P)
           N == Cardinality(K)
           up(k) == {j \in K : j <= k}
           f == [k \in K |-> Cardinality(up(k))]
           at(n) == CHOOSE k \in K : Rank(q, P, k) = n
<1>1. Len(q) \in Nat /\ DOMAIN q = 1 .. Len(q) /\ K \in SUBSET (1 .. Len(q))
  BY LenProperties DEF Kept
<1>2. IsFiniteSet(K) /\ N \in Nat
  <2>1. IsFiniteSet(1 .. Len(q))
    BY <1>1, FS_Interval
  <2> HIDE DEF K
  <2>2. IsFiniteSet(K)
    BY <1>1, <2>1, FS_Subset
  <2> QED BY <2>2, FS_CardinalityType
<1>3. \A k \in K : Rank(q, P, k) = f[k]
  BY DEF Rank
<1> HIDE DEF K
<1>4. ASSUME NEW k \in K PROVE IsFiniteSet(up(k)) /\ f[k] \in 1 .. N
  <2>1. up(k) \in SUBSET K
    OBVIOUS
  <2>2. IsFiniteSet(up(k)) /\ Cardinality(up(k)) <= N
    BY <1>2, <2>1, FS_Subset
  <2>3. up(k) # {}
    <3>1. k \in up(k)
      BY <1>1
    <3> QED BY <3>1
  <2> HIDE DEF up
  <2>4. Cardinality(up(k)) \in Nat /\ Cardinality(up(k)) # 0
    BY <2>2, <2>3, FS_CardinalityType, FS_EmptySet
  <2> QED BY <1>2, <2>2, <2>4
<1>5. ASSUME NEW j \in K, NEW k \in K, j < k PROVE f[j] # f[k]
  <2>1. up(j) \in SUBSET up(k) /\ up(j) # up(k)
    <3>1. k \in up(k) /\ k \notin up(j)
      BY <1>1, <1>5
    <3>2. \A i \in K : i \in Nat
      BY <1>1
    <3>3. up(j) \in SUBSET up(k)
      BY <1>5, <3>2
    <3> QED BY <3>1, <3>3
  <2>2. IsFiniteSet(up(k))
    BY <1>4
  <2> HIDE DEF up
  <2>3. Cardinality(up(j)) # Cardinality(up(k))
    BY <2>1, <2>2, FS_Subset
  <2> QED BY <2>3
<1>6. f \in Injection(K, 1 .. N)
  <2>1. f \in [K -> 1 .. N]
    BY <1>4
  <2> HIDE DEF f
  <2>2. \A j, k \in K : f[j] = f[k] => j = k
    BY <1>1, <1>5
  <2> QED BY <2>1, <2>2, Fun_IsInj
<1> HIDE DEF f
<1>7. f \in Surjection(K, 1 .. N)
  <2>1. IsFiniteSet(1 .. N) /\ Cardinality(1 .. N) = N
    <3>1. 1 \in Int /\ N \in Int
      BY <1>2
    <3>2. IsFiniteSet(1 .. N) /\ Cardinality(1 .. N) = IF 1 > N THEN 0 ELSE N - 1 + 1
      BY <3>1, FS_Interval
    <3> QED BY <1>2, <3>2
  <2> QED BY <1>6, <2>1, FS_Injection
<1>8. \A n \in 1 .. N : \E k \in K : f[k] = n
  BY <1>7, Fun_SurjectionProperties
<1>9. \A j, k \in K : f[j] = f[k] => j = k
  BY <1>6, Fun_InjectionProperties
<1>10. ASSUME NEW n \in 1 .. N PROVE at(n) \in K /\ f[at(n)] = n
  <2>1. \E k \in K : Rank(q, P, k) = n
    BY <1>3, <1>8
  <2>2. at(n) \in K /\ Rank(q, P, at(n)) = n
    BY <2>1
  <2> HIDE DEF at
  <2> QED BY <1>3, <2>2
<1>11. \A k \in K : f[k] \in 1 .. N /\ at(f[k]) = k
  <2> HIDE DEF at
  <2> QED BY <1>4, <1>9, <1>10
<1>12. Without(q, P) = [n \in 1 .. N |-> q[at(n)]]
  BY DEF Without, K
<1> HIDE DEF at, N
<1>13. \A n \in 1 .. N : q[at(n)] \in S
  BY <1>1, <1>10, ElementOfSeq
<1>14. [n \in 1 .. N |-> q[at(n)]] \in Seq(S)
  BY <1>2, <1>13, IsASeq
<1>15. Range([n \in 1 .. N |-> q[at(n)]]) = {q[k] : k \in K}
  BY <1>10, <1>11 DEF Range
<1> QED BY <1>12, <1>14, <1>15 DEF K

LEMMA OlderProperties ==
  ASSUME NEW q, q \in Seq(Misses) \/ q \in Seq(Hits)
  PROVE  /\ q \in Seq(Misses) => Older(q) \in Seq(Misses)
         /\ q \in Seq(Hits) => Older(q) \in Seq(Hits)
         /\ DOMAIN Older(q) = DOMAIN q
         /\ \A k \in DOMAIN q : Older(q)[k].addr = q[k].addr
         /\ q \in Seq(Misses) => \A k \in DOMAIN q : Older(q)[k].type = q[k].type
<1> DEFINE e(k) == [q[k] EXCEPT !.due = IF q[k].due = 0 THEN 0 ELSE q[k].due - 1]
<1>1. Len(q) \in Nat /\ DOMAIN q = 1 .. Len(q)
  BY LenProperties
<1>2. Older(q) = [k \in 1 .. Len(q) |-> e(k)]
  BY <1>1 DEF Older
<1>3. ASSUME q \in Seq(Misses), NEW k \in 1 .. Len(q)
      PROVE  e(k) \in Misses /\ e(k).addr = q[k].addr /\ e(k).type = q[k].type
  <2>1. q[k] \in Misses
    BY <1>3, ElementOfSeq
  <2> DEFINE d == IF q[k].due = 0 THEN 0 ELSE q[k].due - 1
  <2>2. d \in Nat
    BY <2>1 DEF Misses
  <2> HIDE DEF d
  <2>3. e(k) = [q[k] EXCEPT !.due = d]
    BY DEF d
  <2> HIDE DEF e
  <2> QED BY <2>1, <2>2, <2>3 DEF Misses
<1>4. ASSUME q \in Seq(Hits), NEW k \in 1 .. Len(q)
      PROVE  e(k) \in Hits /\ e(k).addr = q[k].addr
  <2>1. q[k] \in Hits
    BY <1>4, ElementOfSeq
  <2> DEFINE d == IF q[k].due = 0 THEN 0 ELSE q[k].due - 1
  <2>2. d \in Nat
    BY <2>1 DEF Hits
  <2> HIDE DEF d
  <2>3. e(k) = [q[k] EXCEPT !.due = d]
    BY DEF d
  <2> HIDE DEF e
  <2> QED BY <2>1, <2>2, <2>3 DEF Hits
<1> HIDE DEF e
<1>5. q \in Seq(Misses) => [k \in 1 .. Len(q) |-> e(k)] \in Seq(Misses)
  BY <1>1, <1>3, IsASeq
<1>6. q \in Seq(Hits) => [k \in 1 .. Len(q) |-> e(k)] \in Seq(Hits)
  BY <1>1, <1>4, IsASeq
<1>7. \A k \in 1 .. Len(q) : Older(q)[k] = e(k)
  BY <1>2
<1>8. DOMAIN Older(q) = DOMAIN q
  BY <1>1, <1>2
<1> QED BY <1>1, <1>2, <1>3, <1>4, <1>5, <1>6, <1>7, <1>8

-----------------------------------------------------------------------------
(* A set of the cache as the set of its lines, and the lines in flight.    *)

Held       == UNION {Range(sets[i]) : i \in DOMAIN sets}
InFlight   == {LineOf[a] : a \in Range(mshrs)}
DirtyLines == {LineOf[w.addr] : w \in {x \in Held : x.dirty}}

Distinct(q) == \A j, k \in DOMAIN q : SameLine(q[j].addr, q[k].addr) => j = k

(* Only in a cache of powers of two do tags tell the lines of a set apart. *)
SetsOK ==
  /\ PowersOfTwo
  /\ \A i \in DOMAIN sets :
       /\ Len(sets[i]) <= Associativity
       /\ Distinct(sets[i])
       /\ \A w \in Range(sets[i]) : SetIndex(w.addr) = i

MshrsOK ==
  /\ Len(mshrs) <= NumMSHRs
  /\ \A j, k \in DOMAIN mshrs : SameLine(mshrs[j], mshrs[k]) => j = k

Locked     == \A w \in Held : w.ready <=> LineOf[w.addr] \notin InFlight
Placed     == \A l \in InFlight : \E w \in Held : LineOf[w.addr] = l
OnTheirWay ==
  \A a \in Range(mshrs) : memory[a] > 0 \/ \E m \in Range(misses) : m.addr = a /\ m.type = "Read"

LEMMA SetIndexType ==
  ASSUME NEW a \in Addrs
  PROVE  SetIndex(a) \in Indices
BY DEF Indices

LEMMA LogType ==
  ASSUME NEW n \in Nat
  PROVE  Log2(n) \in Nat
<1> DEFINE K == {k \in 1 .. n : 2 ^ k <= n}
<1>1. IsFiniteSet(1 .. n)
  BY FS_Interval
<1>2. IsFiniteSet(K)
  BY <1>1, FS_Subset
<1> HIDE DEF K
<1>3. Cardinality(K) \in Nat
  BY <1>2, FS_CardinalityType
<1> QED BY <1>3 DEF Log2, K

(* Index and tag are a line's bits, parted at the tag's offset.            *)
LEMMA LineIsSetAndTag ==
  ASSUME PowersOfTwo, NEW a \in Addrs, NEW b \in Addrs
  PROVE  SameLine(a, b) <=> SetIndex(a) = SetIndex(b) /\ SameTag(a, b)
<1> DEFINE o == Log2(LineSize)
           s == Log2(NumSets)
<1>1. o \in Nat /\ s \in Nat
  BY LogType, CacheAssumption
<1>2. Mask(LineSize) = 0 .. o - 1 /\ Mask(NumSets) = 0 .. s - 1
  BY DEF PowersOfTwo
<1> HIDE DEF o, s
<1>3. ASSUME NEW c \in Addrs
      PROVE  /\ LineOf[c] = {k \in c : k >= o}
             /\ SetIndex(c) = {k \in c : k >= o /\ k < o + s}
             /\ Tag(c) = {k \in c : k >= o + s}
  <2>1. \A k \in c : k \in Nat
    BY CacheAssumption
  <2>2. LineOf[c] = {k \in c : k >= o}
    BY <1>1, <1>2, <2>1 DEF LineOf
  <2>3. SetIndex(c) = {k \in c : k >= o /\ k - o \in 0 .. s - 1}
    BY <1>2 DEF SetIndex, IndexOffset, IndexMask, o
  <2>4. Tag(c) = {k \in c : k >= s + o}
    BY DEF Tag, TagOffset, IndexOffset, o, s
  <2>5. \A k \in c : k >= o /\ k - o \in 0 .. s - 1 <=> k >= o /\ k < o + s
    BY <1>1, <2>1
  <2> QED BY <1>1, <2>1, <2>2, <2>3, <2>4, <2>5
<1>4. \A c \in Addrs : LineOf[c] = SetIndex(c) \cup Tag(c)
  <2>1. \A k \in Nat : k >= o <=> (k >= o /\ k < o + s) \/ k >= o + s
    BY <1>1
  <2>2. \A c \in Addrs : \A k \in c : k \in Nat
    BY CacheAssumption
  <2> QED BY <1>3, <2>1, <2>2
<1>5. \A c \in Addrs : /\ SetIndex(c) = {k \in LineOf[c] : k >= o /\ k < o + s}
                       /\ Tag(c) = {k \in LineOf[c] : k >= o + s}
  <2>1. \A k \in Nat : k >= o + s => k >= o
    BY <1>1
  <2>2. \A c \in Addrs : \A k \in c : k \in Nat
    BY CacheAssumption
  <2> QED BY <1>3, <2>1, <2>2
<1> QED BY <1>4, <1>5 DEF SameLine, SameTag

LEMMA LineHasSet ==
  ASSUME PowersOfTwo, NEW a \in Addrs, NEW b \in Addrs, LineOf[a] = LineOf[b]
  PROVE  SetIndex(a) = SetIndex(b)
BY LineIsSetAndTag DEF SameLine

LEMMA HeldFacts ==
  ASSUME CacheTypes, SetsOK
  PROVE  /\ Held \in SUBSET Lines
         /\ \A v, w \in Held : LineOf[v.addr] = LineOf[w.addr] => v = w
         /\ \A a \in Addrs : \A w \in Held :
              LineOf[w.addr] = LineOf[a] => w \in Range(SetFor(a))
         /\ \A a \in Addrs : Range(SetFor(a)) \in SUBSET Held
<1>1. \A i \in DOMAIN sets : sets[i] \in Seq(Lines) /\ Range(sets[i]) \in SUBSET Lines
  <2> SUFFICES ASSUME NEW i \in DOMAIN sets
               PROVE  sets[i] \in Seq(Lines) /\ Range(sets[i]) \in SUBSET Lines
    OBVIOUS
  <2>1. sets[i] \in Seq(Lines)
    BY DEF CacheTypes
  <2> QED BY <2>1, RangeType
<1>2. Held \in SUBSET Lines
  BY <1>1 DEF Held
<1>3. \A w \in Held : w \in Range(sets[SetIndex(w.addr)])
  BY DEF Held, SetsOK
<1>4. ASSUME NEW v \in Held, NEW w \in Held, LineOf[v.addr] = LineOf[w.addr]
      PROVE  v = w
  <2> DEFINE i == SetIndex(v.addr)
  <2>1. SetIndex(w.addr) = i
    BY <1>2, <1>4, LineHasSet DEF Lines, SetsOK
  <2>2. v \in Range(sets[i]) /\ w \in Range(sets[i]) /\ i \in DOMAIN sets
    <3>1. v.addr \in Addrs
      BY <1>2 DEF Lines
    <3>2. i \in DOMAIN sets
      BY <3>1, SetIndexType DEF CacheTypes
    <3> QED BY <1>3, <2>1, <3>2
  <2> HIDE DEF i
  <2>3. PICK j \in DOMAIN sets[i] : sets[i][j] = v
    BY <2>2 DEF Range
  <2>4. PICK k \in DOMAIN sets[i] : sets[i][k] = w
    BY <2>2 DEF Range
  <2>5. j = k
    BY <1>4, <2>2, <2>3, <2>4 DEF SetsOK, Distinct, SameLine
  <2> QED BY <2>3, <2>4, <2>5
<1>5. ASSUME NEW a \in Addrs
      PROVE  /\ \A w \in Held : LineOf[w.addr] = LineOf[a] => w \in Range(SetFor(a))
             /\ Range(SetFor(a)) \in SUBSET Held
  <2>1. SetIndex(a) \in DOMAIN sets
    BY SetIndexType DEF CacheTypes
  <2>2. Range(SetFor(a)) \in SUBSET Held
    BY <2>1 DEF SetFor, Held
  <2>3. ASSUME NEW w \in Held, LineOf[w.addr] = LineOf[a] PROVE SetIndex(w.addr) = SetIndex(a)
    BY <1>2, <2>3, LineHasSet DEF Lines, SetsOK
  <2> QED BY <1>3, <2>2, <2>3 DEF SetFor
<1> QED BY <1>2, <1>4, <1>5

(* The way of a line holds it; without one the cache does not hold it.     *)
LEMMA WayFacts ==
  ASSUME CacheTypes, SetsOK, NEW a \in Addrs
  PROVE  /\ SetFor(a) \in Seq(Lines) /\ SetIndex(a) \in DOMAIN sets
         /\ Way(a) # 0 =>
              /\ Way(a) \in DOMAIN SetFor(a)
              /\ SetFor(a)[Way(a)] \in Held /\ LineOf[SetFor(a)[Way(a)].addr] = LineOf[a]
         /\ Way(a) = 0 => \A w \in Held : LineOf[w.addr] # LineOf[a]
<1> DEFINE q == SetFor(a)
           T == {i \in 1 .. Len(q) : SameTag(q[i].addr, a)}
<1>1. q \in Seq(Lines) /\ SetIndex(a) \in DOMAIN sets
  BY SetIndexType DEF CacheTypes, SetFor
<1>2. Len(q) \in Nat /\ DOMAIN q = 1 .. Len(q)
  BY <1>1, LenProperties
<1>3. Way(a) = IF T # {} THEN Min(T) ELSE 0
  BY DEF Way, SelectInSeq
<1>a. \A i \in 1 .. Len(q) : SameTag(q[i].addr, a) <=> SameLine(q[i].addr, a)
  <2> SUFFICES ASSUME NEW i \in 1 .. Len(q) PROVE SameTag(q[i].addr, a) <=> SameLine(q[i].addr, a)
    OBVIOUS
  <2>1. q[i] \in Range(sets[SetIndex(a)])
    BY <1>2 DEF SetFor, Range
  <2>2. SetIndex(q[i].addr) = SetIndex(a)
    BY <1>1, <2>1 DEF SetsOK
  <2>3. q[i].addr \in Addrs
    <3> HIDE DEF q
    <3>1. q[i] \in Lines
      BY <1>1, <1>2, ElementOfSeq
    <3> QED BY <3>1 DEF Lines
  <2> QED BY <2>2, <2>3, LineIsSetAndTag DEF SetsOK
<1> HIDE DEF q
<1>4. T \in SUBSET (1 .. Len(q))
  OBVIOUS
<1>5. (Way(a) = 0 <=> T = {}) /\ (Way(a) # 0 => Way(a) \in T)
  <2> HIDE DEF T
  <2> QED BY <1>2, <1>3, <1>4, FirstPosition
<1>6. ASSUME Way(a) # 0
      PROVE  Way(a) \in DOMAIN q /\ q[Way(a)] \in Held /\ LineOf[q[Way(a)].addr] = LineOf[a]
  <2>1. Way(a) \in DOMAIN q /\ SameLine(q[Way(a)].addr, a)
    BY <1>2, <1>5, <1>6, <1>a
  <2>2. q[Way(a)] \in Range(SetFor(a))
    BY <2>1 DEF Range, q
  <2> QED BY <2>1, <2>2, HeldFacts DEF SameLine
<1>7. ASSUME Way(a) = 0, NEW w \in Held, LineOf[w.addr] = LineOf[a]
      PROVE  FALSE
  <2>1. w \in Range(SetFor(a))
    BY <1>7, HeldFacts
  <2>2. PICK k \in 1 .. Len(q) : q[k] = w
    BY <1>2, <2>1 DEF Range, q
  <2>3. k \in T
    BY <1>7, <1>a, <2>2 DEF SameLine
  <2> QED BY <1>5, <1>7, <2>3
<1> QED BY <1>1, <1>6, <1>7 DEF q

LEMMA MSHRFacts ==
  ASSUME CacheTypes, NEW a \in Addrs
  PROVE  /\ InFlight = {LineOf[mshrs[m]] : m \in DOMAIN mshrs}
         /\ MSHR(a) = 0 <=> LineOf[a] \notin InFlight
         /\ MSHR(a) # 0 => MSHR(a) \in DOMAIN mshrs /\ LineOf[mshrs[MSHR(a)]] = LineOf[a]
<1> DEFINE T == {i \in 1 .. Len(mshrs) : SameLine(mshrs[i], a)}
<1>1. Len(mshrs) \in Nat /\ DOMAIN mshrs = 1 .. Len(mshrs)
  BY LenProperties DEF CacheTypes
<1>2. MSHR(a) = IF T # {} THEN Min(T) ELSE 0
  BY DEF MSHR, SelectInSeq
<1>3. T \in SUBSET (1 .. Len(mshrs))
  OBVIOUS
<1>4. (MSHR(a) = 0 <=> T = {}) /\ (MSHR(a) # 0 => MSHR(a) \in T)
  <2> HIDE DEF T
  <2> QED BY <1>1, <1>2, <1>3, FirstPosition
<1>5. InFlight = {LineOf[mshrs[m]] : m \in DOMAIN mshrs}
  BY DEF InFlight, Range
<1> QED BY <1>1, <1>4, <1>5 DEF SameLine

(* The address of an MSHR is in the same set as those that find it.        *)
LEMMA IteratorFacts ==
  ASSUME CacheTypes, SetsOK, NEW a \in Addrs, MSHR(a) # 0
  PROVE  /\ mshrs[MSHR(a)] \in Addrs /\ LineOf[mshrs[MSHR(a)]] = LineOf[a]
         /\ SetIndex(mshrs[MSHR(a)]) = SetIndex(a)
<1>1. MSHR(a) \in DOMAIN mshrs /\ LineOf[mshrs[MSHR(a)]] = LineOf[a]
  BY MSHRFacts
<1>2. mshrs[MSHR(a)] \in Addrs
  BY <1>1, ElementOfSeq, LenProperties DEF CacheTypes
<1> QED BY <1>1, <1>2, LineHasSet DEF SetsOK

(* The iterator of the MSHR of a line points to the line.                  *)
LEMMA FetchingFacts ==
  ASSUME CacheTypes, SetsOK, Locked, Placed, NEW a \in Addrs, LineOf[a] \in InFlight
  PROVE  /\ Fetching(a) # 0 /\ Fetching(a) \in DOMAIN SetFor(a)
         /\ SetFor(a)[Fetching(a)] \in Held /\ LineOf[SetFor(a)[Fetching(a)].addr] = LineOf[a]
<1> DEFINE q == SetFor(a)
           T == {i \in 1 .. Len(q) : SameLine(q[i].addr, a) /\ ~q[i].ready}
<1>1. q \in Seq(Lines)
  BY SetIndexType DEF CacheTypes, SetFor
<1>2. Len(q) \in Nat /\ DOMAIN q = 1 .. Len(q)
  BY <1>1, LenProperties
<1>3. Fetching(a) = IF T # {} THEN Min(T) ELSE 0
  BY DEF Fetching, SelectInSeq
<1>4. PICK w \in Held : LineOf[w.addr] = LineOf[a]
  BY DEF Placed
<1>5. ~w.ready /\ w \in Range(q)
  BY <1>4, HeldFacts DEF Locked
<1> HIDE DEF q
<1>6. PICK k \in 1 .. Len(q) : q[k] = w
  BY <1>2, <1>5 DEF Range
<1>7. k \in T
  BY <1>4, <1>5, <1>6 DEF SameLine
<1>8. T \in SUBSET (1 .. Len(q))
  OBVIOUS
<1>9. Fetching(a) \in T
  <2> HIDE DEF T
  <2> QED BY <1>2, <1>3, <1>7, <1>8, FirstPosition
<1>10. Fetching(a) \in 1 .. Len(q) /\ LineOf[q[Fetching(a)].addr] = LineOf[a]
  BY <1>9 DEF SameLine
<1>11. q[Fetching(a)] \in Range(SetFor(a))
  BY <1>2, <1>10 DEF Range, q
<1>12. q[Fetching(a)] \in Held
  BY <1>11, HeldFacts
<1> QED BY <1>2, <1>10, <1>12 DEF q

(* A line that is neither hit nor fetched is not held, nor is its tag.     *)
LEMMA NewTag ==
  ASSUME CacheTypes, SetsOK, Locked, NEW a \in Addrs, HitWay(a) = 0, MSHR(a) = 0
  PROVE  Way(a) = 0 /\ \A w \in Held : LineOf[w.addr] # LineOf[a]
<1>1. LineOf[a] \notin InFlight
  BY MSHRFacts
<1>2. CASE Way(a) # 0
  <2>1. SetFor(a)[Way(a)] \in Held /\ LineOf[SetFor(a)[Way(a)].addr] = LineOf[a]
    BY <1>2, WayFacts
  <2>2. SetFor(a)[Way(a)].ready
    BY <1>1, <2>1 DEF Locked
  <2> QED BY <1>2, <2>2 DEF HitWay
<1> QED BY <1>2, WayFacts

LEMMA VictimFacts ==
  ASSUME CacheTypes, NEW a \in Addrs, Victim(a) # 0
  PROVE  Victim(a) \in DOMAIN SetFor(a) /\ SetFor(a)[Victim(a)].ready
<1> DEFINE q == SetFor(a)
           T == {i \in 1 .. Len(q) : q[i].ready}
<1>1. q \in Seq(Lines)
  BY SetIndexType DEF CacheTypes, SetFor
<1>2. Len(q) \in Nat /\ DOMAIN q = 1 .. Len(q)
  BY <1>1, LenProperties
<1>3. Victim(a) = IF T # {} THEN Min(T) ELSE 0
  BY DEF Victim, SelectInSeq
<1> HIDE DEF q
<1>4. T \in SUBSET (1 .. Len(q))
  OBVIOUS
<1>5. Victim(a) \in T
  <2> HIDE DEF T
  <2> QED BY <1>2, <1>3, <1>4, FirstPosition
<1> QED BY <1>2, <1>5 DEF q

-----------------------------------------------------------------------------
(* What the operations make of a set: a line appended, dropped, changed.   *)

LEMMA LineAdded ==
  ASSUME NEW q \in Seq(Lines), Distinct(q), NEW e \in Lines,
         \A w \in Range(q) : LineOf[w.addr] # LineOf[e.addr]
  PROVE  /\ Append(q, e) \in Seq(Lines) /\ Len(Append(q, e)) = Len(q) + 1
         /\ Distinct(Append(q, e)) /\ Range(Append(q, e)) = Range(q) \cup {e}
<1> DEFINE a == Append(q, e)
<1>1. /\ a \in Seq(Lines) /\ Len(a) = Len(q) + 1
      /\ (\A k \in 1 .. Len(q) : a[k] = q[k]) /\ a[Len(q) + 1] = e
  BY AppendProperties
<1>2. Range(a) = Range(q) \cup {e}
  BY RangeAppend
<1> HIDE DEF a
<1>3. Len(q) \in Nat /\ DOMAIN q = 1 .. Len(q) /\ DOMAIN a = 1 .. Len(q) + 1
  BY <1>1, LenProperties
<1>4. \A k \in 1 .. Len(q) : LineOf[q[k].addr] # LineOf[e.addr]
  BY <1>3 DEF Range
<1>5. Distinct(a)
  <2> SUFFICES ASSUME NEW j \in 1 .. Len(q) + 1, NEW k \in 1 .. Len(q) + 1,
                      LineOf[a[j].addr] = LineOf[a[k].addr]
               PROVE  j = k
    BY <1>3 DEF Distinct, SameLine
  <2>1. CASE j \in 1 .. Len(q) /\ k \in 1 .. Len(q)
    BY <1>1, <1>3, <2>1 DEF Distinct, SameLine
  <2>2. CASE j = Len(q) + 1 /\ k \in 1 .. Len(q)
    BY <1>1, <1>4, <2>2
  <2>3. CASE k = Len(q) + 1 /\ j \in 1 .. Len(q)
    BY <1>1, <1>4, <2>3
  <2> QED BY <1>3, <2>1, <2>2, <2>3
<1> QED BY <1>1, <1>2, <1>5 DEF a

LEMMA LineDropped ==
  ASSUME NEW q \in Seq(Lines), Distinct(q), NEW k \in DOMAIN q
  PROVE  /\ RemoveAt(q, k) \in Seq(Lines) /\ Len(RemoveAt(q, k)) = Len(q) - 1
         /\ Distinct(RemoveAt(q, k))
         /\ Range(RemoveAt(q, k)) = {w \in Range(q) : LineOf[w.addr] # LineOf[q[k].addr]}
<1> DEFINE d == RemoveAt(q, k)
<1>1. d \in Seq(Lines) /\ Len(d) = Len(q) - 1
  BY RemoveAtProperties
<1>2. /\ \A j \in DOMAIN d : \E m \in DOMAIN q : m # k /\ d[j] = q[m]
      /\ \A m \in DOMAIN q \ {k} : \E j \in DOMAIN d : d[j] = q[m]
      /\ \A i, j \in DOMAIN d : i # j =>
           \E m, n \in DOMAIN q : m # k /\ n # k /\ m # n /\ d[i] = q[m] /\ d[j] = q[n]
  BY RemoveAtElements
<1> HIDE DEF d
<1>3. Distinct(d)
  <2> SUFFICES ASSUME NEW i \in DOMAIN d, NEW j \in DOMAIN d, i # j
               PROVE  LineOf[d[i].addr] # LineOf[d[j].addr]
    BY DEF Distinct, SameLine
  <2>1. PICK m, n \in DOMAIN q : m # n /\ d[i] = q[m] /\ d[j] = q[n]
    BY <1>2
  <2> QED BY <2>1 DEF Distinct, SameLine
<1>4. Range(d) = {w \in Range(q) : LineOf[w.addr] # LineOf[q[k].addr]}
  <2>1. \A m \in DOMAIN q : m # k <=> LineOf[q[m].addr] # LineOf[q[k].addr]
    BY DEF Distinct, SameLine
  <2> QED BY <1>2, <2>1 DEF Range
<1> QED BY <1>1, <1>3, <1>4 DEF d

LEMMA LineChanged ==
  ASSUME NEW q \in Seq(Lines), Distinct(q), NEW k \in DOMAIN q, NEW e \in Lines,
         LineOf[e.addr] = LineOf[q[k].addr]
  PROVE  LET n == [q EXCEPT ![k] = e]
         IN  /\ n \in Seq(Lines) /\ Len(n) = Len(q) /\ Distinct(n)
             /\ Range(n) = {w \in Range(q) : LineOf[w.addr] # LineOf[q[k].addr]} \cup {e}
<1> DEFINE n == [q EXCEPT ![k] = e]
<1>1. DOMAIN q = 1 .. Len(q)
  BY LenProperties
<1>2. /\ n \in Seq(Lines) /\ Len(n) = Len(q)
      /\ \A j \in DOMAIN q : n[j] = IF j = k THEN e ELSE q[j]
  BY <1>1, ExceptSeq
<1>3. DOMAIN n = DOMAIN q
  BY <1>1, <1>2, LenProperties
<1> HIDE DEF n
<1>4. \A j \in DOMAIN q : LineOf[n[j].addr] = LineOf[q[j].addr]
  BY <1>2
<1>5. Distinct(n)
  BY <1>3, <1>4 DEF Distinct, SameLine
<1>6. Range(n) = {w \in Range(q) : LineOf[w.addr] # LineOf[q[k].addr]} \cup {e}
  <2>1. \A m \in DOMAIN q : m # k <=> LineOf[q[m].addr] # LineOf[q[k].addr]
    BY DEF Distinct, SameLine
  <2> QED BY <1>2, <1>3, <2>1 DEF Range
<1> QED BY <1>2, <1>5, <1>6 DEF n

(* Every address of a line has one and the same set.                       *)
InSet(g, i) == \A b \in Addrs : LineOf[b] = g => SetIndex(b) = i

LEMMA LineInSet ==
  ASSUME PowersOfTwo, NEW a \in Addrs
  PROVE  InSet(LineOf[a], SetIndex(a))
BY LineHasSet DEF InSet

(* One set changes: the line g goes out of the cache and e comes in.       *)
Exchange(g, e) == Held' = {w \in Held : LineOf[w.addr] # g} \cup {e}

LEMMA SetChanged ==
  ASSUME CacheTypes, SetsOK, NEW i \in DOMAIN sets, NEW n \in Seq(Lines), NEW g, NEW e \in Lines,
         sets' = [sets EXCEPT ![i] = n],
         Len(n) <= Associativity, Distinct(n), SetIndex(e.addr) = i,
         InSet(g, i),
         Range(n) = {w \in Range(sets[i]) : LineOf[w.addr] # g} \cup {e}
  PROVE  /\ sets' \in [Indices -> Seq(Lines)]
         /\ SetsOK'
         /\ Exchange(g, e)
<1>1. DOMAIN sets = Indices /\ sets' \in [Indices -> Seq(Lines)]
  BY DEF CacheTypes
<1>2. \A j \in DOMAIN sets : sets'[j] = IF j = i THEN n ELSE sets[j]
  OBVIOUS
<1>3. DOMAIN sets' = DOMAIN sets
  OBVIOUS
<1>4. SetsOK'
  <2> SUFFICES ASSUME NEW j \in DOMAIN sets
               PROVE  /\ Len(sets'[j]) <= Associativity /\ Distinct(sets'[j])
                      /\ \A w \in Range(sets'[j]) : SetIndex(w.addr) = j
    BY <1>3 DEF SetsOK, Distinct, SameLine
  <2>1. CASE j = i
    BY <1>2, <2>1 DEF SetsOK
  <2>2. CASE j # i
    BY <1>2, <2>2 DEF SetsOK
  <2> QED BY <2>1, <2>2
<1>5. \A j \in DOMAIN sets : j # i => \A w \in Range(sets[j]) : LineOf[w.addr] # g
  <2>1. \A j \in DOMAIN sets : \A w \in Range(sets[j]) : w.addr \in Addrs
    BY HeldFacts DEF Held, Lines
  <2> QED BY <2>1 DEF SetsOK, InSet
<1>6. \A w : w \in Held' <=> \E j \in DOMAIN sets : w \in Range(sets'[j])
  BY <1>3 DEF Held
<1>7. \A w : w \in Held <=> \E j \in DOMAIN sets : w \in Range(sets[j])
  BY DEF Held
<1>8. \A w : w \in Held' <=> (w \in Held /\ LineOf[w.addr] # g) \/ w = e
  <2>1. ASSUME NEW w, NEW j \in DOMAIN sets, w \in Range(sets'[j])
        PROVE  (w \in Held /\ LineOf[w.addr] # g) \/ w = e
    BY <1>2, <1>5, <1>7, <2>1
  <2>2. ASSUME NEW w, NEW j \in DOMAIN sets, w \in Range(sets[j]), LineOf[w.addr] # g
        PROVE  w \in Range(sets'[j])
    BY <1>2, <2>2
  <2>3. e \in Range(sets'[i])
    BY <1>2
  <2> QED BY <1>6, <1>7, <2>1, <2>2, <2>3
<1> QED BY <1>1, <1>4, <1>8 DEF Exchange

-----------------------------------------------------------------------------
(* The invariant of the cache.                                             *)
CacheOK ==
  /\ CacheTypes /\ SetsOK /\ MshrsOK /\ Locked /\ Placed /\ OnTheirWay
  /\ unwritten = DirtyLines

LEMMA CacheInit == PowersOfTwo /\ Init => CacheOK
<1> SUFFICES ASSUME PowersOfTwo, Init PROVE CacheOK
  OBVIOUS
<1> USE DEF Init, LLCInit
<1>1. \A S : <<>> \in Seq(S) /\ Len(<<>>) = 0 /\ Range(<<>>) = {}
  BY EmptySeq DEF Range
<1>2. CacheTypes
  BY <1>1 DEF CacheTypes
<1>3. Held = {} /\ InFlight = {}
  BY <1>1 DEF Held, InFlight
<1>4. SetsOK
  BY <1>1, CacheAssumption DEF SetsOK, Distinct
<1>5. MshrsOK
  BY <1>1, CacheAssumption DEF MshrsOK
<1>6. OnTheirWay
  BY <1>1 DEF OnTheirWay
<1> QED BY <1>2, <1>3, <1>4, <1>5, <1>6 DEF CacheOK, Locked, Placed, DirtyLines

(* A list that only grows leaves nothing to write back.                    *)
LEMMA NothingWrittenBack ==
  ASSUME misses' = misses
  PROVE  WrittenBack = {}
BY DEF WrittenBack

LEMMA HitKeepsCache ==
  ASSUME CacheOK, NEW r \in Requests, Hit(r), memory' = memory,
         unwritten' = (unwritten \ WrittenBack) \cup (IF r.type = "Write" THEN {LineOf[r.addr]} ELSE {})
  PROVE  CacheOK'
<1> DEFINE a == r.addr
           i == SetIndex(a)
           k == Way(a)
           q == sets[i]
           e == [addr |-> a, dirty |-> q[k].dirty \/ r.type = "Write", ready |-> TRUE]
           n == RemoveAt(Append(q, e), k)
<1>1. /\ a \in Addrs /\ CacheTypes /\ SetsOK /\ r.core \in Cores
  BY DEF Requests, CacheOK
<1>2. /\ k # 0 /\ q[k].ready
      /\ sets' = [sets EXCEPT ![i] = n]
      /\ hits' = Append(hits, [due |-> Latency, core |-> r.core, addr |-> a])
      /\ UNCHANGED <<mshrs, waiting, misses>>
  BY DEF Hit, HitWay, SetFor
<1>3. /\ i \in DOMAIN sets /\ q \in Seq(Lines) /\ k \in DOMAIN q
      /\ q[k] \in Held /\ LineOf[q[k].addr] = LineOf[a]
  BY <1>1, <1>2, WayFacts DEF SetFor
<1>4. q[k] \in Lines
  BY <1>1, <1>3, HeldFacts
<1>5. e \in Lines /\ e.addr = a /\ e.ready /\ e.dirty = (q[k].dirty \/ r.type = "Write")
  BY <1>1, <1>4 DEF Lines
<1> HIDE DEF e
<1>6. Distinct(q) /\ Len(q) <= Associativity
  BY <1>1, <1>3 DEF SetsOK
<1>7. /\ n \in Seq(Lines) /\ Len(n) = Len(q) /\ Distinct(n)
      /\ Range(n) = {w \in Range(q) : LineOf[w.addr] # LineOf[a]} \cup {e}
  <2> DEFINE d == RemoveAt(q, k)
  <2>1. /\ d \in Seq(Lines) /\ Len(d) = Len(q) - 1 /\ Distinct(d)
        /\ Range(d) = {w \in Range(q) : LineOf[w.addr] # LineOf[a]}
    BY <1>3, <1>6, LineDropped
  <2>2. n = Append(d, e)
    BY <1>3, <1>5, RemoveAtAppend
  <2> HIDE DEF d, n
  <2>3. \A w \in Range(d) : LineOf[w.addr] # LineOf[e.addr]
    BY <1>5, <2>1
  <2>4. /\ n \in Seq(Lines) /\ Len(n) = Len(d) + 1 /\ Distinct(n)
        /\ Range(n) = Range(d) \cup {e}
    BY <1>5, <2>1, <2>2, <2>3, LineAdded
  <2>5. Len(q) \in Nat
    BY <1>3, LenProperties
  <2> QED BY <2>1, <2>4, <2>5
<1> HIDE DEF n
<1>8. /\ sets' \in [Indices -> Seq(Lines)] /\ SetsOK' /\ Exchange(LineOf[a], e)
  <2>1. InSet(LineOf[a], i)
    BY <1>1, LineInSet DEF SetsOK
  <2> QED BY <1>1, <1>2, <1>3, <1>5, <1>6, <1>7, <2>1, SetChanged
<1>9. CacheTypes'
  <2>1. hits' \in Seq(Hits)
    <3>1. [due |-> Latency, core |-> r.core, addr |-> a] \in Hits
      BY <1>1, CacheAssumption DEF Hits
    <3>2. hits \in Seq(Hits)
      BY <1>1 DEF CacheTypes
    <3> QED BY <1>2, <3>1, <3>2, AppendProperties
  <2> QED BY <1>1, <1>2, <1>8, <2>1 DEF CacheTypes
<1>10. MshrsOK' /\ OnTheirWay' /\ InFlight' = InFlight
  BY <1>2 DEF CacheOK, MshrsOK, OnTheirWay, InFlight, SameLine
<1>11. LineOf[a] \notin InFlight
  BY <1>2, <1>3 DEF CacheOK, Locked
<1>12. Locked'
  BY <1>5, <1>8, <1>10, <1>11 DEF CacheOK, Locked, Exchange
<1>13. Placed'
  BY <1>8, <1>10, <1>11 DEF CacheOK, Placed, Exchange
<1>14. unwritten' = DirtyLines'
  <2>1. WrittenBack = {} /\ unwritten = DirtyLines
    BY <1>2, NothingWrittenBack DEF CacheOK
  <2>2. \A w \in Held : LineOf[w.addr] = LineOf[a] => w = q[k]
    BY <1>1, <1>3, HeldFacts
  <2>3. DirtyLines' = (DirtyLines \ {LineOf[a]}) \cup (IF e.dirty THEN {LineOf[a]} ELSE {})
    BY <1>5, <1>8 DEF DirtyLines, Exchange
  <2>4. LineOf[a] \in DirtyLines <=> q[k].dirty
    BY <1>3, <2>2 DEF DirtyLines
  <2> QED BY <1>5, <2>1, <2>3, <2>4
<1> QED BY <1>8, <1>9, <1>10, <1>12, <1>13, <1>14 DEF CacheOK

LEMMA MergeKeepsCache ==
  ASSUME CacheOK, NEW r \in Requests, Merge(r), memory' = memory,
         unwritten' = (unwritten \ WrittenBack) \cup (IF r.type = "Write" THEN {LineOf[r.addr]} ELSE {})
  PROVE  CacheOK'
<1> DEFINE a == r.addr
           m == MSHR(a)
           f == mshrs[m]
           i == SetIndex(f)
           k == Fetching(f)
           q == sets[i]
           e == [q[k] EXCEPT !.dirty = q[k].dirty \/ r.type = "Write"]
           n == [q EXCEPT ![k] = e]
<1>1. /\ a \in Addrs /\ CacheTypes /\ SetsOK /\ Locked /\ Placed /\ r.core \in Cores
  BY DEF Requests, CacheOK
<1>2. /\ m # 0
      /\ waiting' = [waiting EXCEPT ![mshrs[m]] = Append(@, [core |-> r.core, addr |-> a])]
      /\ sets' = [sets EXCEPT ![i] = n]
      /\ UNCHANGED <<mshrs, misses, hits>>
  BY DEF Merge
<1>3. LineOf[a] \in InFlight /\ m \in DOMAIN mshrs
  BY <1>1, <1>2, MSHRFacts
<1>4. f \in Addrs /\ LineOf[f] = LineOf[a] /\ i = SetIndex(a)
  BY <1>1, <1>2, IteratorFacts
<1>5. /\ i \in DOMAIN sets /\ q \in Seq(Lines) /\ k \in DOMAIN q
      /\ q[k] \in Held /\ LineOf[q[k].addr] = LineOf[a]
  <2>1. /\ k \in DOMAIN SetFor(f) /\ SetFor(f)[k] \in Held
        /\ LineOf[SetFor(f)[k].addr] = LineOf[a]
    BY <1>1, <1>3, <1>4, FetchingFacts
  <2>2. SetFor(f) \in Seq(Lines) /\ i \in DOMAIN sets
    BY <1>1, <1>4, WayFacts
  <2> QED BY <2>1, <2>2 DEF SetFor
<1>6. q[k] \in Lines
  BY <1>1, <1>5, HeldFacts
<1>7. /\ e \in Lines /\ e.addr = q[k].addr /\ e.ready = q[k].ready
      /\ e.dirty = (q[k].dirty \/ r.type = "Write")
  BY <1>6 DEF Lines
<1> HIDE DEF e
<1>8. Distinct(q) /\ Len(q) <= Associativity /\ SetIndex(q[k].addr) = i
  BY <1>1, <1>5 DEF SetsOK, Range
<1>9. /\ n \in Seq(Lines) /\ Len(n) = Len(q) /\ Distinct(n)
      /\ Range(n) = {w \in Range(q) : LineOf[w.addr] # LineOf[a]} \cup {e}
  BY <1>5, <1>7, <1>8, LineChanged
<1> HIDE DEF n
<1>10. /\ sets' \in [Indices -> Seq(Lines)] /\ SetsOK' /\ Exchange(LineOf[a], e)
  <2>1. InSet(LineOf[a], i)
    BY <1>1, <1>4, LineInSet DEF SetsOK
  <2>2. SetIndex(e.addr) = i
    BY <1>7, <1>8
  <2> QED BY <1>1, <1>2, <1>5, <1>7, <1>8, <1>9, <2>1, <2>2, SetChanged
<1>11. CacheTypes'
  <2>1. waiting' \in [Addrs -> Seq(Waiters)]
    <3> DEFINE b == mshrs[m]
               w == [core |-> r.core, addr |-> a]
    <3>1. b \in Addrs
      <4>1. mshrs \in Seq(Addrs)
        BY <1>1 DEF CacheTypes
      <4> QED BY <1>3, <4>1, ElementOfSeq, LenProperties
    <3>2. w \in Waiters /\ waiting \in [Addrs -> Seq(Waiters)]
      BY <1>1 DEF Waiters, CacheTypes
    <3> HIDE DEF b, w
    <3>3. Append(waiting[b], w) \in Seq(Waiters)
      BY <3>1, <3>2, AppendProperties
    <3>4. waiting' = [waiting EXCEPT ![b] = Append(waiting[b], w)]
      BY <1>2 DEF b, w
    <3> QED BY <3>2, <3>3, <3>4
  <2> QED BY <1>1, <1>2, <1>10, <2>1 DEF CacheTypes
<1>12. MshrsOK' /\ OnTheirWay' /\ InFlight' = InFlight
  BY <1>2 DEF CacheOK, MshrsOK, OnTheirWay, InFlight, SameLine
<1>13. Locked'
  BY <1>5, <1>7, <1>10, <1>12 DEF CacheOK, Locked, Exchange
<1>14. Placed'
  <2>1. \A w \in Held : \E v \in Held' : LineOf[v.addr] = LineOf[w.addr]
    BY <1>5, <1>7, <1>10 DEF Exchange
  <2> QED BY <1>12, <2>1 DEF CacheOK, Placed
<1>15. unwritten' = DirtyLines'
  <2>1. WrittenBack = {} /\ unwritten = DirtyLines
    BY <1>2, NothingWrittenBack DEF CacheOK
  <2>2. \A w \in Held : LineOf[w.addr] = LineOf[a] => w = q[k]
    BY <1>1, <1>5, HeldFacts
  <2>3. DirtyLines' = (DirtyLines \ {LineOf[a]}) \cup (IF e.dirty THEN {LineOf[a]} ELSE {})
    BY <1>5, <1>7, <1>10 DEF DirtyLines, Exchange
  <2>4. LineOf[a] \in DirtyLines <=> q[k].dirty
    BY <1>5, <2>2 DEF DirtyLines
  <2> QED BY <1>7, <2>1, <2>3, <2>4
<1> QED BY <1>10, <1>11, <1>12, <1>13, <1>14, <1>15 DEF CacheOK

(* The misses of an allocation: the fetch, after the write-back of a dirty *)
(* victim.                                                                 *)
LEMMA MissesAdded ==
  ASSUME misses \in Seq(Misses), NEW extra \in Seq(Misses), misses' = misses \o extra
  PROVE  /\ misses' \in Seq(Misses) /\ Range(misses') = Range(misses) \cup Range(extra)
         /\ WrittenBack = {LineOf[x.addr] : x \in {y \in Range(extra) : y.type = "Write"}}
<1>1. misses' \in Seq(Misses) /\ Range(misses') = Range(misses) \cup Range(extra)
  BY ConcatProperties, RangeConcat
<1>2. /\ Len(misses) \in Nat /\ Len(extra) \in Nat
      /\ DOMAIN misses = 1 .. Len(misses) /\ DOMAIN extra = 1 .. Len(extra)
  BY LenProperties
<1>3. /\ DOMAIN misses' = 1 .. Len(misses) + Len(extra)
      /\ \A k \in 1 .. Len(misses) + Len(extra) :
           misses'[k] = IF k <= Len(misses) THEN misses[k] ELSE extra[k - Len(misses)]
  <2>1. /\ Len(misses') = Len(misses) + Len(extra)
        /\ \A k \in 1 .. Len(misses) + Len(extra) :
             misses'[k] = IF k <= Len(misses) THEN misses[k] ELSE extra[k - Len(misses)]
    BY ConcatProperties
  <2>2. DOMAIN misses' = 1 .. Len(misses')
    BY <1>1, LenProperties
  <2> QED BY <2>1, <2>2
<1> DEFINE New == DOMAIN misses' \ DOMAIN misses
<1>4. \A k \in New : k - Len(misses) \in DOMAIN extra /\ misses'[k] = extra[k - Len(misses)]
  BY <1>2, <1>3
<1>5. ASSUME NEW j \in DOMAIN extra PROVE \E k \in New : misses'[k] = extra[j]
  <2>1. j + Len(misses) \in New /\ (j + Len(misses)) - Len(misses) = j
    BY <1>2, <1>3
  <2> QED BY <1>4, <2>1
<1> HIDE DEF New
<1>6. {misses'[k] : k \in New} = Range(extra)
  <2>1. ASSUME NEW k \in New PROVE misses'[k] \in Range(extra)
    <3>1. k - Len(misses) \in DOMAIN extra /\ misses'[k] = extra[k - Len(misses)]
      BY <1>4
    <3> QED BY <3>1 DEF Range
  <2>2. ASSUME NEW x \in Range(extra) PROVE \E k \in New : misses'[k] = x
    <3>1. PICK j \in DOMAIN extra : extra[j] = x
      BY DEF Range
    <3> QED BY <1>5, <3>1
  <2> QED BY <2>1, <2>2
<1>7. WrittenBack = {LineOf[x.addr] : x \in {y \in {misses'[k] : k \in New} : y.type = "Write"}}
  BY DEF WrittenBack, New
<1> QED BY <1>1, <1>6, <1>7

LEMMA AllocateKeepsCache ==
  ASSUME CacheOK, NEW r \in Requests, Allocate(r), memory' = memory,
         unwritten' = (unwritten \ WrittenBack) \cup (IF r.type = "Write" THEN {LineOf[r.addr]} ELSE {})
  PROVE  CacheOK'
<1> DEFINE a     == r.addr
           i     == SetIndex(a)
           q     == sets[i]
           full  == Evicts(a)
           v     == Victim(a)
           e     == [addr |-> a, dirty |-> r.type = "Write", ready |-> FALSE]
           back  == [due |-> Latency, addr |-> q[v].addr, type |-> "Write"]
           fetch == [due |-> Latency, addr |-> a, type |-> "Read"]
           extra == IF full /\ q[v].dirty THEN <<back, fetch>> ELSE <<fetch>>
           kept  == IF full THEN RemoveAt(q, v) ELSE q
           n     == Append(kept, e)
           g     == IF full THEN LineOf[q[v].addr] ELSE LineOf[a]
<1>1. /\ a \in Addrs /\ CacheTypes /\ SetsOK /\ r.core \in Cores /\ SetFor(a) = q
  BY DEF Requests, CacheOK, SetFor
<1>2. /\ HitWay(a) = 0 /\ MSHR(a) = 0
      /\ Len(mshrs) # NumMSHRs /\ (full => v # 0)
      /\ mshrs' = Append(mshrs, a)
      /\ waiting' = [waiting EXCEPT ![a] = <<[core |-> r.core, addr |-> a]>>]
      /\ hits' = hits
  BY DEF Allocate, HasRoom, Evicts
<1>3. sets' = [sets EXCEPT ![i] = n] /\ misses' = misses \o extra
  BY DEF Allocate, SetFor
<1>4. i \in DOMAIN sets /\ q \in Seq(Lines)
  BY <1>1, WayFacts
<1>5. Distinct(q) /\ Len(q) <= Associativity /\ \A w \in Range(q) : SetIndex(w.addr) = i
  BY <1>1, <1>4 DEF SetsOK
<1>6. LineOf[a] \notin InFlight
  BY <1>1, <1>2, MSHRFacts
<1>7. Way(a) = 0 /\ \A w \in Held : LineOf[w.addr] # LineOf[a]
  BY <1>1, <1>2, NewTag DEF CacheOK
<1>8. ASSUME full
      PROVE  v \in DOMAIN q /\ q[v] \in Held /\ q[v] \in Lines /\ q[v].ready
  <2>1. v \in DOMAIN q /\ q[v].ready
    BY <1>1, <1>2, <1>8, VictimFacts
  <2>2. q[v] \in Range(q)
    BY <2>1 DEF Range
  <2> QED BY <1>1, <2>1, <2>2, HeldFacts
<1>9. Range(q) \in SUBSET Held
  BY <1>1, HeldFacts
<1>10. e \in Lines /\ e.addr = a /\ e.dirty = (r.type = "Write") /\ ~e.ready
  BY <1>1 DEF Lines
<1> HIDE DEF e, v
<1>11. /\ kept \in Seq(Lines) /\ Distinct(kept) /\ Len(kept) + 1 <= Associativity
       /\ Range(kept) = {w \in Range(q) : LineOf[w.addr] # g}
  <2>1. Len(q) \in Nat /\ Associativity \in Nat /\ (full <=> Len(q) >= Associativity)
    BY <1>1, <1>4, <1>7, LenProperties, CacheAssumption DEF Evicts, IsFull
  <2>2. CASE full
    <3> DEFINE d == RemoveAt(q, v)
    <3>1. /\ d \in Seq(Lines) /\ Len(d) = Len(q) - 1 /\ Distinct(d)
          /\ Range(d) = {w \in Range(q) : LineOf[w.addr] # LineOf[q[v].addr]}
      BY <1>4, <1>5, <1>8, <2>2, LineDropped
    <3> HIDE DEF d
    <3>2. Len(d) + 1 <= Associativity
      BY <1>5, <2>1, <3>1
    <3> QED BY <2>2, <3>1, <3>2 DEF d
  <2>3. CASE ~full
    <3>1. Range(q) = {w \in Range(q) : LineOf[w.addr] # LineOf[a]}
      BY <1>7, <1>9
    <3>2. Len(q) + 1 <= Associativity
      BY <2>1, <2>3
    <3> QED BY <1>4, <1>5, <2>3, <3>1, <3>2
  <2> QED BY <2>2, <2>3
<1> HIDE DEF kept
<1>12. /\ n \in Seq(Lines) /\ Len(n) = Len(kept) + 1 /\ Distinct(n)
       /\ Range(n) = Range(kept) \cup {e}
  <2>1. \A w \in Range(kept) : LineOf[w.addr] # LineOf[e.addr]
    BY <1>7, <1>9, <1>10, <1>11
  <2> QED BY <1>10, <1>11, <2>1, LineAdded
<1> HIDE DEF n
<1>13. /\ (full => g = LineOf[q[v].addr]) /\ (~full => g = LineOf[a])
       /\ InSet(g, i)
  <2>1. CASE full
    <3>1. SetIndex(q[v].addr) = i /\ q[v].addr \in Addrs
      BY <1>5, <1>8, <2>1 DEF Range, Lines
    <3>2. InSet(LineOf[q[v].addr], i)
      BY <1>1, <3>1, LineInSet DEF SetsOK
    <3> QED BY <2>1, <3>2
  <2>2. CASE ~full
    BY <1>1, <2>2, LineInSet DEF SetsOK
  <2> QED BY <2>1, <2>2
<1> HIDE DEF g, full
<1>14. /\ sets' \in [Indices -> Seq(Lines)] /\ SetsOK' /\ Exchange(g, e)
  <2>1. Len(n) <= Associativity /\ SetIndex(e.addr) = i
    BY <1>10, <1>11, <1>12
  <2>2. Range(n) = {w \in Range(q) : LineOf[w.addr] # g} \cup {e}
    BY <1>11, <1>12
  <2> QED BY <1>1, <1>3, <1>4, <1>10, <1>12, <1>13, <2>1, <2>2, SetChanged
<1>15. fetch \in Misses /\ (full => back \in Misses)
  BY <1>1, <1>8, CacheAssumption DEF Misses, Lines
<1>16. /\ extra \in Seq(Misses)
       /\ Range(extra) = IF full /\ q[v].dirty THEN {back, fetch} ELSE {fetch}
  <2> HIDE DEF back, fetch
  <2>1. CASE full /\ q[v].dirty
    <3>1. <<back, fetch>> \in Seq(Misses) /\ Range(<<back, fetch>>) = {back, fetch}
      BY <1>15, <2>1 DEF Range
    <3> QED BY <2>1, <3>1
  <2>2. CASE ~(full /\ q[v].dirty)
    <3>1. <<fetch>> \in Seq(Misses) /\ Range(<<fetch>>) = {fetch}
      BY <1>15 DEF Range
    <3> QED BY <2>2, <3>1
  <2> QED BY <2>1, <2>2
<1> HIDE DEF extra
<1>17. /\ misses' \in Seq(Misses) /\ Range(misses') = Range(misses) \cup Range(extra)
       /\ WrittenBack = {LineOf[x.addr] : x \in {y \in Range(extra) : y.type = "Write"}}
  BY <1>1, <1>3, <1>16, MissesAdded DEF CacheTypes
<1>18. mshrs' \in Seq(Addrs) /\ Len(mshrs') = Len(mshrs) + 1 /\ Range(mshrs') = Range(mshrs) \cup {a}
  BY <1>1, <1>2, AppendProperties, RangeAppend DEF CacheTypes
<1>19. InFlight' = InFlight \cup {LineOf[a]}
  BY <1>18 DEF InFlight
<1>20. CacheTypes'
  <2>1. <<[core |-> r.core, addr |-> a]>> \in Seq(Waiters)
    BY <1>1 DEF Waiters
  <2>2. waiting' \in [Addrs -> Seq(Waiters)]
    BY <1>1, <1>2, <2>1 DEF CacheTypes
  <2> QED BY <1>1, <1>2, <1>14, <1>17, <1>18, <2>2 DEF CacheTypes
<1>21. MshrsOK'
  <2>1. /\ mshrs \in Seq(Addrs) /\ Len(mshrs) \in Nat /\ Len(mshrs) < NumMSHRs /\ NumMSHRs \in Nat
        /\ DOMAIN mshrs = 1 .. Len(mshrs) /\ DOMAIN mshrs' = 1 .. Len(mshrs) + 1
    <3>1. mshrs \in Seq(Addrs) /\ Len(mshrs) <= NumMSHRs /\ NumMSHRs \in Nat
      BY <1>1, CacheAssumption DEF CacheTypes, CacheOK, MshrsOK
    <3>2. Len(mshrs) \in Nat /\ DOMAIN mshrs = 1 .. Len(mshrs)
      BY <3>1, LenProperties
    <3>3. DOMAIN mshrs' = 1 .. Len(mshrs')
      BY <1>18, LenProperties
    <3>4. Len(mshrs) # NumMSHRs
      BY <1>2
    <3>5. Len(mshrs) < NumMSHRs
      <4>1. \A x, y \in Nat : x <= y /\ x # y => x < y
        OBVIOUS
      <4> QED BY ONLY <3>1, <3>2, <3>4, <4>1
    <3> QED BY <1>18, <3>1, <3>2, <3>3, <3>5
  <2>2. (\A k \in 1 .. Len(mshrs) : mshrs'[k] = mshrs[k]) /\ mshrs'[Len(mshrs) + 1] = a
    <3>1. /\ \A k \in 1 .. Len(mshrs) : Append(mshrs, a)[k] = mshrs[k]
          /\ Append(mshrs, a)[Len(mshrs) + 1] = a
      BY <1>1, <2>1, AppendProperties
    <3> QED BY <1>2, <3>1
  <2>3. \A k \in 1 .. Len(mshrs) : LineOf[mshrs[k]] # LineOf[a]
    BY <1>6, <2>1 DEF InFlight, Range
  <2>4. ASSUME NEW j \in DOMAIN mshrs', NEW k \in DOMAIN mshrs', LineOf[mshrs'[j]] = LineOf[mshrs'[k]]
        PROVE  j = k
    <3>1. CASE j \in 1 .. Len(mshrs) /\ k \in 1 .. Len(mshrs)
      BY <2>1, <2>2, <2>4, <3>1 DEF CacheOK, MshrsOK, SameLine
    <3>2. CASE j = Len(mshrs) + 1 /\ k \in 1 .. Len(mshrs)
      BY <2>2, <2>3, <2>4, <3>2
    <3>3. CASE k = Len(mshrs) + 1 /\ j \in 1 .. Len(mshrs)
      BY <2>2, <2>3, <2>4, <3>3
    <3> QED BY <2>1, <3>1, <3>2, <3>3
  <2> QED BY <1>18, <2>1, <2>4 DEF MshrsOK, SameLine
<1>22. Locked'
  BY <1>7, <1>10, <1>14, <1>19 DEF CacheOK, Locked, Exchange
<1>23. Placed'
  <2>1. \A w \in Held : ~w.ready => LineOf[w.addr] # g
    <3>1. CASE full
      <4>1. \A w \in Held : LineOf[w.addr] = g => w = q[v]
        BY <1>1, <1>8, <1>13, <3>1, HeldFacts
      <4> QED BY <1>8, <3>1, <4>1
    <3>2. CASE ~full
      BY <1>7, <1>13, <3>2
    <3> QED BY <3>1, <3>2
  <2>2. ASSUME NEW l \in InFlight PROVE \E w \in Held' : LineOf[w.addr] = l
    <3>1. PICK w \in Held : LineOf[w.addr] = l
      BY DEF CacheOK, Placed
    <3>2. ~w.ready
      BY <3>1 DEF CacheOK, Locked
    <3> QED BY <1>14, <2>1, <3>1, <3>2 DEF Exchange
  <2>3. e \in Held'
    BY <1>14 DEF Exchange
  <2> QED BY <1>10, <1>19, <2>2, <2>3 DEF Placed
<1>24. OnTheirWay'
  <2>1. fetch \in Range(misses') /\ fetch.addr = a /\ fetch.type = "Read"
    BY <1>16, <1>17
  <2> QED BY <1>17, <1>18, <2>1 DEF CacheOK, OnTheirWay
<1>25. unwritten' = DirtyLines'
  <2>1. unwritten = DirtyLines
    BY DEF CacheOK
  <2>2. WrittenBack = IF full /\ q[v].dirty THEN {g} ELSE {}
    <3>1. CASE full /\ q[v].dirty
      <4>1. {y \in Range(extra) : y.type = "Write"} = {back}
        BY <1>16, <3>1
      <4>2. {LineOf[x.addr] : x \in {back}} = {LineOf[q[v].addr]}
        OBVIOUS
      <4>3. g = LineOf[q[v].addr]
        BY <1>13, <3>1
      <4> QED BY <1>17, <3>1, <4>1, <4>2, <4>3, Zenon
    <3>2. CASE ~(full /\ q[v].dirty)
      <4>1. {y \in Range(extra) : y.type = "Write"} = {}
        BY <1>16, <3>2
      <4> QED BY <1>17, <3>2, <4>1
    <3> QED BY <3>1, <3>2
  <2>3. g \in DirtyLines => full /\ q[v].dirty
    <3>1. CASE full
      <4>1. \A w \in Held : LineOf[w.addr] = g => w = q[v]
        BY <1>1, <1>8, <1>13, <3>1, HeldFacts
      <4> QED BY <3>1, <4>1 DEF DirtyLines
    <3>2. CASE ~full
      BY <1>7, <1>13, <3>2 DEF DirtyLines
    <3> QED BY <3>1, <3>2
  <2>4. DirtyLines' = (DirtyLines \ {g}) \cup (IF e.dirty THEN {LineOf[a]} ELSE {})
    BY <1>10, <1>14 DEF DirtyLines, Exchange
  <2> QED BY <1>10, <2>1, <2>2, <2>3, <2>4
<1> QED BY <1>14, <1>20, <1>21, <1>22, <1>23, <1>24, <1>25 DEF CacheOK

LEMMA SameCache ==
  ASSUME UNCHANGED <<sets, mshrs>>
  PROVE  /\ Held' = Held /\ InFlight' = InFlight /\ DirtyLines' = DirtyLines
         /\ SetsOK => SetsOK'
         /\ MshrsOK => MshrsOK'
         /\ Locked => Locked'
         /\ Placed => Placed'
<1>1. Held' = Held /\ InFlight' = InFlight
  BY DEF Held, InFlight
<1>2. DirtyLines' = DirtyLines
  BY <1>1 DEF DirtyLines
<1>3. SetsOK => SetsOK'
  BY DEF SetsOK, Distinct, SameLine
<1>4. MshrsOK => MshrsOK'
  BY DEF MshrsOK, SameLine
<1>5. (Locked => Locked') /\ (Placed => Placed')
  BY <1>1 DEF Locked, Placed
<1> QED BY <1>1, <1>2, <1>3, <1>4, <1>5

(* The fetch of a line is over: its MSHR is free and the line ready.       *)
LEMMA FillKeepsCache ==
  ASSUME CacheTypes, SetsOK, MshrsOK, Locked, Placed, NEW a \in Addrs, Fill(a)
  PROVE  /\ sets' \in [Indices -> Seq(Lines)] /\ mshrs' \in Seq(Addrs)
         /\ SetsOK' /\ MshrsOK' /\ Locked' /\ Placed' /\ DirtyLines' = DirtyLines
         /\ \A b \in Range(mshrs') : b \in Range(mshrs) /\ LineOf[b] # LineOf[a]
<1>1. CASE MSHR(a) = 0
  <2>1. UNCHANGED <<sets, mshrs>> /\ LineOf[a] \notin InFlight
    BY <1>1, MSHRFacts DEF Fill
  <2>2. \A b \in Range(mshrs) : LineOf[b] # LineOf[a]
    BY <2>1 DEF InFlight
  <2>3. SetsOK' /\ MshrsOK' /\ Locked' /\ Placed' /\ DirtyLines' = DirtyLines
    BY <2>1, SameCache
  <2> QED BY <2>1, <2>2, <2>3 DEF CacheTypes
<1>2. CASE MSHR(a) # 0
  <2> DEFINE m == MSHR(a)
             f == mshrs[m]
             i == SetIndex(f)
             k == Fetching(f)
             q == sets[i]
             e == [q[k] EXCEPT !.ready = TRUE]
             n == [q EXCEPT ![k] = e]
  <2>1. /\ sets' = [sets EXCEPT ![i] = n] /\ mshrs' = RemoveAt(mshrs, m)
    BY <1>2 DEF Fill
  <2>2. LineOf[a] \in InFlight /\ m \in DOMAIN mshrs /\ LineOf[mshrs[m]] = LineOf[a]
        /\ mshrs \in Seq(Addrs)
    BY <1>2, MSHRFacts DEF CacheTypes
  <2>3. f \in Addrs /\ LineOf[f] = LineOf[a] /\ i = SetIndex(a)
    BY <1>2, IteratorFacts
  <2>4. /\ i \in DOMAIN sets /\ q \in Seq(Lines) /\ k \in DOMAIN q
        /\ q[k] \in Held /\ LineOf[q[k].addr] = LineOf[a]
    <3>1. /\ k \in DOMAIN SetFor(f) /\ SetFor(f)[k] \in Held
          /\ LineOf[SetFor(f)[k].addr] = LineOf[a]
      BY <2>2, <2>3, FetchingFacts
    <3>2. SetFor(f) \in Seq(Lines) /\ i \in DOMAIN sets
      BY <2>3, WayFacts
    <3> QED BY <3>1, <3>2 DEF SetFor
  <2>5. q[k] \in Lines
    BY <2>4, HeldFacts
  <2>6. e \in Lines /\ e.addr = q[k].addr /\ e.ready /\ e.dirty = q[k].dirty
    BY <2>5 DEF Lines
  <2> HIDE DEF e
  <2>7. Distinct(q) /\ Len(q) <= Associativity /\ SetIndex(q[k].addr) = i
    BY <2>4 DEF SetsOK, Range
  <2>8. /\ n \in Seq(Lines) /\ Len(n) = Len(q) /\ Distinct(n)
        /\ Range(n) = {w \in Range(q) : LineOf[w.addr] # LineOf[a]} \cup {e}
    <3>1. LineOf[e.addr] = LineOf[q[k].addr]
      BY <2>6
    <3>2. /\ n \in Seq(Lines) /\ Len(n) = Len(q) /\ Distinct(n)
          /\ Range(n) = {w \in Range(q) : LineOf[w.addr] # LineOf[q[k].addr]} \cup {e}
      BY <2>4, <2>6, <2>7, <3>1, LineChanged
    <3> QED BY <2>4, <3>2
  <2> HIDE DEF n
  <2>9. /\ sets' \in [Indices -> Seq(Lines)] /\ SetsOK' /\ Exchange(LineOf[a], e)
    <3>1. InSet(LineOf[a], i)
      BY <2>3, LineInSet DEF SetsOK
    <3>2. SetIndex(e.addr) = i
      BY <2>6, <2>7
    <3> QED BY <2>1, <2>4, <2>6, <2>7, <2>8, <3>1, <3>2, SetChanged
  <2>10. /\ mshrs' \in Seq(Addrs) /\ Len(mshrs') = Len(mshrs) - 1
         /\ \A j \in DOMAIN mshrs' : \E l \in DOMAIN mshrs : l # m /\ mshrs'[j] = mshrs[l]
         /\ \A l \in DOMAIN mshrs \ {m} : \E j \in DOMAIN mshrs' : mshrs'[j] = mshrs[l]
         /\ \A x, y \in DOMAIN mshrs' : x # y =>
              \E j, l \in DOMAIN mshrs : j # m /\ l # m /\ j # l /\ mshrs'[x] = mshrs[j] /\ mshrs'[y] = mshrs[l]
    <3> DEFINE d == RemoveAt(mshrs, m)
    <3> HIDE DEF m
    <3>1. d \in Seq(Addrs) /\ Len(d) = Len(mshrs) - 1
      BY <2>2, RemoveAtProperties
    <3>2. /\ \A j \in DOMAIN d : \E l \in DOMAIN mshrs : l # m /\ d[j] = mshrs[l]
          /\ \A l \in DOMAIN mshrs \ {m} : \E j \in DOMAIN d : d[j] = mshrs[l]
          /\ \A x, y \in DOMAIN d : x # y =>
               \E j, l \in DOMAIN mshrs : j # m /\ l # m /\ j # l /\ d[x] = mshrs[j] /\ d[y] = mshrs[l]
      BY <2>2, RemoveAtElements
    <3>3. mshrs' = d
      BY <2>1
    <3> HIDE DEF d
    <3> QED BY <3>1, <3>2, <3>3
  <2>11. \A l \in DOMAIN mshrs : l # m <=> LineOf[mshrs[l]] # LineOf[a]
    BY <2>2 DEF MshrsOK, SameLine
  <2>12. MshrsOK'
    <3>1. Len(mshrs') <= NumMSHRs
      <4>1. Len(mshrs) \in Nat /\ NumMSHRs \in Nat
        BY <2>2, LenProperties, CacheAssumption
      <4> QED BY <2>10, <4>1 DEF MshrsOK
    <3>2. ASSUME NEW x \in DOMAIN mshrs', NEW y \in DOMAIN mshrs', x # y
          PROVE  LineOf[mshrs'[x]] # LineOf[mshrs'[y]]
      <4>1. PICK j, l \in DOMAIN mshrs : j # l /\ mshrs'[x] = mshrs[j] /\ mshrs'[y] = mshrs[l]
        BY <2>10, <3>2
      <4> QED BY <4>1 DEF MshrsOK, SameLine
    <3> QED BY <3>1, <3>2 DEF MshrsOK, SameLine
  <2>13. \A b : b \in Range(mshrs') <=> b \in Range(mshrs) /\ LineOf[b] # LineOf[a]
    <3>1. ASSUME NEW b \in Range(mshrs') PROVE b \in Range(mshrs) /\ LineOf[b] # LineOf[a]
      <4>1. PICK j \in DOMAIN mshrs' : mshrs'[j] = b
        BY DEF Range
      <4> QED BY <2>10, <2>11, <4>1 DEF Range
    <3>2. ASSUME NEW b \in Range(mshrs), LineOf[b] # LineOf[a] PROVE b \in Range(mshrs')
      <4>1. PICK l \in DOMAIN mshrs : mshrs[l] = b
        BY DEF Range
      <4> QED BY <2>10, <2>11, <3>2, <4>1 DEF Range
    <3> QED BY <3>1, <3>2
  <2>14. InFlight' = InFlight \ {LineOf[a]}
    BY <2>13 DEF InFlight
  <2>15. Locked'
    BY <2>4, <2>6, <2>9, <2>14 DEF Locked, Exchange
  <2>16. Placed'
    BY <2>9, <2>14 DEF Placed, Exchange
  <2>17. DirtyLines' = DirtyLines
    <3>1. \A w \in Held : LineOf[w.addr] = LineOf[a] => w = q[k]
      BY <2>4, HeldFacts
    <3> QED BY <2>4, <2>6, <2>9, <3>1 DEF DirtyLines, Exchange
  <2> QED BY <2>9, <2>10, <2>12, <2>13, <2>15, <2>16, <2>17
<1> QED BY <1>1, <1>2

LEMMA ReceiveHitKeepsCache ==
  ASSUME CacheOK, ReceiveHit
  PROVE  CacheOK'
<1> DEFINE k == Min(Due(hits))
           a == hits[k].addr
<1>1. /\ Due(hits) # {} /\ Fill(a) /\ waiting' = [waiting EXCEPT ![a] = <<>>]
      /\ hits' = RemoveAt(hits, k) /\ UNCHANGED <<memory, unwritten, misses>>
  BY DEF ReceiveHit, Receive
<1>2. CacheTypes /\ hits \in Seq(Hits)
  BY DEF CacheOK, CacheTypes
<1>3. k \in DOMAIN hits
  <2>1. DOMAIN hits = 1 .. Len(hits) /\ Len(hits) \in Nat
    BY <1>2, LenProperties
  <2>2. Due(hits) \in SUBSET Nat /\ Due(hits) \in SUBSET DOMAIN hits
    BY <2>1 DEF Due
  <2> QED BY <1>1, <2>2, MinNat
<1> HIDE DEF k
<1>4. a \in Addrs /\ hits' \in Seq(Hits)
  <2>1. hits[k] \in Hits
    BY <1>2, <1>3, LenProperties, ElementOfSeq
  <2> QED BY <1>1, <1>2, <1>3, <2>1, RemoveAtProperties DEF Hits
<1> HIDE DEF a
<1>5. /\ sets' \in [Indices -> Seq(Lines)] /\ mshrs' \in Seq(Addrs)
      /\ SetsOK' /\ MshrsOK' /\ Locked' /\ Placed' /\ DirtyLines' = DirtyLines
      /\ \A b \in Range(mshrs') : b \in Range(mshrs)
  BY <1>1, <1>4, FillKeepsCache DEF CacheOK
<1>6. waiting' \in [Addrs -> Seq(Waiters)]
  BY <1>1, <1>2, <1>4, EmptySeq DEF CacheTypes
<1>7. CacheTypes'
  BY <1>1, <1>2, <1>4, <1>5, <1>6 DEF CacheTypes
<1>8. OnTheirWay'
  BY <1>1, <1>5 DEF CacheOK, OnTheirWay
<1> QED BY <1>1, <1>5, <1>7, <1>8 DEF CacheOK

LEMMA AnswerKeepsCache ==
  ASSUME CacheOK, NEW a \in Addrs, Answer(a)
  PROVE  CacheOK'
<1>1. /\ memory[a] > 0 /\ memory' = [memory EXCEPT ![a] = @ - 1]
      /\ Fill(a) /\ waiting' = [waiting EXCEPT ![a] = <<>>]
      /\ UNCHANGED <<unwritten, misses, hits>>
  BY DEF Answer, Receive
<1>2. CacheTypes /\ memory \in [Addrs -> Nat]
  BY DEF CacheOK, CacheTypes
<1>3. /\ sets' \in [Indices -> Seq(Lines)] /\ mshrs' \in Seq(Addrs)
      /\ SetsOK' /\ MshrsOK' /\ Locked' /\ Placed' /\ DirtyLines' = DirtyLines
      /\ \A b \in Range(mshrs') : b \in Range(mshrs) /\ LineOf[b] # LineOf[a]
  BY <1>1, FillKeepsCache DEF CacheOK
<1>4. memory' \in [Addrs -> Nat]
  <2>1. memory[a] - 1 \in Nat
    BY <1>1, <1>2
  <2> QED BY <1>1, <1>2, <2>1
<1>5. waiting' \in [Addrs -> Seq(Waiters)]
  BY <1>1, <1>2, EmptySeq DEF CacheTypes
<1>6. CacheTypes'
  BY <1>1, <1>2, <1>3, <1>4, <1>5 DEF CacheTypes
<1>7. OnTheirWay'
  <2>1. \A b \in Range(mshrs') : memory'[b] = memory[b]
    <3>1. Range(mshrs') \in SUBSET Addrs
      BY <1>3, RangeType
    <3> QED BY <1>1, <1>2, <1>3, <3>1
  <2> QED BY <1>1, <1>3, <2>1 DEF CacheOK, OnTheirWay
<1> QED BY <1>1, <1>3, <1>6, <1>7 DEF CacheOK

(* A miss that the memory takes is a read it has to answer, or a write.    *)
LEMMA BeginTickKeepsCache ==
  ASSUME CacheOK, NEW taken \in SUBSET DueMisses, BeginTick(taken)
  PROVE  CacheOK'
<1> DEFINE old == Older(misses)
           reads(a) == {k \in taken : misses[k].addr = a /\ misses[k].type = "Read"}
<1>1. /\ misses' = Without(old, taken) /\ hits' = Older(hits)
      /\ memory' = [a \in Addrs |-> memory[a] + Cardinality(reads(a))]
      /\ UNCHANGED <<unwritten, sets, mshrs, waiting>>
  BY DEF BeginTick
<1>2. CacheTypes /\ misses \in Seq(Misses) /\ hits \in Seq(Hits) /\ memory \in [Addrs -> Nat]
  BY DEF CacheOK, CacheTypes
<1>3. /\ old \in Seq(Misses) /\ DOMAIN old = DOMAIN misses
      /\ \A k \in DOMAIN misses : old[k].addr = misses[k].addr /\ old[k].type = misses[k].type
  BY <1>2, OlderProperties
<1>4. hits' \in Seq(Hits)
  BY <1>1, <1>2, OlderProperties
<1>5. taken \in SUBSET DOMAIN misses /\ IsFiniteSet(taken)
  <2>1. DOMAIN misses = 1 .. Len(misses) /\ Len(misses) \in Nat
    BY <1>2, LenProperties
  <2>2. IsFiniteSet(1 .. Len(misses))
    BY <2>1, FS_Interval
  <2>3. taken \in SUBSET DOMAIN misses
    BY <1>3 DEF DueMisses, Due
  <2> QED BY <2>1, <2>2, <2>3, FS_Subset
<1> HIDE DEF old
<1>6. misses' \in Seq(Misses) /\ Range(misses') = {old[k] : k \in DOMAIN misses \ taken}
  BY <1>1, <1>3, WithoutProperties DEF Kept
<1>7. ASSUME NEW a \in Addrs
      PROVE  /\ Cardinality(reads(a)) \in Nat
             /\ reads(a) # {} => Cardinality(reads(a)) > 0
  <2>1. reads(a) \in SUBSET taken
    OBVIOUS
  <2> HIDE DEF reads
  <2>2. IsFiniteSet(reads(a))
    BY <1>5, <2>1, FS_Subset
  <2>3. Cardinality(reads(a)) \in Nat /\ (Cardinality(reads(a)) = 0 <=> reads(a) = {})
    BY <2>2, FS_CardinalityType, FS_EmptySet
  <2> QED BY <2>3
<1>8. \A a \in Addrs : /\ memory'[a] \in Nat
                       /\ memory[a] > 0 => memory'[a] > 0
                       /\ reads(a) # {} => memory'[a] > 0
  <2> SUFFICES ASSUME NEW a \in Addrs
               PROVE  /\ memory'[a] \in Nat /\ (memory[a] > 0 => memory'[a] > 0)
                      /\ (reads(a) # {} => memory'[a] > 0)
    OBVIOUS
  <2> DEFINE c == Cardinality(reads(a))
  <2>1. memory[a] \in Nat /\ memory'[a] = memory[a] + c
    BY <1>1, <1>2
  <2>2. c \in Nat /\ (reads(a) # {} => c > 0)
    BY <1>7
  <2> HIDE DEF c, reads
  <2> QED BY <2>1, <2>2
<1>9. CacheTypes'
  <2>1. DOMAIN memory' = Addrs /\ memory' = [a \in Addrs |-> memory'[a]]
    BY <1>1
  <2>2. memory' \in [Addrs -> Nat]
    BY <1>8, <2>1
  <2> QED BY <1>1, <1>2, <1>4, <1>6, <2>2 DEF CacheTypes
<1>10. OnTheirWay'
  <2> SUFFICES ASSUME NEW a \in Range(mshrs)
               PROVE  memory'[a] > 0 \/ \E m \in Range(misses') : m.addr = a /\ m.type = "Read"
    BY <1>1 DEF OnTheirWay
  <2>1. a \in Addrs
    BY <1>2, RangeType DEF CacheTypes
  <2>2. CASE memory[a] > 0
    BY <1>8, <2>1, <2>2
  <2>3. CASE \E m \in Range(misses) : m.addr = a /\ m.type = "Read"
    <3>1. PICK k \in DOMAIN misses : misses[k].addr = a /\ misses[k].type = "Read"
      BY <2>3 DEF Range
    <3>2. CASE k \in taken
      <4>1. k \in reads(a)
        BY <3>1, <3>2
      <4> QED BY <1>8, <2>1, <4>1
    <3>3. CASE k \notin taken
      BY <1>3, <1>6, <3>1, <3>3
    <3> QED BY <3>2, <3>3
  <2> QED BY <2>2, <2>3 DEF CacheOK, OnTheirWay
<1>11. SetsOK' /\ MshrsOK' /\ Locked' /\ Placed' /\ DirtyLines' = DirtyLines
  BY <1>1, SameCache DEF CacheOK
<1> QED BY <1>1, <1>9, <1>10, <1>11 DEF CacheOK

LEMMA CacheStays ==
  ASSUME CacheOK, UNCHANGED <<memory, unwritten, llcVars>>
  PROVE  CacheOK'
<1>1. UNCHANGED <<memory, unwritten, sets, mshrs, waiting, misses, hits>>
  BY DEF llcVars
<1>2. SetsOK' /\ MshrsOK' /\ Locked' /\ Placed' /\ DirtyLines' = DirtyLines
  BY <1>1, SameCache DEF CacheOK
<1>3. CacheTypes' /\ OnTheirWay'
  BY <1>1 DEF CacheOK, CacheTypes, OnTheirWay
<1> QED BY <1>1, <1>2, <1>3 DEF CacheOK

LEMMA CacheStep == CoresOK /\ CacheOK /\ [Next]_vars => CacheOK'
<1> SUFFICES ASSUME CoresOK, CacheOK, [Next]_vars PROVE CacheOK'
  OBVIOUS
<1>1. ASSUME NEW taken \in SUBSET DueMisses, BeginTick(taken) PROVE CacheOK'
  BY <1>1, BeginTickKeepsCache
<1>2. CASE ReceiveHit
  BY <1>2, ReceiveHitKeepsCache
<1>3. CASE EndHits
  BY <1>3, CacheStays DEF EndHits
<1>4. CASE Issue
  BY <1>4, CacheStays DEF Issue
<1>5. CASE SendTaken
  <2>1. Request \in Requests /\ memory' = memory
    BY <1>5, RequestType DEF SendTaken
  <2>2. unwritten' = (unwritten \ WrittenBack)
                       \cup (IF Request.type = "Write" THEN {LineOf[Request.addr]} ELSE {})
    BY <1>5 DEF SendTaken
  <2>3. Hit(Request) \/ Merge(Request) \/ Allocate(Request)
    BY <1>5 DEF SendTaken
  <2> QED BY <2>1, <2>2, <2>3, HitKeepsCache, MergeKeepsCache, AllocateKeepsCache
<1>6. CASE SendRefused
  BY <1>6, CacheStays DEF SendRefused, Refuse
<1>7. ASSUME NEW a \in Addrs, Answer(a) PROVE CacheOK'
  BY <1>7, AnswerKeepsCache
<1>8. CASE UNCHANGED vars
  BY <1>8, CacheStays DEF vars
<1> QED BY <1>1, <1>2, <1>3, <1>4, <1>5, <1>6, <1>7, <1>8 DEF Next, InTick, TakeSome

-----------------------------------------------------------------------------
(* The theorems.                                                           *)

CacheInv == CoresOK /\ CacheOK

LEMMA CoresInvariant == Spec => []CoresOK
<1> QED BY CoresInit, CoresStep, PTL DEF Spec

LEMMA CacheInvariant == Spec => [](PowersOfTwo => CacheInv)
<1>1. Init => (PowersOfTwo => CacheInv)
  BY CoresInit, CacheInit DEF CacheInv
<1>2. (PowersOfTwo => CacheInv) /\ [Next]_vars => (PowersOfTwo => CacheInv)'
  <2>1. CacheInv /\ [Next]_vars => CacheInv'
    BY CoresStep, CacheStep DEF CacheInv
  <2>2. (PowersOfTwo => CacheInv)' <=> (PowersOfTwo => CacheInv')
    BY DEF PowersOfTwo, Mask, Log2
  <2> QED BY <2>1, <2>2
<1> QED BY <1>1, <1>2, PTL DEF Spec

(* The run's invariant says the same of positions and of MSHRs as they are *)
(* looked up.                                                              *)
LEMMA CacheInvImpliesLinesInFlight == CacheInv => LinesInFlight
<1> SUFFICES ASSUME CacheInv PROVE LinesInFlight
  OBVIOUS
<1>1. CacheTypes /\ SetsOK /\ MshrsOK /\ Locked /\ Placed /\ OnTheirWay
  BY DEF CacheInv, CacheOK
<1>2. ASSUME NEW i \in DOMAIN sets
      PROVE  /\ Len(sets[i]) <= Associativity
             /\ \A j, k \in DOMAIN sets[i] : SameLine(sets[i][j].addr, sets[i][k].addr) => j = k
  BY <1>1 DEF SetsOK, Distinct
<1>3. ASSUME NEW i \in DOMAIN sets, NEW k \in DOMAIN sets[i]
      PROVE  sets[i][k].ready <=> MSHR(sets[i][k].addr) = 0
  <2>1. sets[i][k] \in Held
    BY DEF Held, Range
  <2>2. sets[i][k].addr \in Addrs
    BY <1>1, <2>1, HeldFacts DEF Lines
  <2> QED BY <1>1, <2>1, <2>2, MSHRFacts DEF Locked
<1>4. ASSUME NEW m \in DOMAIN mshrs
      PROVE  /\ MSHR(mshrs[m]) = m
             /\ Fetching(mshrs[m]) # 0
             /\ \/ memory[mshrs[m]] > 0
                \/ \E k \in DOMAIN misses : misses[k].addr = mshrs[m] /\ misses[k].type = "Read"
  <2>1. mshrs[m] \in Addrs /\ mshrs[m] \in Range(mshrs)
    <3>1. mshrs \in Seq(Addrs)
      BY <1>1 DEF CacheTypes
    <3> QED BY <3>1, LenProperties, ElementOfSeq DEF Range
  <2>2. LineOf[mshrs[m]] \in InFlight
    BY <2>1 DEF InFlight
  <2>3. MSHR(mshrs[m]) = m
    <3>1. MSHR(mshrs[m]) \in DOMAIN mshrs /\ LineOf[mshrs[MSHR(mshrs[m])]] = LineOf[mshrs[m]]
      BY <1>1, <2>1, <2>2, MSHRFacts
    <3> QED BY <1>1, <3>1 DEF MshrsOK, SameLine
  <2>4. Fetching(mshrs[m]) # 0
    BY <1>1, <2>1, <2>2, FetchingFacts
  <2>5. \/ memory[mshrs[m]] > 0
        \/ \E k \in DOMAIN misses : misses[k].addr = mshrs[m] /\ misses[k].type = "Read"
    BY <1>1, <2>1 DEF OnTheirWay, Range
  <2> QED BY <2>3, <2>4, <2>5
<1> QED BY <1>1, <1>2, <1>3, <1>4 DEF LinesInFlight, MshrsOK

LEMMA CacheInvImpliesDirtyIsUnwritten == CacheInv => DirtyIsUnwritten
<1> SUFFICES ASSUME CacheInv PROVE DirtyIsUnwritten
  OBVIOUS
<1>1. unwritten = DirtyLines
  BY DEF CacheInv, CacheOK
<1>2. DirtyLines = UNION {{LineOf[w.addr] : w \in {x \in Range(sets[i]) : x.dirty}} : i \in DOMAIN sets}
  BY DEF DirtyLines, Held
<1> QED BY <1>1, <1>2 DEF DirtyIsUnwritten

LEMMA CacheInvImpliesTagsAreNew == CacheInv => TagsAreNew
<1> SUFFICES ASSUME CacheInv, phase = "send", HitWay(Request.addr) = 0, MSHR(Request.addr) = 0
             PROVE  Way(Request.addr) = 0
  BY DEF TagsAreNew
<1>1. Request.addr \in Addrs
  BY RequestType DEF CacheInv, Requests
<1>2. CacheTypes /\ SetsOK /\ Locked
  BY DEF CacheInv, CacheOK
<1> QED BY <1>1, <1>2, NewTag

(* llc.cpp, receive: in a cache of powers of two, of whatever size, for    *)
(* every trace and every order of answers, a line is in its set once, it   *)
(* is locked exactly while an MSHR is fetching it, the iterator of that    *)
(* MSHR points to it, and its read is in the miss list or in the memory.   *)
(* Cores share lines and their addresses; a hit that is due may release    *)
(* the line of a later fetch.                                              *)
THEOREM LinesMatchMSHRs == Spec => [](PowersOfTwo => LinesInFlight)
<1>1. (PowersOfTwo => CacheInv) => (PowersOfTwo => LinesInFlight)
  BY CacheInvImpliesLinesInFlight
<1> QED BY <1>1, CacheInvariant, PTL

(* llc.cpp, need_eviction: "Due to MSHR, the program can't reach here" is  *)
(* so in a cache of powers of two.                                         *)
THEOREM AssertHolds == Spec => [](PowersOfTwo => TagsAreNew)
<1>1. (PowersOfTwo => CacheInv) => (PowersOfTwo => TagsAreNew)
  BY CacheInvImpliesTagsAreNew
<1> QED BY <1>1, CacheInvariant, PTL

(* llc.cpp, send: in a cache of powers of two, whatever a store meets (a   *)
(* hit, a fetch that a load has begun, a miss of its own), its line is     *)
(* dirty until it is written back, and only lines that were stored to are  *)
(* written back.                                                           *)
THEOREM StoresReachMemory == Spec => [](PowersOfTwo => DirtyIsUnwritten)
<1>1. (PowersOfTwo => CacheInv) => (PowersOfTwo => DirtyIsUnwritten)
  BY CacheInvImpliesDirtyIsUnwritten
<1> QED BY <1>1, CacheInvariant, PTL

(* core.cpp, InstWindow::insert writes over the slot at the head: a window *)
(* never holds more instructions than it has slots, so no instruction that *)
(* waits for its load is written over, whatever the geometry of the cache. *)
WindowsFit == \A c \in Cores : Len(core[c].window) <= Depth

THEOREM WindowsNeverOverflow == Spec => []WindowsFit
<1>1. CoresOK => WindowsFit
  BY DEF CoresOK, CoreOK, WindowsFit
<1> QED BY <1>1, CoresInvariant, PTL
=============================================================================
