------------------------------ MODULE SimpleO3 ------------------------------
(***************************************************************************)
(* The SimpleO3 frontend: cores that replay instruction traces through a   *)
(* window of instructions (core.cpp), the cache they share and the glue    *)
(* between them (simpleO3.cpp). The memory below takes a request or        *)
(* refuses it, and answers the reads it has taken in any order, between    *)
(* two ticks. A tick is a run of steps that nothing else comes between:    *)
(* the cache's misses, its hits, then the cores one by one.                *)
(***************************************************************************)
EXTENDS SimpleO3LLC, FiniteSets

CONSTANTS
  NoAddr,
  NumCores,
  Ipc, Depth,               \* m_ipc, m_depth
  NumExpected,              \* m_num_expected_insts
  Traces,                   \* what the cores may replay: functions from cores to traces
  MaxReads,                 \* bound: reads the memory has taken and not answered
  MaxMisses, MaxWaiting     \* bounds: the misses that pile up while the memory refuses all,
                            \* the requests that pile up while it refuses or leaves a read

Cores == 1 .. NumCores

ASSUME CoreAssumption ==
  /\ NoAddr \notin Addrs
  /\ {NumCores, Ipc, Depth, NumExpected, MaxReads, MaxMisses, MaxWaiting} \subseteq Nat \ {0}

Insts == [bubbles : Nat, load : Addrs, store : Addrs \cup {NoAddr}]
ASSUME TraceAssumption == Traces \subseteq [Cores -> Seq(Insts) \ {<<>>}]

VARIABLES
  trace,      \* m_trace of every core
  core,       \* m_cores
  memory,     \* memory[a]: reads of a the memory has taken and not answered
  phase,      \* where in the tick the frontend is
  turn,       \* the core whose turn it is
  unwritten   \* history: lines stored to since they were last written back

vars == <<trace, core, memory, phase, turn, unwritten, llcVars>>

-----------------------------------------------------------------------------
(* A core is its window, oldest instruction first, and the trace line it   *)
(* is at.                                                                  *)
Fetched(c, t) ==
  [c EXCEPT !.bubbles = t[c.next].bubbles, !.load = t[c.next].load, !.store = t[c.next].store,
            !.next = (c.next % Len(t)) + 1]

NewCore(t) ==
  Fetched([window |-> <<>>, bubbles |-> 0, load |-> NoAddr, store |-> NoAddr, next |-> 1, retired |-> 0], t)

Retire(c) ==
  LET ready == {k \in DOMAIN c.window : \A j \in 1 .. k : c.window[j].ready}
      n     == Min({Ipc, Cardinality(ready)})
  IN  [c EXCEPT !.window = SubSeq(@, n + 1, Len(@)), !.retired = Min({NumExpected, @ + n})]

InsertBubbles(c, n) ==
  [c EXCEPT !.window = @ \o [k \in 1 .. n |-> [addr |-> NoAddr, ready |-> TRUE]], !.bubbles = @ - n]

(* set_ready: every load of one of the addresses is answered.              *)
Answered(slot, as) == [slot EXCEPT !.ready = @ \/ slot.addr \in as]
SetReady(c, as)    == [c EXCEPT !.window = [k \in DOMAIN c.window |-> Answered(c.window[k], as)]]

(* A request the cache has taken: a load enters the window, its store      *)
(* follows in a later tick; without one the core is at the next line.      *)
Taken(c, t, isLoad) ==
  LET sent == [c EXCEPT !.window = Append(@, [addr |-> c.load, ready |-> FALSE]), !.load = NoAddr]
  IN  IF ~isLoad THEN Fetched(c, t)
      ELSE IF c.store = NoAddr THEN Fetched(sent, t) ELSE sent

IsFinished == \A c \in Cores : core[c].retired = NumExpected

-----------------------------------------------------------------------------
Init ==
  /\ trace \in Traces
  /\ core = [c \in Cores |-> NewCore(trace[c])]
  /\ memory = [a \in Addrs |-> 0]
  /\ phase = "idle"
  /\ turn = 1
  /\ unwritten = {}
  /\ LLCInit

(* The addresses that a core is waiting for in a list of requests.         *)
AddrsOf(c, waiters) == {w.addr : w \in {r \in Range(waiters) : r.core = c}}

(* Seeded fault: only those who wait for a line being fetched are answered.*)
ReceiveFetched(a, waiters) ==
  /\ Fill(a)
  /\ waiting' = [waiting EXCEPT ![a] = <<>>]
  /\ core' = IF MSHR(a) = 0 THEN core
             ELSE [c \in Cores |-> SetReady(core[c], AddrsOf(c, waiters))]

(* SimpleO3::receive: the line of the address is filled, and those who     *)
(* wait under the address are answered.                                    *)
Receive(a, waiters) ==
  /\ Fill(a)
  /\ waiting' = [waiting EXCEPT ![a] = <<>>]
  /\ core' = [c \in Cores |-> SetReady(core[c], AddrsOf(c, waiters))]

(* A tick begins: the memory takes some of the misses that are due.        *)
Total(f) == MapThenFoldSet(+, 0, LAMBDA a : f[a], LAMBDA S : CHOOSE a \in S : TRUE, Addrs)
DueMisses == Due(Older(misses))
BeginTick(taken) ==
  /\ phase = "idle"
  /\ ~IsFinished
  /\ misses' = Without(Older(misses), taken)
  /\ memory' = [a \in Addrs |->
       memory[a] + Cardinality({k \in taken : misses[k].addr = a /\ misses[k].type = "Read"})]
  /\ Total(memory') <= MaxReads
  /\ \A a \in Addrs : Len(waiting[a]) > MaxWaiting => memory[a] = 0 /\ (taken = {} => DueMisses = {})
  /\ Cardinality(DueMisses) > MaxMisses => taken # {}
  /\ hits' = Older(hits)
  /\ phase' = "hits"
  /\ UNCHANGED <<trace, core, turn, unwritten, sets, mshrs, waiting>>

TakeFirst == DueMisses # {} /\ BeginTick({Min(DueMisses)})
TakeSome  == \E taken \in SUBSET DueMisses : BeginTick(taken)

(* The first hit that is due puts itself in the place of whoever waits     *)
(* under its address, and is received like an answer of the memory.        *)
ReceiveHit ==
  /\ phase = "hits"
  /\ Due(hits) # {}
  /\ LET k == Min(Due(hits))
     IN  Receive(hits[k].addr, <<hits[k]>>) /\ hits' = RemoveAt(hits, k)
  /\ UNCHANGED <<trace, memory, phase, turn, unwritten, misses>>

EndHits ==
  /\ phase = "hits"
  /\ Due(hits) = {}
  /\ phase' = "issue"
  /\ UNCHANGED <<trace, core, memory, turn, unwritten, llcVars>>

NextTurn ==
  /\ turn' = IF turn = NumCores THEN 1 ELSE turn + 1
  /\ phase' = IF turn = NumCores THEN "idle" ELSE "issue"

(* A core retires what it can, then fills its window with the bubbles of   *)
(* its trace line; it comes to the load or the store when they are all in  *)
(* and, for a load, the window and the width have room for one more.       *)
Issue ==
  LET old  == Retire(core[turn])
      n    == Min({old.bubbles, Ipc, Depth - Len(old.window)})
      new  == InsertBubbles(old, n)
      room == n < Ipc /\ Len(new.window) < Depth
  IN  /\ phase = "issue"
      /\ core' = [core EXCEPT ![turn] = new]
      /\ IF new.bubbles = 0 /\ (new.load # NoAddr => room)
         THEN phase' = "send" /\ UNCHANGED turn
         ELSE NextTurn
      /\ UNCHANGED <<trace, memory, unwritten, llcVars>>

Request ==
  IF core[turn].load # NoAddr
  THEN [core |-> turn, addr |-> core[turn].load, type |-> "Read"]
  ELSE [core |-> turn, addr |-> core[turn].store, type |-> "Write"]

(* The lines that are written back by what a step adds to the misses.      *)
WrittenBack ==
  {LineOf[misses'[k].addr] : k \in {j \in DOMAIN misses' \ DOMAIN misses : misses'[j].type = "Write"}}

SendTaken ==
  /\ phase = "send"
  /\ Hit(Request) \/ Merge(Request) \/ Allocate(Request)
  /\ core' = [core EXCEPT ![turn] = Taken(@, trace[turn], @.load # NoAddr)]
  /\ unwritten' = (unwritten \ WrittenBack)
                    \cup (IF Request.type = "Write" THEN {LineOf[Request.addr]} ELSE {})
  /\ NextTurn
  /\ UNCHANGED <<trace, memory>>

SendRefused ==
  /\ phase = "send"
  /\ Refuse(Request)
  /\ NextTurn
  /\ UNCHANGED <<trace, core, memory, unwritten>>

(* The memory answers a read.                                              *)
Answer(a) ==
  /\ phase = "idle"
  /\ ~IsFinished
  /\ memory[a] > 0
  /\ memory' = [memory EXCEPT ![a] = @ - 1]
  /\ Receive(a, waiting[a])
  /\ UNCHANGED <<trace, phase, turn, unwritten, misses, hits>>

InTick == ReceiveHit \/ EndHits \/ Issue \/ SendTaken \/ SendRefused
Next   == TakeSome \/ InTick \/ \E a \in Addrs : Answer(a)
Spec   == Init /\ [][Next]_vars

(* The frontend is ticked until it is finished; the memory takes the miss  *)
(* that is due first in the end, and answers what it has taken.            *)
FairSpec ==
  /\ Spec
  /\ WF_vars(TakeSome) /\ WF_vars(InTick)
  /\ SF_vars(TakeFirst)
  /\ \A a \in Addrs : SF_vars(Answer(a))

-----------------------------------------------------------------------------
(* llc.cpp, need_eviction: "Due to MSHR, the program can't reach here": a  *)
(* line is in its set once. The lines in flight are those of the MSHRs,    *)
(* one for one, so no MSHR's iterator dangles, and each has its fetch on   *)
(* its way, in the miss list or in the memory: an answer that came early,  *)
(* from a hit or an older fetch of the line, leaves no line locked.        *)
LinesInFlight ==
  /\ \A i \in DOMAIN sets :
       /\ Len(sets[i]) <= Associativity
       /\ \A j, k \in DOMAIN sets[i] : SameLine(sets[i][j].addr, sets[i][k].addr) => j = k
       /\ \A k \in DOMAIN sets[i] : sets[i][k].ready <=> MSHR(sets[i][k].addr) = 0
  /\ Len(mshrs) <= NumMSHRs
  /\ \A m \in DOMAIN mshrs :
       /\ MSHR(mshrs[m]) = m
       /\ Fetching(mshrs[m]) # 0
       /\ \/ memory[mshrs[m]] > 0
          \/ \E k \in DOMAIN misses : misses[k].addr = mshrs[m] /\ misses[k].type = "Read"

(* No store is lost and no write-back made up: the dirty lines are those a *)
(* store went to since their last write-back, though a store may hit, wait *)
(* for a line that a load is fetching, or begin the fetch as a read.       *)
DirtyIsUnwritten ==
  unwritten = UNION {{LineOf[w.addr] : w \in {x \in Range(sets[i]) : x.dirty}} : i \in DOMAIN sets}

(* llc.cpp, need_eviction: "Due to MSHR, the program can't reach here": a  *)
(* line that is about to be allocated has a tag that is not in its set. It *)
(* holds where the numbers of bytes in a line and of sets are powers of    *)
(* two; the number of sets grows with the number of cores.                 *)
TagsAreNew ==
  phase = "send" =>
    LET a == Request.addr
    IN  HitWay(a) = 0 /\ MSHR(a) = 0 /\ HasRoom(a) => Way(a) = 0

(* README: "The simulation will run until the number of retired            *)
(* instructions has reached" what is expected: every load is answered. It  *)
(* holds where every line is used by one core and under one address:       *)
(* whoever loses its place behind a fetch to a hit is answered by the hit. *)
EveryCoreFinishes == <>IsFinished

Used(c) == UNION {{i.load, i.store} : i \in Range(trace[c])} \ {NoAddr}
OwnLines ==
  \A c, d \in Cores : \A a \in Used(c), b \in Used(d) : SameLine(a, b) => c = d /\ a = b
OwnLinesFinish == OwnLines => EveryCoreFinishes
=============================================================================
