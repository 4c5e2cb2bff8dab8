---------------------------- MODULE SimpleO3LLC ----------------------------
(***************************************************************************)
(* The last-level cache of the SimpleO3 frontend (llc.cpp): sets of lines  *)
(* in LRU order, MSHRs for the lines being fetched, and two lists of       *)
(* requests that wait for the latency of the cache, misses on their way to *)
(* the memory and hits on their way back to a core.                        *)
(*                                                                         *)
(* An address is the set of the positions of its 1 bits, so that a mask    *)
(* and a shift are what they are in the code. A time is what is left of    *)
(* the latency. An MSHR's iterator is modelled by its address: the node it *)
(* points to is the one line of that address in its set that is not ready, *)
(* and stays in the list until it is.                                      *)
(***************************************************************************)
EXTENDS Integers, Sequences, SequencesExt

CONSTANTS
  Addrs,                    \* the addresses of the traces
  LineSize,                 \* m_linesize_bytes
  NumSets,                  \* m_set_size: the capacity, which grows with the cores, by the size of a set
  Associativity,            \* m_associativity
  NumMSHRs,                 \* m_num_mshrs
  Latency                   \* m_latency

ASSUME CacheAssumption ==
  /\ Addrs \subseteq SUBSET Nat
  /\ {LineSize, NumSets, Associativity, NumMSHRs} \subseteq Nat \ {0} /\ Latency \in Nat

(* calc_log2 rounds down; the bits of n - 1 mask an offset below n, if n   *)
(* is a power of two. Nothing in the code sees to that.                    *)
Log2(n) == Cardinality({k \in 1 .. n : 2 ^ k <= n})
Mask(n) == {k \in 0 .. Log2(n) : ((n - 1) \div 2 ^ k) % 2 = 1}

IndexMask   == Mask(NumSets)
IndexOffset == Log2(LineSize)
TagOffset   == Log2(NumSets) + IndexOffset

(* align, get_index (with its bits where they are in the address), get_tag *)
LineOf      == [a \in Addrs |-> a \ Mask(LineSize)]
SetIndex(a) == {k \in a : k >= IndexOffset /\ k - IndexOffset \in IndexMask}
Tag(a)      == {k \in a : k >= TagOffset}
Indices     == {SetIndex(a) : a \in Addrs}

SameLine(a, b) == LineOf[a] = LineOf[b]
SameTag(a, b)  == Tag(a) = Tag(b)

(* The geometries whose masks are what their offsets shift out.            *)
PowersOfTwo == \A n \in {LineSize, NumSets} : Mask(n) = 0 .. Log2(n) - 1

VARIABLES
  sets,       \* m_cache_sets
  mshrs,      \* m_mshrs
  waiting,    \* m_receive_requests
  misses,     \* m_miss_list
  hits        \* m_hit_list

llcVars == <<sets, mshrs, waiting, misses, hits>>

LLCInit ==
  /\ sets = [i \in Indices |-> <<>>]
  /\ mshrs = <<>>
  /\ waiting = [a \in Addrs |-> <<>>]
  /\ misses = <<>>
  /\ hits = <<>>

SetFor(a) == sets[SetIndex(a)]

(* The first way with the tag of an address and the MSHR of its line, 0    *)
(* for none; a line that is still being fetched is no hit.                 *)
Way(a)    == SelectInSeq(SetFor(a), LAMBDA w : SameTag(w.addr, a))

(* Seeded fault: a line that is being fetched is a hit.                    *)
HitWayInFlight(a) == Way(a)

HitWay(a) == IF Way(a) # 0 /\ SetFor(a)[Way(a)].ready THEN Way(a) ELSE 0

MSHR(a)   == SelectInSeq(mshrs, LAMBDA m : SameLine(m, a))
Victim(a) == SelectInSeq(SetFor(a), LAMBDA w : w.ready)
IsFull(a) == Len(SetFor(a)) >= Associativity

(* The way an MSHR's iterator points to.                                   *)
Fetching(a) == SelectInSeq(SetFor(a), LAMBDA w : SameLine(w.addr, a) /\ ~w.ready)

-----------------------------------------------------------------------------
(* SimpleO3LLC::send, for a request [core, addr, type].                    *)

(* A hit makes the line the most recently used one.                        *)
Hit(r) ==
  LET k == HitWay(r.addr)
  IN  /\ k # 0
      /\ sets' = [sets EXCEPT ![SetIndex(r.addr)] = RemoveAt(Append(@,
           [addr |-> r.addr, dirty |-> @[k].dirty \/ r.type = "Write", ready |-> TRUE]), k)]
      /\ hits' = Append(hits, [due |-> Latency, core |-> r.core, addr |-> r.addr])
      /\ UNCHANGED <<mshrs, waiting, misses>>

(* Seeded fault: a later load makes the line clean again.                  *)
MergeForgetsStore(r) ==
  LET m == MSHR(r.addr)
  IN  /\ HitWay(r.addr) = 0
      /\ m # 0
      /\ waiting' = [waiting EXCEPT ![mshrs[m]] = Append(@, [core |-> r.core, addr |-> r.addr])]
      /\ sets' = [sets EXCEPT ![SetIndex(mshrs[m])][Fetching(mshrs[m])].dirty = r.type = "Write"]
      /\ UNCHANGED <<mshrs, misses, hits>>

(* A miss on a line being fetched waits for it, under the address that     *)
(* began the fetch.                                                        *)
Merge(r) ==
  LET m == MSHR(r.addr)
  IN  /\ HitWay(r.addr) = 0
      /\ m # 0
      /\ waiting' = [waiting EXCEPT ![mshrs[m]] = Append(@, [core |-> r.core, addr |-> r.addr])]
      /\ sets' = [sets EXCEPT ![SetIndex(mshrs[m])][Fetching(mshrs[m])].dirty = @ \/ r.type = "Write"]
      /\ UNCHANGED <<mshrs, misses, hits>>

HasRoom(a) == Len(mshrs) # NumMSHRs /\ (IsFull(a) => Victim(a) # 0)

(* need_eviction: a tag that is in its set already is not expected, and    *)
(* asserted against where asserts are compiled in; elsewhere it makes no   *)
(* room.                                                                   *)
Evicts(a) == Way(a) = 0 /\ IsFull(a)

(* A miss takes an MSHR and a way; the least recently used line that is    *)
(* not being fetched makes room, and is written back when it is dirty.     *)
Allocate(r) ==
  LET set   == SetFor(r.addr)
      v     == Victim(r.addr)
      line  == [addr |-> r.addr, dirty |-> r.type = "Write", ready |-> FALSE]
      back  == [due |-> Latency, addr |-> set[v].addr, type |-> "Write"]
      fetch == [due |-> Latency, addr |-> r.addr, type |-> "Read"]
  IN  /\ HitWay(r.addr) = 0
      /\ MSHR(r.addr) = 0
      /\ HasRoom(r.addr)
      /\ sets' = [sets EXCEPT ![SetIndex(r.addr)] =
                    Append(IF Evicts(r.addr) THEN RemoveAt(@, v) ELSE @, line)]
      /\ misses' = misses \o (IF Evicts(r.addr) /\ set[v].dirty THEN <<back, fetch>> ELSE <<fetch>>)
      /\ mshrs' = Append(mshrs, r.addr)
      /\ waiting' = [waiting EXCEPT ![r.addr] = <<[core |-> r.core, addr |-> r.addr]>>]
      /\ UNCHANGED hits

(* A write miss that is refused has become a read, but the core makes a    *)
(* new request when it tries again.                                        *)
Refuse(r) ==
  /\ HitWay(r.addr) = 0
  /\ MSHR(r.addr) = 0
  /\ ~HasRoom(r.addr)
  /\ UNCHANGED llcVars

-----------------------------------------------------------------------------
(* SimpleO3LLC::receive: the fetch of a line is over.                      *)
Fill(a) ==
  IF MSHR(a) = 0
  THEN UNCHANGED <<sets, mshrs>>
  ELSE LET f == mshrs[MSHR(a)]
       IN  /\ sets' = [sets EXCEPT ![SetIndex(f)][Fetching(f)].ready = TRUE]
           /\ mshrs' = RemoveAt(mshrs, MSHR(a))

(* A cycle passes; the requests that are due by then.                      *)
Older(list) == [k \in DOMAIN list |-> [list[k] EXCEPT !.due = IF @ = 0 THEN 0 ELSE @ - 1]]
Due(list)   == {k \in DOMAIN list : list[k].due = 0}

(* What is left of a list without the positions of a set, in its order.    *)
Kept(list, S)    == DOMAIN list \ S
Rank(list, S, k) == Cardinality({j \in Kept(list, S) : j <= k})
Without(list, S) ==
  [n \in 1 .. Cardinality(Kept(list, S)) |-> list[CHOOSE k \in Kept(list, S) : Rank(list, S, k) = n]]
=============================================================================
