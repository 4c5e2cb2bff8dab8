----------------------- MODULE TransformerTrace_proofs -----------------------
(***************************************************************************)
(* A generated trace is an execution of the tensor graph, for every        *)
(* workload: no record comes twice, and each finds the records it depends  *)
(* on and the tensors it takes before it.                                  *)
(*                                                                         *)
(* The blocks are generated by loops that append records, so what holds    *)
(* of a block is an invariant of its loops: Good. A connection then lifts  *)
(* a block to the trace, which stays Linked.                               *)
(*                                                                         *)
(* Overlapping a block only reorders it: a round adds the same shapes      *)
(* wherever it comes.                                                      *)
(***************************************************************************)
EXTENDS TransformerTrace, BufferLemmas, SequenceTheorems

(***************************************************************************)
(* Lists: sequences of no matter what.                                     *)
(***************************************************************************)
IsList(q) == \E S : q \in Seq(S)

(* The positions of a list.                                                *)
LEMMA ListIs ==
  ASSUME NEW q, IsList(q)
  PROVE  Len(q) \in Nat /\ DOMAIN q = 1 .. Len(q) /\ \A x : x \in Range(q) <=> \E i \in 1 .. Len(q) : q[i] = x
<1>1. PICK S : q \in Seq(S)
  BY DEF IsList
<1> QED BY <1>1 DEF Range

(* A function over the first numbers is a list.                            *)
LEMMA ListOfFunction ==
  ASSUME NEW n \in Nat, NEW f, f = [i \in 1 .. n |-> f[i]]
  PROVE  IsList(f) /\ Len(f) = n /\ DOMAIN f = 1 .. n
<1> DEFINE S == {f[i] : i \in 1 .. n}
<1>0. [i \in 1 .. n |-> f[i]] \in [1 .. n -> S]
  OBVIOUS
<1> HIDE DEF S
<1>1. f \in [1 .. n -> S]
  BY <1>0
<1>2. f \in Seq(S)
  BY <1>1
<1> QED BY <1>1, <1>2 DEF IsList

(* Two lists of the same length and elements are the same.                 *)
LEMMA ListEqual ==
  ASSUME NEW p, NEW q, IsList(p), IsList(q), Len(p) = Len(q), \A i \in 1 .. Len(p) : p[i] = q[i]
  PROVE  p = q
<1>1. PICK S : p \in Seq(S)
  BY DEF IsList
<1>2. PICK T : q \in Seq(T)
  BY DEF IsList
<1>3. p \in Seq(S \cup T) /\ q \in Seq(S \cup T)
  BY <1>1, <1>2
<1> QED BY <1>3

(* The elements of a concatenation.                                        *)
LEMMA ListConcat ==
  ASSUME NEW p, NEW q, IsList(p), IsList(q)
  PROVE  /\ IsList(p \o q) /\ Len(p \o q) = Len(p) + Len(q)
         /\ \A i \in 1 .. Len(p) : (p \o q)[i] = p[i]
         /\ \A i \in 1 .. Len(q) : (p \o q)[Len(p) + i] = q[i]
         /\ Range(p \o q) = Range(p) \cup Range(q)
<1>1. PICK S : p \in Seq(S)
  BY DEF IsList
<1>2. PICK T : q \in Seq(T)
  BY DEF IsList
<1>3. p \in Seq(S \cup T) /\ q \in Seq(S \cup T)
  BY <1>1, <1>2
<1>4. p \o q \in Seq(S \cup T)
  BY <1>3
<1>5. Range(p \o q) = Range(p) \cup Range(q)
  BY <1>3, RangeConcat
<1> QED BY <1>3, <1>4, <1>5 DEF IsList

(* To append is to concatenate a list of one.                              *)
LEMMA ListAppend ==
  ASSUME NEW q, NEW e, IsList(q)
  PROVE  /\ Append(q, e) = q \o <<e>> /\ IsList(<<e>>) /\ Len(<<e>>) = 1 /\ <<e>>[1] = e
         /\ IsList(Append(q, e)) /\ Len(Append(q, e)) = Len(q) + 1
<1>1. PICK S : q \in Seq(S)
  BY DEF IsList
<1>2. q \in Seq(S \cup {e}) /\ <<e>> \in Seq(S \cup {e})
  BY <1>1
<1>3. Append(q, e) \in Seq(S \cup {e})
  BY <1>2
<1> QED BY <1>2, <1>3 DEF IsList

LEMMA EmptyList == IsList(<<>>) /\ Len(<<>>) = 0 /\ Range(<<>>) = {}
<1>1. <<>> \in Seq({})
  OBVIOUS
<1> QED BY <1>1 DEF IsList, Range

LEMMA ConcatEmpty ==
  ASSUME NEW q, IsList(q)
  PROVE  <<>> \o q = q /\ q \o <<>> = q
<1>1. PICK S : q \in Seq(S)
  BY DEF IsList
<1> QED BY <1>1

LEMMA ConcatAssociates ==
  ASSUME NEW p, NEW q, NEW r, IsList(p), IsList(q), IsList(r)
  PROVE  (p \o q) \o r = p \o (q \o r)
<1> DEFINE a == (p \o q) \o r
           b == p \o (q \o r)
<1>1. IsList(p \o q) /\ IsList(q \o r) /\ Len(p \o q) = Len(p) + Len(q) /\ Len(q \o r) = Len(q) + Len(r)
  BY ListConcat
<1>2. IsList(a) /\ IsList(b) /\ Len(a) = Len(p) + Len(q) + Len(r) /\ Len(b) = Len(a)
  BY <1>1, ListConcat, ListIs
<1>3. ASSUME NEW i \in 1 .. Len(a) PROVE a[i] = b[i]
  <2>0. Len(p) \in Nat /\ Len(q) \in Nat /\ Len(r) \in Nat
    BY ListIs
  <2>1. CASE i <= Len(p)
    BY <2>0, <2>1, <1>1, <1>2, ListConcat
  <2>2. CASE i > Len(p) /\ i <= Len(p) + Len(q)
    <3>0. i - Len(p) \in 1 .. Len(q) /\ i = Len(p) + (i - Len(p))
      BY <2>0, <2>2, <1>2
    <3>1. PICK j \in 1 .. Len(q) : i = Len(p) + j
      BY <3>0
    <3>2. a[i] = (p \o q)[i] /\ (p \o q)[i] = q[j]
      BY <2>0, <2>2, <3>1, <1>1, <1>2, ListConcat
    <3>3. b[i] = (q \o r)[j] /\ (q \o r)[j] = q[j]
      BY <2>0, <2>2, <3>1, <1>1, <1>2, ListConcat
    <3> QED BY <3>2, <3>3
  <2>3. CASE i > Len(p) + Len(q)
    <3>0. i - (Len(p) + Len(q)) \in 1 .. Len(r) /\ i = Len(p) + Len(q) + (i - (Len(p) + Len(q)))
      BY <2>0, <2>3, <1>2
    <3>1. PICK j \in 1 .. Len(r) : i = Len(p) + Len(q) + j
      BY <3>0
    <3>2. a[i] = r[j]
      BY <2>0, <3>1, <1>1, <1>2, ListConcat
    <3>3. b[i] = (q \o r)[Len(q) + j] /\ (q \o r)[Len(q) + j] = r[j]
      BY <2>0, <3>1, <1>1, <1>2, ListConcat
    <3> QED BY <3>2, <3>3
  <2> QED BY <2>0, <2>1, <2>2, <2>3, <1>2
<1> QED BY <1>2, <1>3, ListEqual

(***************************************************************************)
(* Records and tensors.                                                    *)
(***************************************************************************)
IsRecord(r) ==
  r = [record_id |-> r.record_id, kind |-> r.kind, op |-> r.op, inputs |-> r.inputs, outputs |-> r.outputs,
       logical_dependencies |-> r.logical_dependencies, num_requests |-> r.num_requests, pairs |-> r.pairs]
Shape(r, id, kind, op, inputs, outputs, deps) ==
  /\ IsRecord(r) /\ r.record_id = id /\ r.kind = kind /\ r.op = op
  /\ r.inputs = inputs /\ r.outputs = outputs /\ r.logical_dependencies = deps

(* Every operator that makes a record makes one, of these fields.          *)
LEMMA RecordShape ==
  ASSUME NEW id, NEW kind, NEW op, NEW inputs, NEW outputs, NEW deps
  PROVE  /\ Shape(Record(id, kind, op, inputs, outputs, deps), id, kind, op, inputs, outputs, deps)
         /\ \A m, elements : Shape(Compute(m, elements, Record(id, kind, op, inputs, outputs, deps)),
                                   id, kind, op, inputs, outputs, deps)
<1>1. Shape(Record(id, kind, op, inputs, outputs, deps), id, kind, op, inputs, outputs, deps)
  BY DEF Record, Shape, IsRecord
<1>2. ASSUME NEW m, NEW elements
      PROVE  Shape(Compute(m, elements, Record(id, kind, op, inputs, outputs, deps)), id, kind, op, inputs, outputs, deps)
  <2> DEFINE N == NumRequests(elements, m.datatype)
  <2>1. Compute(m, elements, Record(id, kind, op, inputs, outputs, deps)) =
          [Record(id, kind, op, inputs, outputs, deps) EXCEPT !.num_requests = N]
    BY DEF Compute
  <2> HIDE DEF N
  <2>2. [Record(id, kind, op, inputs, outputs, deps) EXCEPT !.num_requests = N] =
          [record_id |-> id, kind |-> kind, op |-> op, inputs |-> inputs, outputs |-> outputs,
           logical_dependencies |-> deps, num_requests |-> N, pairs |-> <<>>]
    BY DEF Record
  <2> QED BY <2>1, <2>2 DEF Shape, IsRecord
<1> QED BY <1>1, <1>2

LEMMA AttentionShape ==
  ASSUME NEW m, NEW id, NEW kind, NEW inputs, NEW output, NEW deps, NEW query, NEW key, NEW count
  PROVE  Shape(AttentionRecord(m, id, kind, inputs, output, deps, query, key, count),
               id, kind, kind, inputs, {output}, deps)
<1> DEFINE N == NumRequests(count * m.head_dim, m.datatype)
           P == <<query, key, count>>
           r == [Record(id, kind, kind, inputs, {output}, deps) EXCEPT !.pairs = P]
<1>1. AttentionRecord(m, id, kind, inputs, output, deps, query, key, count) = [r EXCEPT !.num_requests = N]
  BY DEF AttentionRecord, Compute
<1> HIDE DEF N, P
<1>2. r = [record_id |-> id, kind |-> kind, op |-> kind, inputs |-> inputs, outputs |-> {output},
           logical_dependencies |-> deps, num_requests |-> 0, pairs |-> P]
  <2>1. \A E : [[record_id |-> id, kind |-> kind, op |-> kind, inputs |-> inputs, outputs |-> {output},
                 logical_dependencies |-> deps, num_requests |-> 0, pairs |-> E] EXCEPT !.pairs = P]
                = [record_id |-> id, kind |-> kind, op |-> kind, inputs |-> inputs, outputs |-> {output},
                   logical_dependencies |-> deps, num_requests |-> 0, pairs |-> P]
    OBVIOUS
  <2> QED BY <2>1, Zenon DEF Record
<1> HIDE DEF r
<1>3. [r EXCEPT !.num_requests = N] =
        [record_id |-> id, kind |-> kind, op |-> kind, inputs |-> inputs, outputs |-> {output},
         logical_dependencies |-> deps, num_requests |-> N, pairs |-> P]
  BY <1>2
<1> QED BY <1>1, <1>3 DEF Shape, IsRecord

IsTensor(t) ==
  t = [layer |-> 0, name |-> t.name, place |-> t.place, head |-> t.head, tile |-> t.tile, tile2 |-> t.tile2]
OfShape(t, name, place) == IsTensor(t) /\ t.layer = 0 /\ t.name = name /\ t.place = place

(* So does every operator that makes a tensor.                             *)
LEMMA TensorShape ==
  ASSUME NEW name, NEW head, NEW tile, NEW tile2
  PROVE  /\ OfShape(Tensor(name, head, tile, tile2), name, "plain")
         /\ \A place : OfShape(Placed(Tensor(name, head, tile, tile2), place), name, place)
         /\ OfShape(Visible(Tensor(name, head, tile, tile2)), name, "pim_visible")
         /\ OfShape(Resident(name, head), name, "resident")
<1>1. OfShape(Tensor(name, head, tile, tile2), name, "plain")
  BY DEF Tensor, OfShape, IsTensor
<1>2. ASSUME NEW h, NEW i, NEW j, NEW place PROVE OfShape(Placed(Tensor(name, h, i, j), place), name, place)
  <2>1. Placed(Tensor(name, h, i, j), place) =
          [layer |-> 0, name |-> name, place |-> place, head |-> h, tile |-> i, tile2 |-> j]
    BY DEF Placed, Tensor
  <2> QED BY <2>1 DEF OfShape, IsTensor
<1>3. OfShape(Visible(Tensor(name, head, tile, tile2)), name, "pim_visible")
  BY <1>2 DEF Visible
<1>4. OfShape(Resident(name, head), name, "resident")
  BY <1>2 DEF Resident
<1> QED BY <1>1, <1>2, <1>3, <1>4

LEMMA WholeShape ==
  ASSUME NEW name
  PROVE  /\ OfShape(Whole(name), name, "plain") /\ OfShape(Visible(Whole(name)), name, "pim_visible")
         /\ \A place : OfShape(Placed(Whole(name), place), name, place)
BY TensorShape DEF Whole

(***************************************************************************)
(* What the loops that generate a block keep true of it.                   *)
(***************************************************************************)
Weights == {"up_weight", "gate_weight", "down_weight", "router_weight", "expert_up_weight",
            "expert_gate_weight", "expert_down_weight"}

(* The records whose inputs and dependencies a connection replaces.        *)
IsRewired(mode, op) ==
  \/ mode \in {"cache_writes", "o_projection"}
  \/ mode = "decode" /\ op = "q_operand_residency"
  \/ mode = "prefill" /\ op \in {"q_operand_residency", "k_prefill_tile_residency", "v_prefill_tile_residency"}
  \/ mode = "feed_forward" /\ op \in {"ffn_hidden_activation_tile_setup", "moe_router_input_setup"}

(* A tensor a block may take without making it: the hidden state, a        *)
(* weight, or a tile of the cache.                                         *)
Loose(mode, t) ==
  /\ IsTensor(t) /\ t.layer = 0
  /\ \/ t.place = "weight.resident"
     \/ t.place = "plain" /\ (t.name = "hidden" \/ t.name \in Weights)
     \/ t.place = "plain" /\ t.name \in {"K.tile", "V.tile"} /\ mode = "decode"

(* A tensor that is its own source.                                        *)
Local(t) ==
  IsTensor(t) /\ t.layer = 0 /\ ~(t.place = "plain" /\ t.name \in {"hidden", "K.tile", "V.tile"})

Made(L, t) == \E i \in 1 .. Len(L) : t \in L[i].outputs

(* The record with number d, when the records c follow those of L.         *)
At(L, c, d) == IF d < Len(L) THEN L[d + 1] ELSE c[d - Len(L) + 1]

(* In decoding the residencies of Q are what the connection drops: only a  *)
(* score depends on one, and only scores take what they make.              *)
IsQ(r) == r.op = "q_operand_residency"
Shares(L, c, j) ==
  /\ c[j].kind = "AttentionScore" => c[j].op = "AttentionScore" /\ \E d \in c[j].logical_dependencies : IsQ(At(L, c, d))
  /\ IsQ(c[j]) => \A t \in c[j].outputs : t.name = "Q"
  /\ c[j].kind # "AttentionScore" /\ ~IsQ(c[j]) =>
       /\ \A t \in c[j].inputs : t.name # "Q"
       /\ \A d \in c[j].logical_dependencies : ~IsQ(At(L, c, d))

(* What the j-th of the records c may take, when they follow those of L.   *)
Has(L, c, j, mode, t) == Loose(mode, t) \/ Made(L, t) \/ \E k \in 1 .. j - 1 : t \in c[k].outputs

(* The j-th of the records c may follow L and the records of c before it.  *)
Joins(L, c, j, mode) ==
  /\ IsRecord(c[j]) /\ c[j].record_id = Len(L) + j - 1
  /\ c[j].logical_dependencies \subseteq 0 .. Len(L) + j - 2
  /\ \A t \in c[j].outputs : Local(t)
  /\ ~IsRewired(mode, c[j].op) => \A t \in c[j].inputs : Has(L, c, j, mode, t)
  /\ mode = "decode" => Shares(L, c, j)

Good(L, mode) == IsList(L) /\ \A j \in 1 .. Len(L) : Joins(<<>>, L, j, mode)

Continues(M, L) == IsList(M) /\ Len(L) <= Len(M) /\ \A i \in 1 .. Len(L) : M[i] = L[i]

LEMMA ContinuesTransitive ==
  ASSUME NEW L, NEW M, NEW N, IsList(L), Continues(M, L), Continues(N, M)
  PROVE  Continues(N, L)
<1>1. Len(L) \in Nat /\ Len(M) \in Nat /\ Len(N) \in Nat
  BY ListIs DEF Continues
<1> QED BY <1>1 DEF Continues

LEMMA MadeContinues ==
  ASSUME NEW L, NEW M, IsList(L), Continues(M, L), NEW t, Made(L, t)
  PROVE  Made(M, t)
<1>1. Len(L) \in Nat /\ Len(M) \in Nat
  BY ListIs DEF Continues
<1> QED BY <1>1 DEF Made, Continues

LEMMA ContinuesConcat ==
  ASSUME NEW L, NEW c, IsList(L), IsList(c)
  PROVE  /\ Continues(L \o c, L) /\ Len(L \o c) = Len(L) + Len(c)
         /\ \A j \in 1 .. Len(c) : (L \o c)[Len(L) + j] = c[j] /\ \A t \in c[j].outputs : Made(L \o c, t)
<1>1. Len(L) \in Nat /\ Len(c) \in Nat
  BY ListIs
<1>2. /\ IsList(L \o c) /\ Len(L \o c) = Len(L) + Len(c)
      /\ \A i \in 1 .. Len(L) : (L \o c)[i] = L[i]
      /\ \A i \in 1 .. Len(c) : (L \o c)[Len(L) + i] = c[i]
  BY ListConcat
<1>3. ASSUME NEW j \in 1 .. Len(c), NEW t \in c[j].outputs PROVE Made(L \o c, t)
  <2>1. Len(L) + j \in 1 .. Len(L \o c) /\ t \in (L \o c)[Len(L) + j].outputs
    BY <1>1, <1>2
  <2> QED BY <2>1 DEF Made
<1> QED BY <1>1, <1>2, <1>3 DEF Continues

LEMMA GoodConcat ==
  ASSUME NEW L, NEW c, NEW mode, Good(L, mode), IsList(c), \A j \in 1 .. Len(c) : Joins(L, c, j, mode)
  PROVE  Good(L \o c, mode)
<1> DEFINE M == L \o c
<1>0. IsList(L) /\ Len(L) \in Nat /\ Len(c) \in Nat
  BY ListIs DEF Good
<1>1. /\ IsList(M) /\ Len(M) = Len(L) + Len(c)
      /\ \A i \in 1 .. Len(L) : M[i] = L[i]
      /\ \A i \in 1 .. Len(c) : M[Len(L) + i] = c[i]
  BY <1>0, ListConcat
<1>e. Len(<<>>) = 0
  BY EmptyList
<1> HIDE DEF M
<1>2. ASSUME NEW i \in 1 .. Len(L) PROVE Joins(<<>>, M, i, mode)
  <2>1. Joins(<<>>, L, i, mode) /\ M[i] = L[i] /\ i \in 1 .. Len(M)
    BY <1>0, <1>1 DEF Good
  <2>2. \A k \in 1 .. i - 1 : M[k] = L[k]
    BY <1>0, <1>1
  <2>3. \A d \in 0 .. i - 2 : At(<<>>, M, d) = At(<<>>, L, d)
    BY <1>0, <1>1, <1>e DEF At
  <2>4. M[i].logical_dependencies \subseteq 0 .. i - 2
    BY <2>1, <1>e DEF Joins
  <2>5. Shares(<<>>, L, i) => Shares(<<>>, M, i)
    BY <2>1, <2>3, <2>4 DEF Shares
  <2>6. \A t : Has(<<>>, L, i, mode, t) => Has(<<>>, M, i, mode, t)
    BY <2>2 DEF Has
  <2> QED BY <2>1, <2>5, <2>6, <1>e DEF Joins
<1>3. ASSUME NEW j \in 1 .. Len(c) PROVE Joins(<<>>, M, Len(L) + j, mode)
  <2> DEFINE i == Len(L) + j
  <2>1. Joins(L, c, j, mode) /\ M[i] = c[j] /\ i \in 1 .. Len(M) /\ i \in Nat
    BY <1>0, <1>1
  <2>2. \A k \in 1 .. j - 1 : Len(L) + k \in 1 .. i - 1 /\ M[Len(L) + k] = c[k]
    BY <1>0, <1>1
  <2>3. \A d \in 0 .. i - 2 : At(<<>>, M, d) = At(L, c, d)
    <3> SUFFICES ASSUME NEW d \in 0 .. i - 2 PROVE At(<<>>, M, d) = At(L, c, d)
      OBVIOUS
    <3>1. At(<<>>, M, d) = M[d + 1]
      BY <1>e, <2>1 DEF At
    <3>2. CASE d < Len(L)
      BY <3>1, <3>2, <1>0, <1>1 DEF At
    <3>3. CASE ~(d < Len(L))
      <4>1. d - Len(L) + 1 \in 1 .. Len(c) /\ Len(L) + (d - Len(L) + 1) = d + 1
        BY <3>3, <1>0
      <4>2. M[d + 1] = c[d - Len(L) + 1]
        BY <4>1, <1>1
      <4> QED BY <3>1, <3>3, <4>2 DEF At
    <3> QED BY <3>2, <3>3
  <2>4. M[i].logical_dependencies \subseteq 0 .. i - 2
    BY <2>1, <1>0 DEF Joins
  <2>5. Shares(L, c, j) => Shares(<<>>, M, i)
    BY <2>1, <2>3, <2>4 DEF Shares
  <2>6. \A t : Made(L, t) => \E k \in 1 .. i - 1 : t \in M[k].outputs
    BY <1>0, <1>1 DEF Made
  <2>7. \A t : (\E k \in 1 .. j - 1 : t \in c[k].outputs) => \E k \in 1 .. i - 1 : t \in M[k].outputs
    BY <2>2
  <2>8. M[i].record_id = i - 1 /\ IsRecord(M[i]) /\ \A t \in M[i].outputs : Local(t)
    BY <2>1, <1>0 DEF Joins
  <2>11. \A t : Has(L, c, j, mode, t) => Has(<<>>, M, i, mode, t)
    BY <2>6, <2>7 DEF Has
  <2>9. ~IsRewired(mode, M[i].op) => \A t \in M[i].inputs : Has(<<>>, M, i, mode, t)
    BY <2>1, <2>11 DEF Joins
  <2>10. mode = "decode" => Shares(<<>>, M, i)
    BY <2>1, <2>5 DEF Joins
  <2> HIDE DEF i
  <2> QED BY <2>1, <2>4, <2>8, <2>9, <2>10, <1>e DEF Joins, i
<1>4. ASSUME NEW i \in 1 .. Len(M) PROVE Joins(<<>>, M, i, mode)
  <2>1. CASE i <= Len(L)
    BY <2>1, <1>0, <1>2
  <2>2. CASE ~(i <= Len(L))
    <3>1. i - Len(L) \in 1 .. Len(c) /\ Len(L) + (i - Len(L)) = i
      BY <2>2, <1>0, <1>1
    <3> QED BY <3>1, <1>3
  <2> QED BY <2>1, <2>2
<1> QED BY <1>1, <1>4 DEF Good, M

LEMMA GoodEmpty == \A mode : Good(<<>>, mode)
BY EmptyList DEF Good

(* Where a record is that a list takes a dependency on.                    *)
LEMMA GoodIds ==
  ASSUME NEW L, NEW mode, Good(L, mode)
  PROVE  /\ IsList(L) /\ Len(L) \in Nat
         /\ \A r \in Range(L) : r.record_id \in 0 .. Len(L) - 1 /\ L[r.record_id + 1] = r
         /\ \A i \in 1 .. Len(L) : L[i] \in Range(L) /\ IsRecord(L[i]) /\ L[i].record_id = i - 1
         /\ \A i \in 1 .. Len(L) : \A t \in L[i].outputs : Local(t)
<1>1. IsList(L) /\ Len(L) \in Nat /\ Len(<<>>) = 0 /\ \A j \in 1 .. Len(L) : Joins(<<>>, L, j, mode)
  BY ListIs, EmptyList DEF Good
<1>2. \A j \in 1 .. Len(L) : IsRecord(L[j]) /\ L[j].record_id = j - 1 /\ \A t \in L[j].outputs : Local(t)
  BY <1>1 DEF Joins
<1> QED BY <1>1, <1>2, ListIs

(***************************************************************************)
(* The loop that appends records.                                          *)
(***************************************************************************)
(* a[k]: what the loop has after k rounds.                                 *)
IsLoop(a, records, chunk, n) ==
  /\ a[0] = records /\ AppendEach(records, chunk, n) = a[n]
  /\ \A i \in 1 .. n : a[i] = a[i - 1] \o chunk[<<i, Len(a[i - 1])>>]

(* There is such a function.                                               *)
LEMMA AppendEachIs ==
  ASSUME NEW records, NEW chunk, NEW n \in Nat
  PROVE  \E a : IsLoop(a, records, chunk, n)
<1> DEFINE Step(x, i) == x \o chunk[<<i, Len(x)>>]
           Is(f, k) == f = [i \in 0 .. k |-> IF i = 0 THEN records ELSE Step(f[i - 1], i)]
           T == {k \in Nat : \E f : Is(f, k)}
           a == CHOOSE f : Is(f, n)
<1>5. AppendEach(records, chunk, n) = a[n]
  BY DEF AppendEach
<1> HIDE DEF Step, a
<1>1. 0 \in T
  <2> DEFINE f == [i \in 0 .. 0 |-> records]
  <2>1. f = [i \in 0 .. 0 |-> IF i = 0 THEN records ELSE Step(f[i - 1], i)]
    OBVIOUS
  <2> QED BY <2>1
<1>2. ASSUME NEW k \in Nat, k \in T PROVE k + 1 \in T
  <2>1. PICK f : Is(f, k)
    BY <1>2
  <2> DEFINE g == [i \in 0 .. k + 1 |-> IF i <= k THEN f[i] ELSE Step(f[k], k + 1)]
             h == [i \in 0 .. k + 1 |-> IF i = 0 THEN records ELSE Step(g[i - 1], i)]
  <2>2. \A i \in 0 .. k : g[i] = f[i] /\ f[i] = IF i = 0 THEN records ELSE Step(f[i - 1], i)
    BY <2>1
  <2>3. g[k + 1] = Step(f[k], k + 1)
    OBVIOUS
  <2>4. \A i \in 0 .. k + 1 : h[i] = IF i = 0 THEN records ELSE Step(g[i - 1], i)
    OBVIOUS
  <2>d. DOMAIN g = 0 .. k + 1 /\ DOMAIN h = 0 .. k + 1 /\ g = [i \in 0 .. k + 1 |-> g[i]] /\ h = [i \in 0 .. k + 1 |-> h[i]]
    OBVIOUS
  <2>e. h = [i \in 0 .. k + 1 |-> IF i = 0 THEN records ELSE Step(g[i - 1], i)]
    OBVIOUS
  <2> HIDE DEF g, h
  <2>5. \A i \in 0 .. k + 1 : g[i] = h[i]
    <3> SUFFICES ASSUME NEW i \in 0 .. k + 1 PROVE g[i] = h[i]
      OBVIOUS
    <3>1. CASE i = 0
      <4>1. 0 \in 0 .. k /\ 0 \in 0 .. k + 1
        OBVIOUS
      <4> QED BY <4>1, <3>1, <2>2, <2>4
    <3>2. CASE i \in 1 .. k
      <4>1. i - 1 \in 0 .. k /\ i \in 0 .. k /\ i # 0
        BY <3>2
      <4> QED BY <4>1, <2>2, <2>4
    <3>3. CASE i = k + 1
      <4>1. k \in 0 .. k /\ (k + 1) - 1 = k /\ k + 1 # 0 /\ k + 1 \in 0 .. k + 1
        OBVIOUS
      <4>2. h[k + 1] = Step(g[k], k + 1)
        BY <4>1, <2>4
      <4>3. g[k] = f[k]
        BY <4>1, <2>2
      <4> QED BY <4>2, <4>3, <3>3, <2>3
    <3> QED BY <3>1, <3>2, <3>3
  <2>6. g = h
    BY <2>5, <2>d
  <2>7. Is(g, k + 1)
    BY <2>6, <2>e, Zenon
  <2>8. k + 1 \in Nat
    OBVIOUS
  <2> HIDE DEF Is
  <2> QED BY <2>7, <2>8
<1>3. n \in T
  <2> HIDE DEF T
  <2>1. \A k \in Nat : k \in T => k + 1 \in T
    BY <1>2
  <2> QED BY <1>1, <2>1, InductionSet
<1>4. Is(a, n)
  <2>1. \E f : Is(f, n)
    BY <1>3
  <2> HIDE DEF Is
  <2> QED BY <2>1 DEF a
<1>6. \A i \in 0 .. n : a[i] = IF i = 0 THEN records ELSE Step(a[i - 1], i)
  BY <1>4
<1>7. a[0] = records
  <2>1. 0 \in 0 .. n
    OBVIOUS
  <2> QED BY <1>6, <2>1
<1>8. ASSUME NEW i \in 1 .. n PROVE a[i] = a[i - 1] \o chunk[<<i, Len(a[i - 1])>>]
  <2>1. i \in 0 .. n /\ i # 0
    OBVIOUS
  <2>2. a[i] = Step(a[i - 1], i)
    BY <1>6, <2>1
  <2> QED BY <2>2 DEF Step
<1> QED BY <1>5, <1>7, <1>8 DEF IsLoop

(* A chunk of records that may follow L, and makes the tensors outs.       *)
Fits(L, c, outs, mode) ==
  /\ IsList(c) /\ \A j \in 1 .. Len(c) : Joins(L, c, j, mode)
  /\ \A t \in outs : Made(L \o c, t)

(* Every round of a loop may follow what the rounds before it appended.    *)
Rounds(records, chunk, outs, n, mode) ==
  \A i \in 1 .. n : \A L : Good(L, mode) /\ Continues(L, records) => Fits(L, chunk[<<i, Len(L)>>], outs[i], mode)

LEMMA EachGood ==
  ASSUME NEW records, NEW chunk, NEW outs, NEW n \in Nat, NEW mode,
         Good(records, mode), Rounds(records, chunk, outs, n, mode)
  PROVE  LET L == AppendEach(records, chunk, n)
         IN  /\ Good(L, mode) /\ Continues(L, records)
             /\ \A i \in 1 .. n : \A t \in outs[i] : Made(L, t)
<1>0. PICK a : IsLoop(a, records, chunk, n)
  BY AppendEachIs
<1>1. /\ a[0] = records /\ AppendEach(records, chunk, n) = a[n]
      /\ \A i \in 1 .. n : a[i] = a[i - 1] \o chunk[<<i, Len(a[i - 1])>>]
  BY <1>0 DEF IsLoop
<1> DEFINE P(k) == /\ Good(a[k], mode) /\ Continues(a[k], records)
                   /\ \A i \in 1 .. k : \A t \in outs[i] : Made(a[k], t)
           T == {k \in Nat : k <= n => P(k)}
<1>2. 0 \in T
  <2>1. Continues(records, records)
    BY ListIs DEF Continues, Good
  <2> QED BY <1>1, <2>1
<1>3. ASSUME NEW k \in Nat, k \in T PROVE k + 1 \in T
  <2> SUFFICES ASSUME k + 1 <= n PROVE P(k + 1)
    OBVIOUS
  <2> DEFINE L == a[k]
             c == chunk[<<k + 1, Len(a[k])>>]
             M == a[k + 1]
  <2>1. P(k) /\ k + 1 \in 1 .. n
    BY <1>3
  <2>2. M = L \o c
    <3>1. \A i \in 1 .. n : a[i] = a[i - 1] \o chunk[<<i, Len(a[i - 1])>>]
      BY <1>1
    <3>2. (k + 1) - 1 = k
      OBVIOUS
    <3>3. a[k + 1] = a[(k + 1) - 1] \o chunk[<<k + 1, Len(a[(k + 1) - 1])>>]
      BY <2>1, <3>1, Zenon
    <3> QED BY <3>2, <3>3, Zenon
  <2>3. Fits(L, c, outs[k + 1], mode)
    BY <2>1 DEF Rounds
  <2> HIDE DEF L, c, M
  <2>4. Good(L, mode) /\ Continues(L, records) /\ IsList(records) /\ IsList(L) /\ IsList(c)
    BY <2>1, <2>3 DEF L, Good, Fits
  <2>5. Good(M, mode)
    BY <2>2, <2>3, <2>4, GoodConcat DEF Fits
  <2>6. Continues(M, L)
    BY <2>2, <2>4, ContinuesConcat
  <2>7. Continues(M, records)
    BY <2>4, <2>6, ContinuesTransitive
  <2>8. ASSUME NEW i \in 1 .. k + 1, NEW t \in outs[i] PROVE Made(M, t)
    <3>1. CASE i \in 1 .. k
      BY <3>1, <2>1, <2>4, <2>6, MadeContinues DEF L
    <3>2. CASE i = k + 1
      BY <3>2, <2>2, <2>3 DEF Fits
    <3> QED BY <3>1, <3>2
  <2> QED BY <2>5, <2>7, <2>8 DEF M
<1>4. n \in T
  <2> HIDE DEF T
  <2>1. \A k \in Nat : k \in T => k + 1 \in T
    BY <1>3
  <2> QED BY <1>2, <2>1, InductionSet
<1>5. P(n)
  BY <1>4
<1> HIDE DEF P
<1>6. P(n) => LET L == a[n]
              IN  /\ Good(L, mode) /\ Continues(L, records)
                  /\ \A i \in 1 .. n : \A t \in outs[i] : Made(L, t)
  BY DEF P
<1> QED BY <1>1, <1>5, <1>6

LEMMA FitsGood ==
  ASSUME NEW L, NEW c, NEW outs, NEW mode, Good(L, mode), Fits(L, c, outs, mode)
  PROVE  Good(L \o c, mode) /\ Continues(L \o c, L) /\ \A t \in outs : Made(L \o c, t)
<1>1. IsList(L) /\ IsList(c) /\ \A j \in 1 .. Len(c) : Joins(L, c, j, mode)
  BY DEF Fits, Good
<1>2. Good(L \o c, mode)
  BY <1>1, GoodConcat
<1>3. Continues(L \o c, L)
  BY <1>1, ContinuesConcat
<1> QED BY <1>2, <1>3 DEF Fits

LEMMA AppendGood ==
  ASSUME NEW L, NEW r, NEW mode, Good(L, mode), Joins(L, <<r>>, 1, mode)
  PROVE  /\ Good(Append(L, r), mode) /\ Continues(Append(L, r), L)
         /\ Len(Append(L, r)) = Len(L) + 1 /\ Append(L, r)[Len(L) + 1] = r
         /\ \A t \in r.outputs : Made(Append(L, r), t)
<1>1. IsList(L) /\ Len(L) \in Nat
  BY ListIs DEF Good
<1>2. Append(L, r) = L \o <<r>> /\ IsList(<<r>>) /\ Len(<<r>>) = 1 /\ <<r>>[1] = r
  BY <1>1, ListAppend
<1>3. Good(L \o <<r>>, mode)
  <2>1. \A j \in 1 .. Len(<<r>>) : Joins(L, <<r>>, j, mode)
    BY <1>2
  <2> QED BY <1>2, <2>1, GoodConcat
<1>4. /\ Continues(L \o <<r>>, L) /\ Len(L \o <<r>>) = Len(L) + 1
      /\ (L \o <<r>>)[Len(L) + 1] = r /\ \A t \in r.outputs : Made(L \o <<r>>, t)
  <2>1. 1 \in 1 .. Len(<<r>>)
    BY <1>2
  <2> QED BY <1>1, <1>2, <2>1, ContinuesConcat
<1> QED BY <1>2, <1>3, <1>4

(* The records that made tensors are records of the list, and in decoding  *)
(* they are no residencies of Q unless the tensors are.                    *)
LEMMA MakersIds ==
  ASSUME NEW L, NEW mode, Good(L, mode), NEW tensors
  PROVE  /\ Ids(Makers(L, tensors)) \subseteq 0 .. Len(L) - 1
         /\ mode = "decode" /\ (\A t \in tensors : t.name # "Q") =>
              \A d \in Ids(Makers(L, tensors)) : ~IsQ(L[d + 1])
<1>1. /\ Len(L) \in Nat
      /\ \A r \in Range(L) : r.record_id \in 0 .. Len(L) - 1 /\ L[r.record_id + 1] = r
      /\ \A i \in 1 .. Len(L) : Joins(<<>>, L, i, mode)
  BY GoodIds DEF Good
<1>2. ASSUME NEW d \in Ids(Makers(L, tensors))
      PROVE  d \in 0 .. Len(L) - 1 /\ \E t \in tensors : t \in L[d + 1].outputs
  <2>1. PICK r \in Range(L) : r.outputs \cap tensors # {} /\ d = r.record_id
    BY DEF Ids, Makers
  <2> QED BY <1>1, <2>1
<1>3. ASSUME mode = "decode", \A t \in tensors : t.name # "Q", NEW d \in Ids(Makers(L, tensors)) PROVE ~IsQ(L[d + 1])
  <2>1. d + 1 \in 1 .. Len(L)
    BY <1>1, <1>2
  <2>2. Shares(<<>>, L, d + 1)
    BY <1>1, <1>3, <2>1 DEF Joins
  <2>3. IsQ(L[d + 1]) => \A t \in L[d + 1].outputs : t.name = "Q"
    BY <2>2 DEF Shares
  <2> QED BY <1>2, <1>3, <2>3
<1> QED BY <1>2, <1>3

(* A record that takes what was made, depends on the makers, and is no     *)
(* residency or score, may follow.                                         *)
LEMMA AccountingGood ==
  ASSUME NEW L, NEW mode, Good(L, mode), NEW kind, NEW op, NEW inputs, NEW outputs,
         \A t \in inputs : Made(L, t) /\ t.name # "Q", \A t \in outputs : Local(t),
         kind # "AttentionScore", op # "q_operand_residency"
  PROVE  LET r == Record(Len(L), kind, op, inputs, outputs, Ids(Makers(L, inputs)))
         IN  /\ Good(Append(L, r), mode) /\ Continues(Append(L, r), L)
             /\ Len(Append(L, r)) = Len(L) + 1 /\ Append(L, r)[Len(L) + 1] = r /\ r.op = op
             /\ \A t \in outputs : Made(Append(L, r), t)
<1> DEFINE deps == Ids(Makers(L, inputs))
           r == Record(Len(L), kind, op, inputs, outputs, deps)
<1>1. Shape(r, Len(L), kind, op, inputs, outputs, deps)
  BY RecordShape
<1>2. /\ deps \subseteq 0 .. Len(L) - 1
      /\ mode = "decode" => \A d \in deps : ~IsQ(L[d + 1])
  BY MakersIds
<1>3. Len(L) \in Nat
  BY GoodIds
<1> HIDE DEF r, deps
<1>4. <<r>>[1] = r
  OBVIOUS
<1>5. \A t \in inputs : Has(L, <<r>>, 1, mode, t)
  BY DEF Has
<1>6. \A d \in deps : At(L, <<r>>, d) = L[d + 1]
  BY <1>2, <1>3 DEF At
<1>7. mode = "decode" => Shares(L, <<r>>, 1)
  BY <1>1, <1>2, <1>4, <1>6 DEF Shares, Shape, IsQ
<1>8. Joins(L, <<r>>, 1, mode)
  <2> DEFINE c == <<r>>
  <2>1. c[1] = r /\ (\A t \in inputs : Has(L, c, 1, mode, t)) /\ (mode = "decode" => Shares(L, c, 1))
    BY <1>4, <1>5, <1>7
  <2> HIDE DEF c
  <2>2. Len(L) + 1 - 1 = Len(L) /\ Len(L) + 1 - 2 = Len(L) - 1
    BY <1>3
  <2>3. Joins(L, c, 1, mode)
    BY <1>1, <1>2, <2>1, <2>2 DEF Joins, Shape
  <2> QED BY <2>3 DEF c
<1>9. /\ Good(Append(L, r), mode) /\ Continues(Append(L, r), L)
      /\ Len(Append(L, r)) = Len(L) + 1 /\ Append(L, r)[Len(L) + 1] = r
      /\ \A t \in r.outputs : Made(Append(L, r), t)
  BY <1>8, AppendGood
<1> QED BY <1>1, <1>9 DEF Shape, r, deps

LEMMA ReductionGood ==
  ASSUME NEW L, NEW mode, Good(L, mode), NEW contexts, NEW output, Local(output),
         \A t \in contexts : Made(L, t) /\ t.name # "Q"
  PROVE  Good(AddReduction(L, contexts, output), mode) /\ Continues(AddReduction(L, contexts, output), L)
<1>1. CASE Cardinality(contexts) > 1
  <2> DEFINE r == Record(Len(L), "PIMElementwise", "attention_context_reduction_accounting",
                         contexts, {output}, Ids(Makers(L, contexts)))
  <2>1. AddReduction(L, contexts, output) = Append(L, r)
    BY <1>1 DEF AddReduction
  <2>2. \A t \in {output} : Local(t)
    OBVIOUS
  <2>3. Good(Append(L, r), mode) /\ Continues(Append(L, r), L)
    BY <2>2, AccountingGood
  <2> QED BY <2>1, <2>3
<1>2. CASE ~(Cardinality(contexts) > 1)
  <2>1. AddReduction(L, contexts, output) = L
    BY <1>2 DEF AddReduction
  <2>2. Continues(L, L)
    BY ListIs DEF Good, Continues
  <2> QED BY <2>1, <2>2
<1> QED BY <1>1, <1>2

(* The tensors of the parts of a block are what their names say.           *)
LEMMA LocalTensors ==
  ASSUME NEW name, name \notin {"hidden", "K.tile", "V.tile"}, NEW head, NEW tile, NEW tile2
  PROVE  /\ Local(Tensor(name, head, tile, tile2)) /\ Local(Whole(name))
         /\ \A place : Local(Placed(Tensor(name, head, tile, tile2), place)) /\ Local(Placed(Whole(name), place))
         /\ Local(Visible(Tensor(name, head, tile, tile2))) /\ Local(Visible(Whole(name)))
BY TensorShape, WholeShape DEF Local, OfShape

LEMMA LocalPlaced ==
  ASSUME NEW name, NEW head, NEW tile, NEW tile2, NEW place, place # "plain"
  PROVE  Local(Placed(Tensor(name, head, tile, tile2), place))
BY TensorShape DEF Local, OfShape

LEMMA ListOfTwo ==
  ASSUME NEW a, NEW b
  PROVE  IsList(<<a, b>>) /\ Len(<<a, b>>) = 2 /\ <<a, b>>[1] = a /\ <<a, b>>[2] = b
<1>1. <<a, b>> \in Seq({a, b})
  OBVIOUS
<1> QED BY <1>1 DEF IsList

LEMMA ListOfThree ==
  ASSUME NEW a, NEW b, NEW c
  PROVE  IsList(<<a, b, c>>) /\ Len(<<a, b, c>>) = 3 /\ <<a, b, c>>[1] = a /\ <<a, b, c>>[2] = b /\ <<a, b, c>>[3] = c
<1>1. <<a, b, c>> \in Seq({a, b, c})
  OBVIOUS
<1> QED BY <1>1 DEF IsList

(***************************************************************************)
(* Decoding.                                                               *)
(***************************************************************************)
LEMMA ScoreTileFits ==
  ASSUME NEW m, NEW head, NEW i, NEW query, NEW L, Good(L, "decode"), query \in 0 .. Len(L) - 1,
         IsQ(L[query + 1]), Made(L, Visible(Tensor("Q", head, 0, 0)))
  PROVE  Fits(L, ScoreTile(m, head, i, query, Len(L)), {Tensor("score", head, i, 0)}, "decode")
<1> DEFINE id == Len(L)
           K == Tensor("K.tile", head, i, 0)
           Q == Visible(Tensor("Q", head, 0, 0))
           S == Tensor("score", head, i, 0)
           R == Placed(K, "resident")
           a == CacheRead(id, "kv_cache_k_tile_read", K, {})
           b == AttentionRecord(m, id + 1, "AttentionScore", {Q, R}, S, {query, id}, OneQuery,
                                CacheTiles(m)[i], CacheTiles(m)[i].tokens)
           c == <<a, b>>
<1>1. ScoreTile(m, head, i, query, Len(L)) = c
  BY DEF ScoreTile
<1>2. Shape(a, id, "HostRead", "kv_cache_k_tile_read", {K}, {R}, {})
  BY RecordShape DEF CacheRead
<1>3. Shape(b, id + 1, "AttentionScore", "AttentionScore", {Q, R}, {S}, {query, id})
  BY AttentionShape
<1> HIDE DEF a, b
<1>4. IsList(c) /\ Len(c) = 2 /\ c[1] = a /\ c[2] = b
  BY ListOfTwo
<1>5. Loose("decode", K) /\ K.name = "K.tile"
  BY TensorShape DEF OfShape, Loose
<1>6. Local(R) /\ Local(S)
  BY LocalPlaced, LocalTensors
<1>7. Len(L) \in Nat /\ IsList(L)
  BY GoodIds
<1> HIDE DEF c, K, Q, S, R
<1>8. Joins(L, c, 1, "decode")
  <2>1. Has(L, c, 1, "decode", K)
    BY <1>5 DEF Has
  <2>2. Shares(L, c, 1)
    BY <1>2, <1>4, <1>5 DEF Shares, Shape, IsQ
  <2> QED BY <1>2, <1>4, <1>6, <1>7, <2>1, <2>2 DEF Joins, Shape
<1>9. Joins(L, c, 2, "decode")
  <2>1. Has(L, c, 2, "decode", R)
    BY <1>2, <1>4 DEF Has, Shape
  <2>2. Has(L, c, 2, "decode", Q)
    BY DEF Has, Q
  <2>3. IsQ(At(L, c, query))
    BY <1>7 DEF At
  <2>4. Shares(L, c, 2)
    BY <1>3, <1>4, <2>3 DEF Shares, Shape, IsQ
  <2> QED BY <1>3, <1>4, <1>6, <1>7, <2>1, <2>2, <2>4 DEF Joins, Shape
<1>10. Made(L \o c, S)
  <2>1. 2 \in 1 .. Len(c) /\ S \in c[2].outputs
    BY <1>3, <1>4 DEF Shape
  <2> QED BY <1>4, <1>7, <2>1, ContinuesConcat
<1>11. \A j \in 1 .. Len(c) : Joins(L, c, j, "decode")
  <2>1. \A j \in 1 .. 2 : j = 1 \/ j = 2
    OBVIOUS
  <2> QED BY <1>4, <1>8, <1>9, <2>1
<1> QED BY <1>1, <1>4, <1>10, <1>11 DEF Fits, S

LEMMA AddScoresGood ==
  ASSUME NEW m, IsList(CacheTiles(m)), NEW records, NEW head, Good(records, "decode")
  PROVE  LET L == AddScores(m, records, head)
         IN  /\ Good(L, "decode") /\ Continues(L, records)
             /\ \A i \in DOMAIN CacheTiles(m) : Made(L, Tensor("score", head, i, 0))
             /\ Len(records) + 1 \in 1 .. Len(L) /\ IsQ(L[Len(records) + 1])
<1> DEFINE query == Len(records)
           n == Len(CacheTiles(m))
           Q == Tensor("Q", head, 0, 0)
           r == Residency(query, "q_operand_residency", Q, Visible(Q), {})
           base == Append(records, r)
           chunk == [p \in (DOMAIN CacheTiles(m)) \X Nat |-> ScoreTile(m, head, p[1], query, p[2])]
           outs == [i \in 1 .. n |-> {Tensor("score", head, i, 0)}]
           M == AppendEach(base, chunk, n)
<1>1. AddScores(m, records, head) = M
  BY DEF AddScores
<1>2. n \in Nat /\ DOMAIN CacheTiles(m) = 1 .. n /\ query \in Nat /\ IsList(records)
  BY ListIs, GoodIds
<1>3. Shape(r, query, "PIMOperandResidency", "q_operand_residency", {Q}, {Visible(Q)}, {})
  BY RecordShape DEF Residency
<1>4. Local(Visible(Q)) /\ Visible(Q).name = "Q"
  <2>1. "Q" \notin {"hidden", "K.tile", "V.tile"}
    OBVIOUS
  <2>2. Local(Visible(Q))
    BY <2>1, LocalTensors
  <2>3. OfShape(Visible(Q), "Q", "pim_visible")
    BY TensorShape
  <2> QED BY <2>2, <2>3 DEF OfShape
<1>5. Joins(records, <<r>>, 1, "decode")
  <2> HIDE DEF r, Q
  <2>1. <<r>>[1] = r
    OBVIOUS
  <2>2. IsRewired("decode", r.op)
    BY <1>3 DEF Shape, IsRewired
  <2>3. Shares(records, <<r>>, 1)
    BY <1>3, <1>4, <2>1 DEF Shares, Shape, IsQ
  <2> QED BY <1>2, <1>3, <1>4, <2>1, <2>2, <2>3 DEF Joins, Shape
<1>6. /\ Good(base, "decode") /\ Continues(base, records) /\ Len(base) = query + 1 /\ base[query + 1] = r
      /\ \A t \in r.outputs : Made(base, t)
  BY <1>5, AppendGood
<1>7. IsQ(r) /\ Visible(Q) \in r.outputs
  BY <1>3 DEF Shape, IsQ
<1> HIDE DEF r, base
<1>8. Rounds(base, chunk, outs, n, "decode")
  <2> SUFFICES ASSUME NEW i \in 1 .. n, NEW L, Good(L, "decode"), Continues(L, base)
               PROVE  Fits(L, chunk[<<i, Len(L)>>], outs[i], "decode")
    BY DEF Rounds
  <2>1. Len(L) \in Nat /\ IsList(base)
    BY <1>6, GoodIds
  <2>2. chunk[<<i, Len(L)>>] = ScoreTile(m, head, i, query, Len(L))
    <3>1. <<i, Len(L)>> \in (DOMAIN CacheTiles(m)) \X Nat
      BY <1>2, <2>1
    <3> QED BY <3>1
  <2>3. outs[i] = {Tensor("score", head, i, 0)}
    OBVIOUS
  <2>4. L[query + 1] = r /\ query \in 0 .. Len(L) - 1
    BY <1>2, <1>6, <2>1 DEF Continues
  <2>5. Made(L, Visible(Q))
    BY <1>6, <1>7, <2>1, MadeContinues
  <2> HIDE DEF chunk, outs
  <2> QED BY <1>7, <2>2, <2>3, <2>4, <2>5, ScoreTileFits
<1> HIDE DEF chunk, outs
<1>9. Good(M, "decode") /\ Continues(M, base) /\ \A i \in 1 .. n : \A t \in outs[i] : Made(M, t)
  BY <1>2, <1>6, <1>8, EachGood
<1>10. Continues(M, records)
  BY <1>2, <1>6, <1>9, ContinuesTransitive
<1>11. \A i \in 1 .. n : Made(M, Tensor("score", head, i, 0))
  BY <1>9 DEF outs
<1>12. query + 1 \in 1 .. Len(M) /\ IsQ(M[query + 1])
  <2>1. query + 1 \in 1 .. Len(base)
    BY <1>2, <1>6
  <2>2. Len(M) \in Nat /\ Len(base) <= Len(M) /\ M[query + 1] = base[query + 1]
    BY <1>9, <2>1, ListIs DEF Continues
  <2> QED BY <1>6, <1>7, <2>1, <2>2
<1> QED BY <1>1, <1>2, <1>9, <1>10, <1>11, <1>12

LEMMA ContextTileFits ==
  ASSUME NEW m, NEW head, NEW i, NEW softmax, NEW L, Good(L, "decode"), softmax \in 0 .. Len(L) - 1,
         ~IsQ(L[softmax + 1]), Made(L, Tensor("probability", head, i, 0))
  PROVE  Fits(L, ContextTile(m, head, i, softmax, Len(L)), {Tensor("context", head, i, 0)}, "decode")
<1> DEFINE id == Len(L)
           P == Tensor("probability", head, i, 0)
           V == Tensor("V.tile", head, i, 0)
           C == Tensor("context", head, i, 0)
           R == Placed(V, "resident")
           U == Visible(P)
           a == Residency(id, "attention_probability_residency", P, U, {softmax})
           b == CacheRead(id + 1, "kv_cache_v_tile_read", V, {softmax})
           d == AttentionRecord(m, id + 2, "AttentionContext", {U, R}, C, {id, softmax, id + 1}, OneQuery,
                                CacheTiles(m)[i], CacheTiles(m)[i].tokens)
           c == <<a, b, d>>
<1>1. ContextTile(m, head, i, softmax, Len(L)) = c
  BY DEF ContextTile
<1>2. /\ Shape(a, id, "PIMOperandResidency", "attention_probability_residency", {P}, {U}, {softmax})
      /\ Shape(b, id + 1, "HostRead", "kv_cache_v_tile_read", {V}, {R}, {softmax})
  BY RecordShape DEF Residency, CacheRead
<1>3. Shape(d, id + 2, "AttentionContext", "AttentionContext", {U, R}, {C}, {id, softmax, id + 1})
  BY AttentionShape
<1> HIDE DEF a, b, d
<1>4. IsList(c) /\ Len(c) = 3 /\ c[1] = a /\ c[2] = b /\ c[3] = d
  BY ListOfThree
<1>5. /\ OfShape(P, "probability", "plain") /\ OfShape(U, "probability", "pim_visible")
      /\ OfShape(R, "V.tile", "resident") /\ OfShape(V, "V.tile", "plain")
  BY TensorShape
<1>6. Loose("decode", V)
  BY <1>5 DEF OfShape, Loose
<1>7. Local(C)
  BY LocalTensors
<1>8. Local(U) /\ Local(R)
  BY <1>5 DEF OfShape, Local
<1>9. Len(L) \in Nat /\ IsList(L)
  BY GoodIds
<1> HIDE DEF c, P, V, C, R, U
<1>10. ~IsQ(At(L, c, softmax))
  BY <1>9 DEF At
<1>11. Joins(L, c, 1, "decode")
  <2>1. Has(L, c, 1, "decode", P)
    BY DEF Has, P
  <2>2. Shares(L, c, 1)
    BY <1>2, <1>4, <1>5, <1>10 DEF Shares, Shape, IsQ, OfShape
  <2> QED BY <1>2, <1>4, <1>8, <1>9, <2>1, <2>2 DEF Joins, Shape
<1>12. Joins(L, c, 2, "decode")
  <2>1. Has(L, c, 2, "decode", V)
    BY <1>6 DEF Has
  <2>2. Shares(L, c, 2)
    BY <1>2, <1>4, <1>5, <1>10 DEF Shares, Shape, IsQ, OfShape
  <2> QED BY <1>2, <1>4, <1>8, <1>9, <2>1, <2>2 DEF Joins, Shape
<1>13. Joins(L, c, 3, "decode")
  <2>1. Has(L, c, 3, "decode", U) /\ Has(L, c, 3, "decode", R)
    <3>1. 1 \in 1 .. 3 - 1 /\ 2 \in 1 .. 3 - 1 /\ U \in c[1].outputs /\ R \in c[2].outputs
      BY <1>2, <1>4 DEF Shape
    <3> QED BY <3>1 DEF Has
  <2>2. ~IsQ(At(L, c, id)) /\ ~IsQ(At(L, c, id + 1))
    <3>1. At(L, c, id) = c[1] /\ At(L, c, id + 1) = c[2]
      BY <1>9 DEF At
    <3> QED BY <3>1, <1>2, <1>4 DEF Shape, IsQ
  <2>3. Shares(L, c, 3)
    BY <1>3, <1>4, <1>5, <1>10, <2>2 DEF Shares, Shape, IsQ, OfShape
  <2> QED BY <1>3, <1>4, <1>7, <1>9, <2>1, <2>3 DEF Joins, Shape
<1>14. Made(L \o c, C)
  <2>1. 3 \in 1 .. Len(c) /\ C \in c[3].outputs
    BY <1>3, <1>4 DEF Shape
  <2> QED BY <1>4, <1>9, <2>1, ContinuesConcat
<1>15. \A j \in 1 .. Len(c) : Joins(L, c, j, "decode")
  <2>1. \A j \in 1 .. 3 : j = 1 \/ j = 2 \/ j = 3
    OBVIOUS
  <2> QED BY <1>4, <1>11, <1>12, <1>13, <2>1
<1> QED BY <1>1, <1>4, <1>14, <1>15 DEF Fits, C

LEMMA AddContextsGood ==
  ASSUME NEW m, IsList(CacheTiles(m)), NEW records, NEW head, Good(records, "decode"),
         \A i \in DOMAIN CacheTiles(m) : Made(records, Tensor("score", head, i, 0))
  PROVE  LET L == AddContexts(m, records, head) IN Good(L, "decode") /\ Continues(L, records)
<1> DEFINE softmax == Len(records)
           n == Len(CacheTiles(m))
           PerTile(name) == {Tensor(name, head, i, 0) : i \in DOMAIN CacheTiles(m)}
           scores == PerTile("score")
           probabilities == PerTile("probability")
           contexts == PerTile("context")
           output == Tensor("context_reduced", head, 0, 0)
           r == Softmax(records, scores, probabilities)
           base == Append(records, r)
           chunk == [p \in (DOMAIN CacheTiles(m)) \X Nat |-> ContextTile(m, head, p[1], softmax, p[2])]
           outs == [i \in 1 .. n |-> {Tensor("context", head, i, 0)}]
           M == AppendEach(base, chunk, n)
<1>1. AddContexts(m, records, head) = AddReduction(M, contexts, output)
  BY DEF AddContexts
<1>2. n \in Nat /\ DOMAIN CacheTiles(m) = 1 .. n /\ softmax \in Nat /\ IsList(records)
  BY ListIs, GoodIds
<1>3. \A t \in scores : Made(records, t) /\ t.name # "Q"
  <2>1. \A i : Tensor("score", head, i, 0).name = "score"
    BY TensorShape DEF OfShape
  <2> QED BY <2>1
<1>4. \A t \in probabilities : Local(t)
  <2>1. "probability" \notin {"hidden", "K.tile", "V.tile"}
    OBVIOUS
  <2>2. \A i : Local(Tensor("probability", head, i, 0))
    BY <2>1, LocalTensors
  <2> QED BY <2>2
<1>5. \A t \in contexts : t.name # "Q"
  <2>1. \A i : Tensor("context", head, i, 0).name = "context"
    BY TensorShape DEF OfShape
  <2> QED BY <2>1
<1>6. Local(output)
  BY LocalTensors
<1>7. \A i \in 1 .. n : Tensor("probability", head, i, 0) \in probabilities
  BY <1>2
<1>c. contexts = {Tensor("context", head, i, 0) : i \in 1 .. n}
  BY <1>2
<1> HIDE DEF scores, probabilities, contexts, output
<1>8. /\ Good(base, "decode") /\ Continues(base, records) /\ Len(base) = softmax + 1
      /\ base[softmax + 1] = r /\ r.op = "attention_softmax_accounting"
      /\ \A t \in probabilities : Made(base, t)
  <2>1. r = Record(Len(records), "AttentionSoftmax", "attention_softmax_accounting", scores, probabilities,
                   Ids(Makers(records, scores)))
    BY DEF Softmax
  <2> HIDE DEF r
  <2> QED BY <1>3, <1>4, <2>1, AccountingGood
<1> HIDE DEF r, base
<1>9. Rounds(base, chunk, outs, n, "decode")
  <2> SUFFICES ASSUME NEW i \in 1 .. n, NEW L, Good(L, "decode"), Continues(L, base)
               PROVE  Fits(L, chunk[<<i, Len(L)>>], outs[i], "decode")
    BY DEF Rounds
  <2>1. Len(L) \in Nat /\ IsList(base)
    BY <1>8, GoodIds
  <2>2. chunk[<<i, Len(L)>>] = ContextTile(m, head, i, softmax, Len(L))
    <3>1. <<i, Len(L)>> \in (DOMAIN CacheTiles(m)) \X Nat
      BY <1>2, <2>1
    <3> QED BY <3>1
  <2>3. outs[i] = {Tensor("context", head, i, 0)}
    OBVIOUS
  <2>4. L[softmax + 1] = r /\ softmax \in 0 .. Len(L) - 1
    BY <1>2, <1>8, <2>1 DEF Continues
  <2>5. ~IsQ(L[softmax + 1])
    BY <1>8, <2>4 DEF IsQ
  <2>6. Made(L, Tensor("probability", head, i, 0))
    BY <1>7, <1>8, <2>1, MadeContinues
  <2> HIDE DEF chunk, outs
  <2> QED BY <2>2, <2>3, <2>4, <2>5, <2>6, ContextTileFits
<1> HIDE DEF chunk, outs
<1>10. Good(M, "decode") /\ Continues(M, base) /\ \A i \in 1 .. n : \A t \in outs[i] : Made(M, t)
  BY <1>2, <1>8, <1>9, EachGood
<1>11. \A t \in contexts : Made(M, t) /\ t.name # "Q"
  <2>1. \A i \in 1 .. n : Made(M, Tensor("context", head, i, 0))
    BY <1>10 DEF outs
  <2> QED BY <1>5, <1>c, <2>1
<1> HIDE DEF M
<1>12. Good(AddReduction(M, contexts, output), "decode") /\ Continues(AddReduction(M, contexts, output), M)
  BY <1>6, <1>10, <1>11, ReductionGood
<1>13. IsList(base) /\ IsList(M)
  BY <1>8, <1>10 DEF Good
<1>14. Continues(M, records)
  BY <1>2, <1>8, <1>10, <1>13, ContinuesTransitive
<1>15. Continues(AddReduction(M, contexts, output), records)
  BY <1>2, <1>12, <1>13, <1>14, ContinuesTransitive
<1> QED BY <1>1, <1>12, <1>15

(***************************************************************************)
(* Attention, part by part.                                                *)
(***************************************************************************)
(* a[k]: the records after k parts.                                        *)
IsParts(a, m, parts) ==
  /\ a[0] = <<>> /\ AddParts(m, parts) = a[Len(parts)]
  /\ \A k \in 1 .. Len(parts) : a[k] = AddPart(m, a[k - 1], parts[k])

LEMMA AddPartsIs ==
  ASSUME NEW m, NEW parts, IsList(parts)
  PROVE  \E a : IsParts(a, m, parts)
<1> DEFINE n == Len(parts)
           Step(x, i) == AddPart(m, x, parts[i])
           Is(f, k) == f = [i \in 0 .. k |-> IF i = 0 THEN <<>> ELSE Step(f[i - 1], i)]
           T == {k \in Nat : \E f : Is(f, k)}
           a == CHOOSE f : Is(f, n)
           none == <<>>
<1>5. AddParts(m, parts) = a[n]
  BY DEF AddParts
<1>n. n \in Nat
  BY ListIs
<1>e. \A f, k : Is(f, k) <=> f = [i \in 0 .. k |-> IF i = 0 THEN none ELSE Step(f[i - 1], i)]
  OBVIOUS
<1> HIDE DEF Step, a, none, n, Is
<1>1. 0 \in T
  <2> DEFINE f == [i \in 0 .. 0 |-> none]
  <2>1. f = [i \in 0 .. 0 |-> IF i = 0 THEN none ELSE Step(f[i - 1], i)]
    OBVIOUS
  <2> HIDE DEF f
  <2> QED BY <2>1, <1>e
<1>2. ASSUME NEW k \in Nat, k \in T PROVE k + 1 \in T
  <2>1. PICK f : f = [i \in 0 .. k |-> IF i = 0 THEN none ELSE Step(f[i - 1], i)]
    BY <1>2, <1>e
  <2> DEFINE g == [i \in 0 .. k + 1 |-> IF i <= k THEN f[i] ELSE Step(f[k], k + 1)]
             h == [i \in 0 .. k + 1 |-> IF i = 0 THEN none ELSE Step(g[i - 1], i)]
  <2>2. \A i \in 0 .. k : g[i] = f[i] /\ f[i] = IF i = 0 THEN none ELSE Step(f[i - 1], i)
    BY <2>1
  <2>3. g[k + 1] = Step(f[k], k + 1)
    OBVIOUS
  <2>4. \A i \in 0 .. k + 1 : h[i] = IF i = 0 THEN none ELSE Step(g[i - 1], i)
    OBVIOUS
  <2>d. DOMAIN g = 0 .. k + 1 /\ DOMAIN h = 0 .. k + 1 /\ g = [i \in 0 .. k + 1 |-> g[i]] /\ h = [i \in 0 .. k + 1 |-> h[i]]
    OBVIOUS
  <2>e. h = [i \in 0 .. k + 1 |-> IF i = 0 THEN none ELSE Step(g[i - 1], i)]
    OBVIOUS
  <2> HIDE DEF g, h
  <2>5. \A i \in 0 .. k + 1 : g[i] = h[i]
    <3> SUFFICES ASSUME NEW i \in 0 .. k + 1 PROVE g[i] = h[i]
      OBVIOUS
    <3>1. CASE i = 0
      <4>1. 0 \in 0 .. k /\ 0 \in 0 .. k + 1
        OBVIOUS
      <4> QED BY <4>1, <3>1, <2>2, <2>4
    <3>2. CASE i \in 1 .. k
      <4>1. i - 1 \in 0 .. k /\ i \in 0 .. k /\ i # 0
        BY <3>2
      <4> QED BY <4>1, <2>2, <2>4
    <3>3. CASE i = k + 1
      <4>1. k \in 0 .. k /\ (k + 1) - 1 = k /\ k + 1 # 0 /\ k + 1 \in 0 .. k + 1
        OBVIOUS
      <4>2. h[k + 1] = Step(g[k], k + 1)
        BY <4>1, <2>4
      <4>3. g[k] = f[k]
        BY <4>1, <2>2
      <4> QED BY <4>2, <4>3, <3>3, <2>3
    <3> QED BY <3>1, <3>2, <3>3
  <2>6. g = h
    BY <2>5, <2>d
  <2>7. Is(g, k + 1)
    BY <2>6, <2>e, <1>e, Zenon
  <2>8. k + 1 \in Nat
    OBVIOUS
  <2> QED BY <2>7, <2>8
<1>3. n \in T
  <2> HIDE DEF T
  <2>1. \A k \in Nat : k \in T => k + 1 \in T
    BY <1>2
  <2> QED BY <1>n, <1>1, <2>1, InductionSet
<1>4. a = [i \in 0 .. n |-> IF i = 0 THEN none ELSE Step(a[i - 1], i)]
  <2>1. \E f : Is(f, n)
    BY <1>3
  <2>2. Is(a, n)
    BY <2>1 DEF a
  <2> QED BY <2>2, <1>e
<1>6. \A i \in 0 .. n : a[i] = IF i = 0 THEN none ELSE Step(a[i - 1], i)
  BY <1>4
<1>7. a[0] = <<>>
  <2>1. 0 \in 0 .. n
    BY <1>n
  <2> QED BY <1>6, <2>1 DEF none
<1>8. ASSUME NEW i \in 1 .. n PROVE a[i] = AddPart(m, a[i - 1], parts[i])
  <2>1. i \in 0 .. n /\ i # 0
    BY <1>n
  <2>2. a[i] = Step(a[i - 1], i)
    BY <1>6, <2>1
  <2> QED BY <2>2 DEF Step
<1> QED BY <1>5, <1>7, <1>8 DEF IsParts, n

(* Every part may follow the parts before it.                              *)
PartRounds(m, parts, outs, mode) ==
  \A k \in 1 .. Len(parts) : \A L :
    Good(L, mode) /\ (\A j \in 1 .. k - 1 : \A t \in outs[j] : Made(L, t)) =>
      LET M == AddPart(m, L, parts[k]) IN Good(M, mode) /\ Continues(M, L) /\ \A t \in outs[k] : Made(M, t)

LEMMA PartsGood ==
  ASSUME NEW m, NEW parts, IsList(parts), NEW outs, NEW mode, PartRounds(m, parts, outs, mode)
  PROVE  /\ Good(AddParts(m, parts), mode)
         /\ Len(parts) > 0 => Continues(AddParts(m, parts), AddPart(m, <<>>, parts[1]))
<1> DEFINE n == Len(parts)
<1>0. PICK a : IsParts(a, m, parts)
  BY AddPartsIs
<1>1. /\ a[0] = <<>> /\ AddParts(m, parts) = a[n] /\ n \in Nat
      /\ \A k \in 1 .. n : a[k] = AddPart(m, a[k - 1], parts[k])
  BY <1>0, ListIs DEF IsParts
<1> DEFINE P(k) == Good(a[k], mode) /\ (k > 0 => Continues(a[k], a[1])) /\ \A j \in 1 .. k : \A t \in outs[j] : Made(a[k], t)
           T == {k \in Nat : k <= n => P(k)}
<1>2. 0 \in T
  BY <1>1, GoodEmpty
<1>f. n > 0 => Good(a[1], mode) /\ a[1] = AddPart(m, <<>>, parts[1])
  <2> SUFFICES ASSUME n > 0 PROVE Good(a[1], mode) /\ a[1] = AddPart(m, <<>>, parts[1])
    OBVIOUS
  <2>1. 1 \in 1 .. n /\ 1 - 1 = 0
    BY <1>1
  <2>2. a[1] = AddPart(m, <<>>, parts[1])
    BY <1>1, <2>1
  <2>3. Good(<<>>, mode) /\ \A j \in 1 .. 1 - 1 : \A t \in outs[j] : Made(<<>>, t)
    BY GoodEmpty
  <2> QED BY <2>1, <2>2, <2>3 DEF PartRounds
<1>3. ASSUME NEW k \in Nat, k \in T PROVE k + 1 \in T
  <2> SUFFICES ASSUME k + 1 <= n PROVE P(k + 1)
    OBVIOUS
  <2> DEFINE L == a[k]
             M == a[k + 1]
  <2>1. P(k) /\ k + 1 \in 1 .. n /\ (k + 1) - 1 = k
    BY <1>1, <1>3
  <2>2. M = AddPart(m, L, parts[k + 1])
    BY <1>1, <2>1
  <2>3. Good(M, mode) /\ Continues(M, L) /\ \A t \in outs[k + 1] : Made(M, t)
    <3>1. Good(L, mode) /\ \A j \in 1 .. (k + 1) - 1 : \A t \in outs[j] : Made(L, t)
      BY <2>1
    <3> HIDE DEF L, M
    <3> QED BY <2>1, <2>2, <3>1 DEF PartRounds
  <2> HIDE DEF L, M
  <2>4. IsList(L)
    BY <2>1 DEF L, Good
  <2>8. ASSUME NEW i \in 1 .. k + 1, NEW t \in outs[i] PROVE Made(M, t)
    <3>1. CASE i \in 1 .. k
      BY <3>1, <2>1, <2>3, <2>4, MadeContinues DEF L
    <3>2. CASE i = k + 1
      BY <3>2, <2>3
    <3> QED BY <3>1, <3>2
  <2>5. IsList(M)
    BY <2>3 DEF Good
  <2>6. Continues(M, a[1])
    <3>1. CASE k = 0
      <4>1. Len(M) \in Nat
        BY <2>5, ListIs
      <4>2. M = a[1]
        BY <3>1 DEF M
      <4> QED BY <2>5, <4>1, <4>2 DEF Continues
    <3>2. CASE k > 0
      <4>1. Continues(L, a[1])
        BY <3>2, <2>1 DEF L
      <4>2. 0 + 1 \in 1 .. n /\ Good(a[1], mode)
        BY <1>1, <2>1, <1>f
      <4>3. IsList(a[1])
        BY <4>2 DEF Good
      <4> QED BY <2>3, <4>1, <4>3, ContinuesTransitive
    <3> QED BY <3>1, <3>2
  <2> QED BY <2>3, <2>6, <2>8 DEF M
<1>4. n \in T
  <2> HIDE DEF T
  <2>1. \A k \in Nat : k \in T => k + 1 \in T
    BY <1>3
  <2> QED BY <1>1, <1>2, <2>1, InductionSet
<1>5. P(n)
  BY <1>1, <1>4
<1> QED BY <1>1, <1>5, <1>f

LEMMA TilesAreList ==
  ASSUME NEW total \in Nat, NEW tile \in Nat \ {0}
  PROVE  IsList(TileRanges(total, tile))
<1> DEFINE n == (total + tile - 1) \div tile
           f == TileRanges(total, tile)
<1>1. n \in Nat
  <2>1. total + tile - 1 \in Nat
    OBVIOUS
  <2> QED BY <2>1
<1>2. f = [i \in 1 .. n |-> [start |-> (i - 1) * tile, tokens |-> Smallest(tile, total - (i - 1) * tile)]]
  BY DEF TileRanges
<1> HIDE DEF n
<1>3. f = [i \in 1 .. n |-> f[i]]
  BY <1>2
<1> HIDE DEF f
<1> QED BY <1>1, <1>3, ListOfFunction DEF f

(* A head is weighed after it was scored.                                  *)
LEMMA DecodePartsOrder ==
  ASSUME NEW m, m.num_heads \in Nat
  PROVE  /\ IsList(DecodeParts(m))
         /\ Len(DecodeParts(m)) = 2 * m.num_heads
         /\ \A k \in 1 .. Len(DecodeParts(m)) :
              LET part == DecodeParts(m)[k]
              IN  \/ part.does = "score"
                  \/ /\ part.does = "weigh"
                     /\ \E j \in 1 .. k - 1 : DecodeParts(m)[j].does = "score" /\ DecodeParts(m)[j].head = part.head
<1> DEFINE n == m.num_heads
           f == DecodeParts(m)
<1>1. CASE m.schedule_policy = "overlap_independent_heads"
  <2>1. f = [k \in 1 .. 2 * n |-> IF k <= n THEN Part("score", k - 1, 1) ELSE Part("weigh", k - 1 - n, 1)]
    BY <1>1 DEF DecodeParts
  <2>2. f = [k \in 1 .. 2 * n |-> f[k]] /\ 2 * n \in Nat
    BY <2>1
  <2>3. IsList(f) /\ Len(f) = 2 * n
    <3> HIDE DEF f, n
    <3> QED BY <2>2, ListOfFunction
  <2>4. ASSUME NEW k \in 1 .. 2 * n
        PROVE  /\ k <= n => f[k].does = "score" /\ f[k].head = k - 1
               /\ k > n => f[k].does = "weigh" /\ f[k].head = k - 1 - n
    <3> HIDE DEF f
    <3> QED BY <2>1 DEF Part
  <2>5. ASSUME NEW k \in 1 .. 2 * n, k > n
        PROVE  k - n \in 1 .. k - 1 /\ f[k - n].does = "score" /\ f[k - n].head = f[k].head
    <3>1. k - n \in 1 .. 2 * n /\ k - n <= n /\ k - n \in 1 .. k - 1 /\ (k - n) - 1 = k - 1 - n
      BY <2>5
    <3> HIDE DEF f, n
    <3> QED BY <2>4, <2>5, <3>1
  <2> HIDE DEF f, n
  <2>6. \A k \in 1 .. 2 * n : k <= n \/ k > n
    BY DEF n
  <2> QED BY <2>3, <2>4, <2>5, <2>6 DEF f, n
<1>2. CASE m.schedule_policy # "overlap_independent_heads"
  <2>1. f = [k \in 1 .. 2 * n |-> Part(IF k % 2 = 1 THEN "score" ELSE "weigh", (k - 1) \div 2, 1)]
    BY <1>2 DEF DecodeParts
  <2>2. f = [k \in 1 .. 2 * n |-> f[k]] /\ 2 * n \in Nat
    BY <2>1
  <2>3. IsList(f) /\ Len(f) = 2 * n
    <3> HIDE DEF f, n
    <3> QED BY <2>2, ListOfFunction
  <2>4. ASSUME NEW k \in 1 .. 2 * n
        PROVE  /\ k % 2 = 1 => f[k].does = "score"
               /\ k % 2 # 1 => f[k].does = "weigh"
               /\ f[k].head = (k - 1) \div 2
    <3> HIDE DEF f
    <3> QED BY <2>1 DEF Part
  <2>5. ASSUME NEW k \in 1 .. 2 * n, k % 2 # 1
        PROVE  k - 1 \in 1 .. k - 1 /\ f[k - 1].does = "score" /\ f[k - 1].head = f[k].head
    <3>1. k - 1 \in 1 .. 2 * n /\ (k - 1) % 2 = 1 /\ ((k - 1) - 1) \div 2 = (k - 1) \div 2 /\ k - 1 \in 1 .. k - 1
      BY <2>5
    <3> HIDE DEF f, n
    <3>2. f[k - 1].does = "score" /\ f[k - 1].head = ((k - 1) - 1) \div 2 /\ f[k].head = (k - 1) \div 2
      BY <2>4, <3>1
    <3> QED BY <3>1, <3>2
  <2> HIDE DEF f, n
  <2> QED BY <2>3, <2>4, <2>5 DEF f, n
<1> QED BY <1>1, <1>2

LEMMA DecodeAttentionGood ==
  ASSUME NEW m, m.num_heads \in Nat \ {0}, IsList(CacheTiles(m))
  PROVE  /\ Good(DecodeAttention(m), "decode")
         /\ \E i \in 1 .. Len(DecodeAttention(m)) : IsQ(DecodeAttention(m)[i])
<1> DEFINE parts == DecodeParts(m)
           Scores(head) == {Tensor("score", head, i, 0) : i \in DOMAIN CacheTiles(m)}
           outs == [k \in 1 .. Len(parts) |-> IF parts[k].does = "score" THEN Scores(parts[k].head) ELSE {}]
<1>1. /\ IsList(parts)
      /\ \A k \in 1 .. Len(parts) :
           \/ parts[k].does = "score"
           \/ /\ parts[k].does = "weigh"
              /\ \E j \in 1 .. k - 1 : parts[j].does = "score" /\ parts[j].head = parts[k].head
  BY DecodePartsOrder
<1>2. Len(parts) \in Nat
  BY <1>1, ListIs
<1>p. Len(parts) = 2 * m.num_heads
  BY DecodePartsOrder
<1> HIDE DEF parts
<1>3. \A k \in 1 .. Len(parts) : outs[k] = IF parts[k].does = "score" THEN Scores(parts[k].head) ELSE {}
  OBVIOUS
<1>s. \A head : \A t : t \in Scores(head) <=> \E i \in DOMAIN CacheTiles(m) : t = Tensor("score", head, i, 0)
  OBVIOUS
<1> HIDE DEF outs, Scores
<1>4. PartRounds(m, parts, outs, "decode")
  <2> SUFFICES ASSUME NEW k \in 1 .. Len(parts), NEW L, Good(L, "decode"),
                      \A j \in 1 .. k - 1 : \A t \in outs[j] : Made(L, t)
               PROVE  LET M == AddPart(m, L, parts[k])
                      IN  Good(M, "decode") /\ Continues(M, L) /\ \A t \in outs[k] : Made(M, t)
    BY DEF PartRounds
  <2>1. CASE parts[k].does = "score"
    <3> DEFINE M == AddScores(m, L, parts[k].head)
    <3>1. AddPart(m, L, parts[k]) = M
      BY <2>1 DEF AddPart
    <3>2. /\ Good(M, "decode") /\ Continues(M, L)
          /\ \A i \in DOMAIN CacheTiles(m) : Made(M, Tensor("score", parts[k].head, i, 0))
      BY AddScoresGood
    <3> HIDE DEF M
    <3>3. \A t \in outs[k] : Made(M, t)
      BY <1>3, <1>s, <2>1, <3>2
    <3> QED BY <3>1, <3>2, <3>3
  <2>2. CASE parts[k].does # "score"
    <3> DEFINE M == AddContexts(m, L, parts[k].head)
    <3>1. parts[k].does = "weigh"
      BY <1>1, <2>2
    <3>2. AddPart(m, L, parts[k]) = M
      BY <3>1 DEF AddPart
    <3>3. PICK j \in 1 .. k - 1 : parts[j].does = "score" /\ parts[j].head = parts[k].head
      BY <1>1, <2>2
    <3>4. j \in 1 .. Len(parts)
      BY <1>2
    <3>5. \A i \in DOMAIN CacheTiles(m) : Made(L, Tensor("score", parts[k].head, i, 0))
      BY <1>3, <1>s, <3>3, <3>4
    <3>6. Good(M, "decode") /\ Continues(M, L)
      BY <3>5, AddContextsGood
    <3> QED BY <1>3, <2>2, <3>2, <3>6
  <2> QED BY <2>1, <2>2
<1> DEFINE L == AddParts(m, parts)
           first == AddScores(m, <<>>, parts[1].head)
<1>5. Good(L, "decode") /\ Continues(L, AddPart(m, <<>>, parts[1]))
  BY <1>1, <1>2, <1>4, <1>p, PartsGood
<1>6. parts[1].does = "score"
  BY <1>1, <1>2, <1>p
<1>7. AddPart(m, <<>>, parts[1]) = first
  BY <1>6 DEF AddPart
<1>8. 1 \in 1 .. Len(first) /\ IsQ(first[1]) /\ Good(first, "decode")
  BY GoodEmpty, EmptyList, AddScoresGood
<1>9. DecodeAttention(m) = L
  BY DEF DecodeAttention, parts
<1> HIDE DEF first, L
<1>10. Len(L) \in Nat /\ 1 \in 1 .. Len(L) /\ L[1] = first[1]
  BY <1>5, <1>7, <1>8, ListIs DEF Continues, Good
<1> QED BY <1>5, <1>8, <1>9, <1>10

(***************************************************************************)
(* Prefill.                                                                *)
(***************************************************************************)
LEMMA PrefillOperandShape ==
  ASSUME NEW id, NEW op, NEW name, NEW head, NEW k
  PROVE  /\ Shape(PrefillOperand(id, op, name, head, k), id, "PIMOperandResidency", op,
                  {Tensor(name, head, k, 0)}, {Visible(Tensor(name, head, k, 0))}, {})
         /\ Local(Visible(Tensor(name, head, k, 0)))
<1>1. Shape(PrefillOperand(id, op, name, head, k), id, "PIMOperandResidency", op,
            {Tensor(name, head, k, 0)}, {Visible(Tensor(name, head, k, 0))}, {})
  BY RecordShape DEF PrefillOperand, Residency
<1>2. OfShape(Visible(Tensor(name, head, k, 0)), name, "pim_visible")
  BY TensorShape
<1> QED BY <1>1, <1>2 DEF OfShape, Local

LEMMA QueryScoreFits ==
  ASSUME NEW m, NEW head, NEW q, NEW k, NEW query, NEW L, Good(L, "prefill"), query \in 0 .. Len(L) - 1,
         Made(L, Visible(Tensor("Q", head, q, 0)))
  PROVE  Fits(L, QueryScore(m, head, q, k, query, Len(L)), {Tensor("score", head, q, k)}, "prefill")
<1> DEFINE id == Len(L)
           Q == Visible(Tensor("Q", head, q, 0))
           K == Visible(Tensor("K", head, k, 0))
           S == Tensor("score", head, q, k)
           a == PrefillOperand(id, "k_prefill_tile_residency", "K", head, k)
           b == AttentionRecord(m, id + 1, "AttentionScore", {Q, K}, S, {query, id}, QueryTiles(m)[q],
                                KeyTiles(m)[k], Pairs(m, q, k))
           c == <<a, b>>
<1>1. QueryScore(m, head, q, k, query, Len(L)) = c
  BY DEF QueryScore
<1>2. Shape(a, id, "PIMOperandResidency", "k_prefill_tile_residency", {Tensor("K", head, k, 0)}, {K}, {}) /\ Local(K)
  BY PrefillOperandShape
<1>3. Shape(b, id + 1, "AttentionScore", "AttentionScore", {Q, K}, {S}, {query, id})
  BY AttentionShape
<1> HIDE DEF a, b
<1>4. IsList(c) /\ Len(c) = 2 /\ c[1] = a /\ c[2] = b
  BY ListOfTwo
<1>5. Local(S)
  BY LocalTensors
<1>6. Len(L) \in Nat /\ IsList(L)
  BY GoodIds
<1> HIDE DEF c, Q, K, S
<1>7. Joins(L, c, 1, "prefill")
  BY <1>2, <1>4, <1>6 DEF Joins, Shape, IsRewired
<1>8. Joins(L, c, 2, "prefill")
  <2>1. Has(L, c, 2, "prefill", K)
    BY <1>2, <1>4 DEF Has, Shape
  <2>2. Has(L, c, 2, "prefill", Q)
    BY DEF Has, Q
  <2> QED BY <1>3, <1>4, <1>5, <1>6, <2>1, <2>2 DEF Joins, Shape
<1>9. Made(L \o c, S)
  <2>1. 2 \in 1 .. Len(c) /\ S \in c[2].outputs
    BY <1>3, <1>4 DEF Shape
  <2> QED BY <1>4, <1>6, <2>1, ContinuesConcat
<1>10. \A j \in 1 .. Len(c) : Joins(L, c, j, "prefill")
  <2>1. \A j \in 1 .. 2 : j = 1 \/ j = 2
    OBVIOUS
  <2> QED BY <1>4, <1>7, <1>8, <2>1
<1> QED BY <1>1, <1>4, <1>9, <1>10 DEF Fits, S

LEMMA QueryContextFits ==
  ASSUME NEW m, NEW head, NEW q, NEW k, NEW softmax, NEW L, Good(L, "prefill"), softmax \in 0 .. Len(L) - 1,
         Made(L, Tensor("probability", head, q, k))
  PROVE  Fits(L, QueryContext(m, head, q, k, softmax, Len(L)), {Tensor("context", head, q, k)}, "prefill")
<1> DEFINE id == Len(L)
           P == Tensor("probability", head, q, k)
           U == Visible(P)
           V == Visible(Tensor("V", head, k, 0))
           C == Tensor("context", head, q, k)
           a == Residency(id, "attention_probability_residency", P, U, {softmax})
           b == PrefillOperand(id + 1, "v_prefill_tile_residency", "V", head, k)
           d == AttentionRecord(m, id + 2, "AttentionContext", {U, V}, C, {id, softmax, id + 1}, QueryTiles(m)[q],
                                KeyTiles(m)[k], Pairs(m, q, k))
           c == <<a, b, d>>
<1>1. QueryContext(m, head, q, k, softmax, Len(L)) = c
  BY DEF QueryContext
<1>2. Shape(a, id, "PIMOperandResidency", "attention_probability_residency", {P}, {U}, {softmax})
  BY RecordShape DEF Residency
<1>3. /\ Shape(b, id + 1, "PIMOperandResidency", "v_prefill_tile_residency", {Tensor("V", head, k, 0)}, {V}, {})
      /\ Local(V)
  BY PrefillOperandShape
<1>4. Shape(d, id + 2, "AttentionContext", "AttentionContext", {U, V}, {C}, {id, softmax, id + 1})
  BY AttentionShape
<1> HIDE DEF a, b, d
<1>5. IsList(c) /\ Len(c) = 3 /\ c[1] = a /\ c[2] = b /\ c[3] = d
  BY ListOfThree
<1>6. Local(C) /\ Local(U)
  BY LocalTensors
<1>7. Len(L) \in Nat /\ IsList(L)
  BY GoodIds
<1> HIDE DEF c, P, U, V, C
<1>8. Joins(L, c, 1, "prefill")
  <2>1. Has(L, c, 1, "prefill", P)
    BY DEF Has, P
  <2> QED BY <1>2, <1>5, <1>6, <1>7, <2>1 DEF Joins, Shape
<1>9. Joins(L, c, 2, "prefill")
  BY <1>3, <1>5, <1>7 DEF Joins, Shape, IsRewired
<1>10. Joins(L, c, 3, "prefill")
  <2>1. Has(L, c, 3, "prefill", U) /\ Has(L, c, 3, "prefill", V)
    <3>1. 1 \in 1 .. 3 - 1 /\ 2 \in 1 .. 3 - 1 /\ U \in c[1].outputs /\ V \in c[2].outputs
      BY <1>2, <1>3, <1>5 DEF Shape
    <3> QED BY <3>1 DEF Has
  <2> QED BY <1>4, <1>5, <1>6, <1>7, <2>1 DEF Joins, Shape
<1>11. Made(L \o c, C)
  <2>1. 3 \in 1 .. Len(c) /\ C \in c[3].outputs
    BY <1>4, <1>5 DEF Shape
  <2> QED BY <1>5, <1>7, <2>1, ContinuesConcat
<1>12. \A j \in 1 .. Len(c) : Joins(L, c, j, "prefill")
  <2>1. \A j \in 1 .. 3 : j = 1 \/ j = 2 \/ j = 3
    OBVIOUS
  <2> QED BY <1>5, <1>8, <1>9, <1>10, <2>1
<1> QED BY <1>1, <1>5, <1>11, <1>12 DEF Fits, C

LEMMA EmptyFits ==
  ASSUME NEW L, NEW mode
  PROVE  Fits(L, <<>>, {}, mode)
BY EmptyList DEF Fits

LEMMA AddQueryGood ==
  ASSUME NEW m, IsList(KeyTiles(m)), NEW records, NEW head, NEW q, Good(records, "prefill")
  PROVE  LET L == AddQuery(m, records, head, q) IN Good(L, "prefill") /\ Continues(L, records)
<1> DEFINE query == Len(records)
           n == Len(KeyTiles(m))
           PerTile(name) == {Tensor(name, head, q, k) : k \in Legal(m, q)}
           scores == PerTile("score")
           probabilities == PerTile("probability")
           contexts == PerTile("context")
           output == Tensor("context_reduced", head, q, 0)
           Q == Visible(Tensor("Q", head, q, 0))
           r == PrefillOperand(query, "q_operand_residency", "Q", head, q)
           base == Append(records, r)
           chunk == [p \in (DOMAIN KeyTiles(m)) \X Nat |->
                       IF p[1] \in Legal(m, q) THEN QueryScore(m, head, q, p[1], query, p[2]) ELSE <<>>]
           outs == [k \in 1 .. n |-> IF k \in Legal(m, q) THEN {Tensor("score", head, q, k)} ELSE {}]
           scored == AppendEach(base, chunk, n)
           softmax == Len(scored)
           s == Softmax(scored, scores, probabilities)
           next == Append(scored, s)
           chunk2 == [p \in (DOMAIN KeyTiles(m)) \X Nat |->
                        IF p[1] \in Legal(m, q) THEN QueryContext(m, head, q, p[1], softmax, p[2]) ELSE <<>>]
           outs2 == [k \in 1 .. n |-> IF k \in Legal(m, q) THEN {Tensor("context", head, q, k)} ELSE {}]
           weighed == AppendEach(next, chunk2, n)
<1>1. AddQuery(m, records, head, q) = AddReduction(weighed, contexts, output)
  BY DEF AddQuery
<1>2. n \in Nat /\ DOMAIN KeyTiles(m) = 1 .. n /\ query \in Nat /\ IsList(records)
  BY ListIs, GoodIds
<1>3. Legal(m, q) \subseteq 1 .. n
  BY <1>2 DEF Legal
<1>4. \A t \in scores : (\E k \in Legal(m, q) : t = Tensor("score", head, q, k)) /\ t.name # "Q"
  <2>1. \A k : Tensor("score", head, q, k).name = "score"
    BY TensorShape DEF OfShape
  <2> QED BY <2>1
<1>5. \A t \in probabilities : Local(t)
  <2>1. "probability" \notin {"hidden", "K.tile", "V.tile"}
    OBVIOUS
  <2>2. \A k : Local(Tensor("probability", head, q, k))
    BY <2>1, LocalTensors
  <2> QED BY <2>2
<1>6. \A t \in contexts : (\E k \in Legal(m, q) : t = Tensor("context", head, q, k)) /\ t.name # "Q"
  <2>1. \A k : Tensor("context", head, q, k).name = "context"
    BY TensorShape DEF OfShape
  <2> QED BY <2>1
<1>7. Local(output)
  BY LocalTensors
<1>8. \A k \in Legal(m, q) : Tensor("probability", head, q, k) \in probabilities
  OBVIOUS
<1>9. /\ Shape(r, query, "PIMOperandResidency", "q_operand_residency", {Tensor("Q", head, q, 0)}, {Q}, {})
      /\ Local(Q)
  BY PrefillOperandShape
<1> HIDE DEF scores, probabilities, contexts, output, r, Q
<1>10. Joins(records, <<r>>, 1, "prefill")
  <2>1. <<r>>[1] = r
    OBVIOUS
  <2>2. IsRewired("prefill", r.op)
    BY <1>9 DEF Shape, IsRewired
  <2> QED BY <1>2, <1>9, <2>1, <2>2 DEF Joins, Shape
<1>11. /\ Good(base, "prefill") /\ Continues(base, records) /\ Len(base) = query + 1
       /\ \A t \in r.outputs : Made(base, t)
  BY <1>10, AppendGood
<1>12. Q \in r.outputs
  BY <1>9 DEF Shape
<1>i. ASSUME NEW k \in 1 .. n, NEW L, Good(L, "prefill") PROVE <<k, Len(L)>> \in (DOMAIN KeyTiles(m)) \X Nat
  BY <1>i, <1>2, GoodIds
<1> HIDE DEF base
<1>13. Rounds(base, chunk, outs, n, "prefill")
  <2> SUFFICES ASSUME NEW k \in 1 .. n, NEW L, Good(L, "prefill"), Continues(L, base)
               PROVE  Fits(L, chunk[<<k, Len(L)>>], outs[k], "prefill")
    BY DEF Rounds
  <2>1. Len(L) \in Nat /\ IsList(base) /\ <<k, Len(L)>> \in (DOMAIN KeyTiles(m)) \X Nat
    BY <1>i, <1>11, GoodIds
  <2>2. CASE k \in Legal(m, q)
    <3>1. chunk[<<k, Len(L)>>] = QueryScore(m, head, q, k, query, Len(L))
      BY <2>1, <2>2
    <3>2. outs[k] = {Tensor("score", head, q, k)}
      BY <2>2
    <3>3. query \in 0 .. Len(L) - 1
      BY <1>2, <1>11, <2>1 DEF Continues
    <3>4. Made(L, Visible(Tensor("Q", head, q, 0)))
      BY <1>11, <1>12, <2>1, MadeContinues DEF Q
    <3> HIDE DEF chunk, outs
    <3> QED BY <3>1, <3>2, <3>3, <3>4, QueryScoreFits
  <2>3. CASE k \notin Legal(m, q)
    <3>1. chunk[<<k, Len(L)>>] = <<>>
      BY <2>1, <2>3
    <3>2. outs[k] = {}
      BY <2>3
    <3> HIDE DEF chunk, outs
    <3> QED BY <3>1, <3>2, EmptyFits
  <2> QED BY <2>2, <2>3
<1>o. \A k \in Legal(m, q) : Tensor("score", head, q, k) \in outs[k] /\ Tensor("context", head, q, k) \in outs2[k]
  BY <1>3
<1> HIDE DEF chunk, outs, outs2
<1>14. Good(scored, "prefill") /\ Continues(scored, base) /\ \A k \in 1 .. n : \A t \in outs[k] : Made(scored, t)
  BY <1>2, <1>11, <1>13, EachGood
<1>15. \A t \in scores : Made(scored, t) /\ t.name # "Q"
  BY <1>3, <1>4, <1>14, <1>o
<1>16. Continues(scored, records)
  BY <1>2, <1>11, <1>14, ContinuesTransitive
<1> HIDE DEF scored
<1>17. softmax \in Nat /\ IsList(scored)
  BY <1>14, GoodIds
<1>18. /\ Good(next, "prefill") /\ Continues(next, scored) /\ Len(next) = softmax + 1
       /\ \A t \in probabilities : Made(next, t)
  <2>1. s = Record(Len(scored), "AttentionSoftmax", "attention_softmax_accounting", scores, probabilities,
                   Ids(Makers(scored, scores)))
    BY DEF Softmax
  <2> HIDE DEF s
  <2> QED BY <1>5, <1>14, <1>15, <2>1, AccountingGood
<1> HIDE DEF s, next
<1>19. Rounds(next, chunk2, outs2, n, "prefill")
  <2> SUFFICES ASSUME NEW k \in 1 .. n, NEW L, Good(L, "prefill"), Continues(L, next)
               PROVE  Fits(L, chunk2[<<k, Len(L)>>], outs2[k], "prefill")
    BY DEF Rounds
  <2>1. Len(L) \in Nat /\ IsList(next) /\ <<k, Len(L)>> \in (DOMAIN KeyTiles(m)) \X Nat
    BY <1>i, <1>18, GoodIds
  <2>2. CASE k \in Legal(m, q)
    <3>1. chunk2[<<k, Len(L)>>] = QueryContext(m, head, q, k, softmax, Len(L))
      BY <2>1, <2>2
    <3>2. outs2[k] = {Tensor("context", head, q, k)}
      BY <2>2 DEF outs2
    <3>3. softmax \in 0 .. Len(L) - 1
      BY <1>17, <1>18, <2>1 DEF Continues
    <3>4. Made(L, Tensor("probability", head, q, k))
      BY <1>8, <1>18, <2>1, <2>2, MadeContinues
    <3> HIDE DEF chunk2
    <3> QED BY <3>1, <3>2, <3>3, <3>4, QueryContextFits
  <2>3. CASE k \notin Legal(m, q)
    <3>1. chunk2[<<k, Len(L)>>] = <<>>
      BY <2>1, <2>3
    <3>2. outs2[k] = {}
      BY <2>3 DEF outs2
    <3> HIDE DEF chunk2
    <3> QED BY <3>1, <3>2, EmptyFits
  <2> QED BY <2>2, <2>3
<1> HIDE DEF chunk2
<1>20. Good(weighed, "prefill") /\ Continues(weighed, next) /\ \A k \in 1 .. n : \A t \in outs2[k] : Made(weighed, t)
  BY <1>2, <1>18, <1>19, EachGood
<1>21. \A t \in contexts : Made(weighed, t) /\ t.name # "Q"
  BY <1>3, <1>6, <1>20, <1>o
<1> HIDE DEF weighed
<1>22. Good(AddReduction(weighed, contexts, output), "prefill")
       /\ Continues(AddReduction(weighed, contexts, output), weighed)
  BY <1>7, <1>20, <1>21, ReductionGood
<1>23. IsList(next) /\ IsList(weighed)
  BY <1>18, <1>20 DEF Good
<1>24. Continues(next, records)
  BY <1>2, <1>16, <1>18, ContinuesTransitive
<1>25. Continues(weighed, records)
  BY <1>2, <1>20, <1>24, ContinuesTransitive
<1>26. Continues(AddReduction(weighed, contexts, output), records)
  BY <1>2, <1>22, <1>25, ContinuesTransitive
<1> QED BY <1>1, <1>22, <1>26

LEMMA PrefillAttentionGood ==
  ASSUME NEW m, m.num_heads \in Nat, IsList(QueryTiles(m)), IsList(KeyTiles(m))
  PROVE  Good(PrefillAttention(m), "prefill")
<1> DEFINE parts == PrefillParts(m)
           queries == Len(QueryTiles(m))
           n == m.num_heads * queries
           outs == [k \in 1 .. n |-> {}]
<1>1. parts = [k \in 1 .. n |-> Part("attend", (k - 1) \div queries, ((k - 1) % queries) + 1)]
  BY DEF PrefillParts
<1>2. n \in Nat
  BY ListIs
<1> HIDE DEF n, queries
<1>3. parts = [k \in 1 .. n |-> parts[k]] /\ \A k \in 1 .. n : parts[k].does = "attend"
  BY <1>1 DEF Part
<1> HIDE DEF parts
<1>4. IsList(parts) /\ Len(parts) = n
  BY <1>2, <1>3, ListOfFunction
<1>5. PartRounds(m, parts, outs, "prefill")
  <2> SUFFICES ASSUME NEW k \in 1 .. n, NEW L, Good(L, "prefill")
               PROVE  LET M == AddPart(m, L, parts[k])
                      IN  Good(M, "prefill") /\ Continues(M, L) /\ \A t \in outs[k] : Made(M, t)
    BY <1>4 DEF PartRounds
  <2> DEFINE M == AddQuery(m, L, parts[k].head, parts[k].query)
  <2>1. AddPart(m, L, parts[k]) = M
    BY <1>3 DEF AddPart
  <2>2. Good(M, "prefill") /\ Continues(M, L)
    BY AddQueryGood
  <2>3. outs[k] = {}
    OBVIOUS
  <2> HIDE DEF M, outs
  <2> QED BY <2>1, <2>2, <2>3
<1> HIDE DEF outs
<1>6. Good(AddParts(m, parts), "prefill")
  BY <1>4, <1>5, PartsGood
<1> QED BY <1>6 DEF PrefillAttention, parts

(***************************************************************************)
(* The feed-forward network.                                               *)
(***************************************************************************)
LEMMA FFNGatedFits ==
  ASSUME NEW m, NEW base \in Nat, NEW up_weight \in 0 .. base, NEW gate_weight \in 0 .. base, NEW L,
         Good(L, "feed_forward"), Len(L) = base + 1, Made(L, Whole("hidden.reused")),
         Made(L, Resident("up_weight", 0)), Made(L, Resident("gate_weight", 0))
  PROVE  Fits(L, FFNGated(m, base, up_weight, gate_weight), {Whole("intermediate")}, "feed_forward")
<1> DEFINE U == Whole("up")
           UV == Visible(Whole("up"))
           G == Whole("gate")
           GV == Visible(Whole("gate"))
           A == Whole("activated")
           AV == Visible(Whole("activated"))
           I == Whole("intermediate")
           H == Whole("hidden.reused")
           WU == Resident("up_weight", 0)
           WG == Resident("gate_weight", 0)
           r1 == FFNProjection(m, base + 1, "ffn_up_projection", Whole("hidden.reused"), "up_weight", Whole("up"), {base, up_weight})
           r2 == Residency(base + 2, "ffn_up_intermediate_residency", Whole("up"), Visible(Whole("up")), {base + 1})
           r3 == FFNProjection(m, base + 3, "ffn_gate_projection", Whole("hidden.reused"), "gate_weight", Whole("gate"), {base, gate_weight})
           r4 == Residency(base + 4, "ffn_gate_intermediate_residency", Whole("gate"), Visible(Whole("gate")), {base + 3})
           r5 == Elementwise(base + 5, "ffn_gate_activation_accounting", {Visible(Whole("gate"))}, Whole("activated"), {base + 4})
           r6 == Residency(base + 6, "ffn_activated_gate_residency", Whole("activated"), Visible(Whole("activated")), {base + 5})
           r7 == Elementwise(base + 7, "ffn_gated_multiply_accounting", {Visible(Whole("activated")), Visible(Whole("up"))},
                           Whole("intermediate"), {base + 6, base + 2})
           c == <<r1, r2, r3, r4, r5, r6, r7>>
<1>1. FFNGated(m, base, up_weight, gate_weight) = c
  BY DEF FFNGated
<1>s1. Shape(r1, base + 1, "FFNProjection", "ffn_up_projection", {H, WU}, {U}, {base, up_weight})
  BY RecordShape DEF FFNProjection
<1>s2. Shape(r2, base + 2, "PIMOperandResidency", "ffn_up_intermediate_residency", {U}, {UV}, {base + 1})
  BY RecordShape DEF Residency
<1>s3. Shape(r3, base + 3, "FFNProjection", "ffn_gate_projection", {H, WG}, {G}, {base, gate_weight})
  BY RecordShape DEF FFNProjection
<1>s4. Shape(r4, base + 4, "PIMOperandResidency", "ffn_gate_intermediate_residency", {G}, {GV}, {base + 3})
  BY RecordShape DEF Residency
<1>s5. Shape(r5, base + 5, "PIMElementwise", "ffn_gate_activation_accounting", {GV}, {A}, {base + 4})
  BY RecordShape DEF Elementwise
<1>s6. Shape(r6, base + 6, "PIMOperandResidency", "ffn_activated_gate_residency", {A}, {AV}, {base + 5})
  BY RecordShape DEF Residency
<1>s7. Shape(r7, base + 7, "PIMElementwise", "ffn_gated_multiply_accounting", {AV, UV}, {I}, {base + 6, base + 2})
  BY RecordShape DEF Elementwise
<1> HIDE DEF r1, r2, r3, r4, r5, r6, r7
<1>2. /\ IsList(c) /\ Len(c) = 7
      /\ c[1] = r1 /\ c[2] = r2 /\ c[3] = r3 /\ c[4] = r4 /\ c[5] = r5 /\ c[6] = r6 /\ c[7] = r7
  <2>1. c \in Seq({r1, r2, r3, r4, r5, r6, r7}) /\ Len(c) = 7
    OBVIOUS
  <2> QED BY <2>1 DEF IsList
<1>t1. Local(U)
  BY LocalTensors
<1>t2. Local(UV)
  BY LocalTensors
<1>t3. Local(G)
  BY LocalTensors
<1>t4. Local(GV)
  BY LocalTensors
<1>t5. Local(A)
  BY LocalTensors
<1>t6. Local(AV)
  BY LocalTensors
<1>t7. Local(I)
  BY LocalTensors
<1>3. Len(L) \in Nat /\ IsList(L)
  BY GoodIds
<1> HIDE DEF c, U, UV, G, GV, A, AV, I, H, WU, WG
<1>j1. Joins(L, c, 1, "feed_forward")
  <2>1. Has(L, c, 1, "feed_forward", H)
    BY DEF Has, H
  <2>2. Has(L, c, 1, "feed_forward", WU)
    BY DEF Has, WU
  <2> QED BY <1>2, <1>3, <1>s1, <1>t1, <2>1, <2>2 DEF Joins, Shape
<1>j2. Joins(L, c, 2, "feed_forward")
  <2>1. Has(L, c, 2, "feed_forward", U)
    <3>1. 1 \in 1 .. 2 - 1 /\ U \in c[1].outputs
      BY <1>2, <1>s1 DEF Shape
    <3> QED BY <3>1 DEF Has
  <2> QED BY <1>2, <1>3, <1>s2, <1>t2, <2>1 DEF Joins, Shape
<1>j3. Joins(L, c, 3, "feed_forward")
  <2>1. Has(L, c, 3, "feed_forward", H)
    BY DEF Has, H
  <2>2. Has(L, c, 3, "feed_forward", WG)
    BY DEF Has, WG
  <2> QED BY <1>2, <1>3, <1>s3, <1>t3, <2>1, <2>2 DEF Joins, Shape
<1>j4. Joins(L, c, 4, "feed_forward")
  <2>1. Has(L, c, 4, "feed_forward", G)
    <3>1. 3 \in 1 .. 4 - 1 /\ G \in c[3].outputs
      BY <1>2, <1>s3 DEF Shape
    <3> QED BY <3>1 DEF Has
  <2> QED BY <1>2, <1>3, <1>s4, <1>t4, <2>1 DEF Joins, Shape
<1>j5. Joins(L, c, 5, "feed_forward")
  <2>1. Has(L, c, 5, "feed_forward", GV)
    <3>1. 4 \in 1 .. 5 - 1 /\ GV \in c[4].outputs
      BY <1>2, <1>s4 DEF Shape
    <3> QED BY <3>1 DEF Has
  <2> QED BY <1>2, <1>3, <1>s5, <1>t5, <2>1 DEF Joins, Shape
<1>j6. Joins(L, c, 6, "feed_forward")
  <2>1. Has(L, c, 6, "feed_forward", A)
    <3>1. 5 \in 1 .. 6 - 1 /\ A \in c[5].outputs
      BY <1>2, <1>s5 DEF Shape
    <3> QED BY <3>1 DEF Has
  <2> QED BY <1>2, <1>3, <1>s6, <1>t6, <2>1 DEF Joins, Shape
<1>j7. Joins(L, c, 7, "feed_forward")
  <2>1. Has(L, c, 7, "feed_forward", AV)
    <3>1. 6 \in 1 .. 7 - 1 /\ AV \in c[6].outputs
      BY <1>2, <1>s6 DEF Shape
    <3> QED BY <3>1 DEF Has
  <2>2. Has(L, c, 7, "feed_forward", UV)
    <3>1. 2 \in 1 .. 7 - 1 /\ UV \in c[2].outputs
      BY <1>2, <1>s2 DEF Shape
    <3> QED BY <3>1 DEF Has
  <2> QED BY <1>2, <1>3, <1>s7, <1>t7, <2>1, <2>2 DEF Joins, Shape
<1>m7. Made(L \o c, I)
  <2>1. 7 \in 1 .. Len(c) /\ I \in c[7].outputs
    BY <1>2, <1>s7 DEF Shape
  <2> QED BY <1>2, <1>3, <2>1, ContinuesConcat
<1>4. \A j \in 1 .. Len(c) : Joins(L, c, j, "feed_forward")
  <2>1. \A j \in 1 .. 7 : j = 1 \/ j = 2 \/ j = 3 \/ j = 4 \/ j = 5 \/ j = 6 \/ j = 7
    OBVIOUS
  <2> QED BY <1>2, <2>1, <1>j1, <1>j2, <1>j3, <1>j4, <1>j5, <1>j6, <1>j7
<1> QED BY <1>1, <1>2, <1>4, <1>m7 DEF Fits, I

LEMMA FFNReluFits ==
  ASSUME NEW m, NEW base \in Nat, NEW up_weight \in 0 .. base, NEW L,
         Good(L, "feed_forward"), Len(L) = base + 1, Made(L, Whole("hidden.reused")), Made(L, Resident("up_weight", 0))
  PROVE  Fits(L, FFNRelu(m, base, up_weight), {Whole("intermediate")}, "feed_forward")
<1> DEFINE U == Whole("up")
           UV == Visible(Whole("up"))
           I == Whole("intermediate")
           H == Whole("hidden.reused")
           WU == Resident("up_weight", 0)
           r1 == FFNProjection(m, base + 1, "ffn_up_projection", Whole("hidden.reused"), "up_weight", Whole("up"), {base, up_weight})
           r2 == Residency(base + 2, "ffn_up_intermediate_residency", Whole("up"), Visible(Whole("up")), {base + 1})
           r3 == Elementwise(base + 3, "ffn_relu_activation_accounting", {Visible(Whole("up"))}, Whole("intermediate"), {base + 2})
           c == <<r1, r2, r3>>
<1>1. FFNRelu(m, base, up_weight) = c
  BY DEF FFNRelu
<1>s1. Shape(r1, base + 1, "FFNProjection", "ffn_up_projection", {H, WU}, {U}, {base, up_weight})
  BY RecordShape DEF FFNProjection
<1>s2. Shape(r2, base + 2, "PIMOperandResidency", "ffn_up_intermediate_residency", {U}, {UV}, {base + 1})
  BY RecordShape DEF Residency
<1>s3. Shape(r3, base + 3, "PIMElementwise", "ffn_relu_activation_accounting", {UV}, {I}, {base + 2})
  BY RecordShape DEF Elementwise
<1> HIDE DEF r1, r2, r3
<1>2. /\ IsList(c) /\ Len(c) = 3
      /\ c[1] = r1 /\ c[2] = r2 /\ c[3] = r3
  <2>1. c \in Seq({r1, r2, r3}) /\ Len(c) = 3
    OBVIOUS
  <2> QED BY <2>1 DEF IsList
<1>t1. Local(U)
  BY LocalTensors
<1>t2. Local(UV)
  BY LocalTensors
<1>t3. Local(I)
  BY LocalTensors
<1>3. Len(L) \in Nat /\ IsList(L)
  BY GoodIds
<1> HIDE DEF c, U, UV, I, H, WU
<1>j1. Joins(L, c, 1, "feed_forward")
  <2>1. Has(L, c, 1, "feed_forward", H)
    BY DEF Has, H
  <2>2. Has(L, c, 1, "feed_forward", WU)
    BY DEF Has, WU
  <2> QED BY <1>2, <1>3, <1>s1, <1>t1, <2>1, <2>2 DEF Joins, Shape
<1>j2. Joins(L, c, 2, "feed_forward")
  <2>1. Has(L, c, 2, "feed_forward", U)
    <3>1. 1 \in 1 .. 2 - 1 /\ U \in c[1].outputs
      BY <1>2, <1>s1 DEF Shape
    <3> QED BY <3>1 DEF Has
  <2> QED BY <1>2, <1>3, <1>s2, <1>t2, <2>1 DEF Joins, Shape
<1>j3. Joins(L, c, 3, "feed_forward")
  <2>1. Has(L, c, 3, "feed_forward", UV)
    <3>1. 2 \in 1 .. 3 - 1 /\ UV \in c[2].outputs
      BY <1>2, <1>s2 DEF Shape
    <3> QED BY <3>1 DEF Has
  <2> QED BY <1>2, <1>3, <1>s3, <1>t3, <2>1 DEF Joins, Shape
<1>m3. Made(L \o c, I)
  <2>1. 3 \in 1 .. Len(c) /\ I \in c[3].outputs
    BY <1>2, <1>s3 DEF Shape
  <2> QED BY <1>2, <1>3, <2>1, ContinuesConcat
<1>4. \A j \in 1 .. Len(c) : Joins(L, c, j, "feed_forward")
  <2>1. \A j \in 1 .. 3 : j = 1 \/ j = 2 \/ j = 3
    OBVIOUS
  <2> QED BY <1>2, <2>1, <1>j1, <1>j2, <1>j3
<1> QED BY <1>1, <1>2, <1>4, <1>m3 DEF Fits, I

LEMMA FFNDownFits ==
  ASSUME NEW m, NEW L, Good(L, "feed_forward"), Len(L) > 0, NEW down_weight \in 0 .. Len(L),
         Made(L, Whole("intermediate")), Made(L, Resident("down_weight", 0))
  PROVE  Fits(L, <<Residency(Len(L), "ffn_intermediate_bank_local_residency", Whole("intermediate"),
                           Placed(Whole("intermediate"), "bank_local"), {Len(L) - 1}),
                   FFNProjection(m, Len(L) + 1, "ffn_down_projection", Placed(Whole("intermediate"), "bank_local"), "down_weight",
                               Whole("hidden_out"), {Len(L), down_weight})>>, {Whole("hidden_out")}, "feed_forward")
<1> DEFINE I == Whole("intermediate")
           B == Placed(Whole("intermediate"), "bank_local")
           WD == Resident("down_weight", 0)
           O == Whole("hidden_out")
           r1 == Residency(Len(L), "ffn_intermediate_bank_local_residency", Whole("intermediate"),
                           Placed(Whole("intermediate"), "bank_local"), {Len(L) - 1})
           r2 == FFNProjection(m, Len(L) + 1, "ffn_down_projection", Placed(Whole("intermediate"), "bank_local"), "down_weight",
                               Whole("hidden_out"), {Len(L), down_weight})
           c == <<r1, r2>>
<1>1. <<Residency(Len(L), "ffn_intermediate_bank_local_residency", Whole("intermediate"),
                           Placed(Whole("intermediate"), "bank_local"), {Len(L) - 1}),
                   FFNProjection(m, Len(L) + 1, "ffn_down_projection", Placed(Whole("intermediate"), "bank_local"), "down_weight",
                               Whole("hidden_out"), {Len(L), down_weight})>> = c
  BY DEF FFNProjection
<1>s1. Shape(r1, Len(L), "PIMOperandResidency", "ffn_intermediate_bank_local_residency", {I}, {B}, {Len(L) - 1})
  BY RecordShape DEF Residency
<1>s2. Shape(r2, Len(L) + 1, "FFNProjection", "ffn_down_projection", {B, WD}, {O}, {Len(L), down_weight})
  BY RecordShape DEF FFNProjection
<1> HIDE DEF r1, r2
<1>2. /\ IsList(c) /\ Len(c) = 2
      /\ c[1] = r1 /\ c[2] = r2
  <2>1. c \in Seq({r1, r2}) /\ Len(c) = 2
    OBVIOUS
  <2> QED BY <2>1 DEF IsList
<1>t2. Local(B)
  BY LocalTensors
<1>t4. Local(O)
  BY LocalTensors
<1>3. Len(L) \in Nat /\ IsList(L)
  BY GoodIds
<1> HIDE DEF c, I, B, WD, O
<1>j1. Joins(L, c, 1, "feed_forward")
  <2>1. Has(L, c, 1, "feed_forward", I)
    BY DEF Has, I
  <2> QED BY <1>2, <1>3, <1>s1, <1>t2, <2>1 DEF Joins, Shape
<1>j2. Joins(L, c, 2, "feed_forward")
  <2>1. Has(L, c, 2, "feed_forward", B)
    <3>1. 1 \in 1 .. 2 - 1 /\ B \in c[1].outputs
      BY <1>2, <1>s1 DEF Shape
    <3> QED BY <3>1 DEF Has
  <2>2. Has(L, c, 2, "feed_forward", WD)
    BY DEF Has, WD
  <2> QED BY <1>2, <1>3, <1>s2, <1>t4, <2>1, <2>2 DEF Joins, Shape
<1>m2. Made(L \o c, O)
  <2>1. 2 \in 1 .. Len(c) /\ O \in c[2].outputs
    BY <1>2, <1>s2 DEF Shape
  <2> QED BY <1>2, <1>3, <2>1, ContinuesConcat
<1>4. \A j \in 1 .. Len(c) : Joins(L, c, j, "feed_forward")
  <2>1. \A j \in 1 .. 2 : j = 1 \/ j = 2
    OBVIOUS
  <2> QED BY <1>2, <2>1, <1>j1, <1>j2
<1> QED BY <1>1, <1>2, <1>4, <1>m2 DEF Fits, O

LEMMA WeightIdInRange ==
  ASSUME NEW L, Good(L, "feed_forward"), NEW name, Made(L, Resident(name, 0))
  PROVE  WeightId(L, name) \in 0 .. Len(L) - 1
<1>1. \E r \in Range(L) : Resident(name, 0) \in r.outputs
  BY GoodIds DEF Made
<1> DEFINE r == CHOOSE r \in Range(L) : Resident(name, 0) \in r.outputs
<1>2. r \in Range(L)
  BY <1>1
<1> QED BY <1>2, GoodIds DEF WeightId

LEMMA WeightMoveShape ==
  ASSUME NEW id, NEW name \in Weights, NEW expert, NEW mode
  PROVE  /\ Shape(WeightMove(id, name, expert), id, "PIMDataMove", "weight_residency",
                  {Tensor(name, expert, 0, 0)}, {Resident(name, expert)}, {})
         /\ Loose(mode, Tensor(name, expert, 0, 0)) /\ Local(Resident(name, expert))
<1>1. Shape(WeightMove(id, name, expert), id, "PIMDataMove", "weight_residency",
            {Tensor(name, expert, 0, 0)}, {Resident(name, expert)}, {})
  BY RecordShape DEF WeightMove
<1>2. OfShape(Tensor(name, expert, 0, 0), name, "plain") /\ OfShape(Resident(name, expert), name, "resident")
  BY TensorShape
<1> QED BY <1>1, <1>2 DEF Loose, Local, OfShape

FFNWeights(m) ==
  IF m.ffn_variant \in Gated THEN <<"up_weight", "gate_weight", "down_weight">> ELSE <<"up_weight", "down_weight">>

LEMMA FFNWeightsAre ==
  ASSUME NEW m
  PROVE  /\ IsList(FFNWeights(m)) /\ Len(FFNWeights(m)) \in Nat \ {0}
         /\ \A i \in 1 .. Len(FFNWeights(m)) : FFNWeights(m)[i] \in Weights
         /\ \E i \in 1 .. Len(FFNWeights(m)) : FFNWeights(m)[i] = "up_weight"
         /\ \E i \in 1 .. Len(FFNWeights(m)) : FFNWeights(m)[i] = "down_weight"
         /\ m.ffn_variant \in Gated => \E i \in 1 .. Len(FFNWeights(m)) : FFNWeights(m)[i] = "gate_weight"
<1>1. CASE m.ffn_variant \in Gated
  <2> DEFINE w == <<"up_weight", "gate_weight", "down_weight">>
  <2>1. FFNWeights(m) = w
    BY <1>1 DEF FFNWeights
  <2>2. IsList(w) /\ Len(w) = 3 /\ w[1] = "up_weight" /\ w[2] = "gate_weight" /\ w[3] = "down_weight"
    BY ListOfThree
  <2> HIDE DEF w
  <2>3. \A i \in 1 .. 3 : i = 1 \/ i = 2 \/ i = 3
    OBVIOUS
  <2> QED BY <2>1, <2>2, <2>3 DEF Weights
<1>2. CASE m.ffn_variant \notin Gated
  <2> DEFINE w == <<"up_weight", "down_weight">>
  <2>1. FFNWeights(m) = w
    BY <1>2 DEF FFNWeights
  <2>2. IsList(w) /\ Len(w) = 2 /\ w[1] = "up_weight" /\ w[2] = "down_weight"
    BY ListOfTwo
  <2> HIDE DEF w
  <2>3. \A i \in 1 .. 2 : i = 1 \/ i = 2
    OBVIOUS
  <2> QED BY <1>2, <2>1, <2>2, <2>3 DEF Weights
<1> QED BY <1>1, <1>2

LEMMA FFNOperandsGood ==
  ASSUME NEW m, IsList(TileRanges(m.hidden_size, m.ffn_activation_tile_size))
  PROVE  LET L == FFNOperands(m)
         IN  /\ Good(L, "feed_forward") /\ Len(L) > 0 /\ Made(L, Whole("hidden.reused"))
             /\ Made(L, Resident("up_weight", 0)) /\ Made(L, Resident("down_weight", 0))
             /\ m.ffn_variant \in Gated => Made(L, Resident("gate_weight", 0))
<1> DEFINE n == Len(TileRanges(m.hidden_size, m.ffn_activation_tile_size))
           w == FFNWeights(m)
           Tile(i) == Tensor("hidden.tile", 0, i, 0)
           Setup(i) == Record(i - 1, "PIMDataMove", "ffn_hidden_activation_tile_setup",
                              {Tile(i)}, {Placed(Tile(i), "resident")}, {})
           A == [i \in 1 .. n |-> Setup(i)]
           B == [i \in DOMAIN w |-> WeightMove(n + i - 1, w[i], 0)]
           tiles == {Placed(Tile(i), "resident") : i \in 1 .. n}
           H == Whole("hidden.reused")
           r == Record(n + Len(w), "PIMOperandReuse", "ffn_hidden_reuse", tiles, {H}, 0 .. n - 1)
           M == A \o B
           L == M \o <<r>>
<1>1. FFNOperands(m) = L
  BY DEF FFNOperands, FFNWeights
<1>2. /\ IsList(w) /\ Len(w) \in Nat \ {0} /\ DOMAIN w = 1 .. Len(w) /\ n \in Nat
      /\ \A i \in 1 .. Len(w) : w[i] \in Weights
  BY FFNWeightsAre, ListIs
<1>3. /\ \E i \in 1 .. Len(w) : w[i] = "up_weight"
      /\ \E i \in 1 .. Len(w) : w[i] = "down_weight"
      /\ m.ffn_variant \in Gated => \E i \in 1 .. Len(w) : w[i] = "gate_weight"
  BY FFNWeightsAre
<1>4. \A i : /\ Shape(Setup(i), i - 1, "PIMDataMove", "ffn_hidden_activation_tile_setup",
                      {Tile(i)}, {Placed(Tile(i), "resident")}, {})
             /\ Local(Placed(Tile(i), "resident"))
  BY RecordShape, LocalPlaced
<1>5. Shape(r, n + Len(w), "PIMOperandReuse", "ffn_hidden_reuse", tiles, {H}, 0 .. n - 1) /\ Local(H)
  BY RecordShape, LocalTensors
<1> HIDE DEF w, Setup, r, n, H
<1>6. IsList(A) /\ Len(A) = n /\ \A i \in 1 .. n : A[i] = Setup(i)
  <2>1. A = [i \in 1 .. n |-> A[i]] /\ \A i \in 1 .. n : A[i] = Setup(i)
    OBVIOUS
  <2> HIDE DEF A
  <2> QED BY <1>2, <2>1, ListOfFunction
<1>7. IsList(B) /\ Len(B) = Len(w) /\ \A i \in 1 .. Len(w) : B[i] = WeightMove(n + i - 1, w[i], 0)
  <2>1. B = [i \in 1 .. Len(w) |-> B[i]] /\ \A i \in 1 .. Len(w) : B[i] = WeightMove(n + i - 1, w[i], 0)
    BY <1>2
  <2> HIDE DEF B
  <2> QED BY <1>2, <2>1, ListOfFunction
<1> HIDE DEF A, B
<1>8. Good(A, "feed_forward")
  <2>1. ASSUME NEW j \in 1 .. Len(A) PROVE Joins(<<>>, A, j, "feed_forward")
    <3>1. /\ Shape(A[j], j - 1, "PIMDataMove", "ffn_hidden_activation_tile_setup",
                   {Tile(j)}, {Placed(Tile(j), "resident")}, {})
          /\ Local(Placed(Tile(j), "resident"))
      BY <1>4, <1>6
    <3> HIDE DEF Tile
    <3> QED BY <1>2, <1>6, <3>1, EmptyList DEF Joins, Shape, IsRewired
  <2> QED BY <1>6, <2>1 DEF Good
<1>9. \A i \in 1 .. n : Made(A, Placed(Tile(i), "resident"))
  BY <1>4, <1>6 DEF Made, Shape
<1>10. ASSUME NEW j \in 1 .. Len(B) PROVE Joins(A, B, j, "feed_forward") /\ Resident(w[j], 0) \in B[j].outputs
  <2>1. w[j] \in Weights
    BY <1>2, <1>7
  <2>2. /\ Shape(B[j], n + j - 1, "PIMDataMove", "weight_residency", {Tensor(w[j], 0, 0, 0)}, {Resident(w[j], 0)}, {})
        /\ Loose("feed_forward", Tensor(w[j], 0, 0, 0)) /\ Local(Resident(w[j], 0))
    BY <1>7, <2>1, WeightMoveShape
  <2>3. Has(A, B, j, "feed_forward", Tensor(w[j], 0, 0, 0))
    BY <2>2 DEF Has
  <2> QED BY <1>2, <1>6, <2>2, <2>3 DEF Joins, Shape
<1>11. Good(M, "feed_forward")
  BY <1>7, <1>8, <1>10, GoodConcat
<1>12. /\ Continues(M, A) /\ Len(M) = n + Len(w) /\ \A i \in 1 .. Len(w) : Made(M, Resident(w[i], 0))
  BY <1>6, <1>7, <1>10, ContinuesConcat
<1>13. \A t \in tiles : Made(M, t)
  BY <1>6, <1>9, <1>12, MadeContinues
<1>14. IsList(M)
  BY <1>11 DEF Good
<1> HIDE DEF M, tiles
<1>15. Joins(M, <<r>>, 1, "feed_forward")
  <2> DEFINE c == <<r>>
  <2>1. c[1] = r
    OBVIOUS
  <2> HIDE DEF c
  <2>2. \A t \in tiles : Has(M, c, 1, "feed_forward", t)
    BY <1>13 DEF Has
  <2>3. Joins(M, c, 1, "feed_forward")
    BY <1>2, <1>5, <1>12, <2>1, <2>2 DEF Joins, Shape
  <2> QED BY <2>3 DEF c
<1>16. IsList(<<r>>) /\ Len(<<r>>) = 1 /\ <<r>>[1] = r
  BY <1>14, ListAppend
<1>17. Good(L, "feed_forward")
  <2>1. \A j \in 1 .. Len(<<r>>) : Joins(M, <<r>>, j, "feed_forward")
    BY <1>15, <1>16
  <2> QED BY <1>11, <1>16, <2>1, GoodConcat
<1>18. Continues(L, M) /\ Len(L) = n + Len(w) + 1 /\ Made(L, H)
  <2> DEFINE c == <<r>>
  <2>1. 1 \in 1 .. Len(c) /\ H \in c[1].outputs /\ IsList(c) /\ Len(c) = 1
    BY <1>5, <1>16 DEF Shape
  <2> HIDE DEF c
  <2>2. Continues(M \o c, M) /\ Len(M \o c) = n + Len(w) + 1 /\ Made(M \o c, H)
    BY <1>12, <1>14, <2>1, ContinuesConcat
  <2> QED BY <2>2 DEF c
<1> HIDE DEF L
<1>19. \A i \in 1 .. Len(w) : Made(L, Resident(w[i], 0))
  BY <1>12, <1>14, <1>18, MadeContinues
<1> QED BY <1>1, <1>2, <1>3, <1>17, <1>18, <1>19 DEF H

LEMMA FFNGood ==
  ASSUME NEW m, IsList(TileRanges(m.hidden_size, m.ffn_activation_tile_size))
  PROVE  Good(FFN(m), "feed_forward") /\ Made(FFN(m), Whole("hidden_out"))
<1> DEFINE O == FFNOperands(m)
           base == Len(O) - 1
           up == WeightId(O, "up_weight")
           gate == WeightId(O, "gate_weight")
           down == WeightId(O, "down_weight")
           middle == IF m.ffn_variant \in Gated THEN FFNGated(m, base, up, gate) ELSE FFNRelu(m, base, up)
           inner == O \o middle
           last == <<Residency(Len(inner), "ffn_intermediate_bank_local_residency", Whole("intermediate"),
                               Placed(Whole("intermediate"), "bank_local"), {Len(inner) - 1}),
                     FFNProjection(m, Len(inner) + 1, "ffn_down_projection", Placed(Whole("intermediate"), "bank_local"),
                                   "down_weight", Whole("hidden_out"), {Len(inner), down})>>
<1>1. FFN(m) = inner \o last
  BY DEF FFN
<1>2. /\ Good(O, "feed_forward") /\ Len(O) > 0 /\ Made(O, Whole("hidden.reused"))
      /\ Made(O, Resident("up_weight", 0)) /\ Made(O, Resident("down_weight", 0))
      /\ m.ffn_variant \in Gated => Made(O, Resident("gate_weight", 0))
  BY FFNOperandsGood
<1>3. Len(O) \in Nat /\ base \in Nat /\ Len(O) = base + 1 /\ IsList(O)
  BY <1>2, GoodIds
<1>4. up \in 0 .. base /\ down \in 0 .. base /\ (m.ffn_variant \in Gated => gate \in 0 .. base)
  BY <1>2, <1>3, WeightIdInRange
<1> HIDE DEF O, base, up, gate, down
<1>5. Fits(O, middle, {Whole("intermediate")}, "feed_forward")
  <2>1. CASE m.ffn_variant \in Gated
    <3>1. middle = FFNGated(m, base, up, gate)
      BY <2>1
    <3> HIDE DEF middle
    <3>2. Made(O, Resident("gate_weight", 0)) /\ gate \in 0 .. base /\ up \in 0 .. base
      BY <1>2, <1>4, <2>1
    <3> QED BY <1>2, <1>3, <3>1, <3>2, FFNGatedFits
  <2>2. CASE m.ffn_variant \notin Gated
    <3>1. middle = FFNRelu(m, base, up)
      BY <2>2
    <3> HIDE DEF middle
    <3> QED BY <1>2, <1>3, <1>4, <3>1, FFNReluFits
  <2> QED BY <2>1, <2>2
<1> HIDE DEF middle
<1>6. Good(inner, "feed_forward") /\ Continues(inner, O) /\ Made(inner, Whole("intermediate"))
  BY <1>2, <1>5, FitsGood
<1> HIDE DEF inner
<1>7. Made(inner, Resident("down_weight", 0))
  BY <1>2, <1>3, <1>6, MadeContinues
<1>8. Len(inner) > 0 /\ down \in 0 .. Len(inner)
  <2>1. Len(inner) \in Nat /\ Len(O) <= Len(inner)
    BY <1>6, GoodIds DEF Continues
  <2> QED BY <1>3, <1>4, <2>1
<1>9. Fits(inner, last, {Whole("hidden_out")}, "feed_forward")
  BY <1>6, <1>7, <1>8, FFNDownFits
<1> HIDE DEF last
<1> QED BY <1>1, <1>6, <1>9, FitsGood

(***************************************************************************)
(* The mixture of experts.                                                 *)
(***************************************************************************)
LEMMA RoutingFits ==
  ASSUME NEW m, NEW L, Good(L, "feed_forward"), Len(L) = 0
  PROVE  Fits(L, Routing(m), {Whole("dispatched")}, "feed_forward")
<1> DEFINE HI == Whole("hidden")
           RI == Whole("router_input")
           W0 == Tensor("router_weight", 0, 0, 0)
           RW == Resident("router_weight", 0)
           RL == Whole("router_logits")
           RV == Visible(Whole("router_logits"))
           TK == Whole("topk_experts")
           DA == Whole("dispatch_accounted")
           DI == Whole("dispatched")
           r1 == DynamicMove(0, "moe_router_input_setup", Whole("hidden"), Whole("router_input"), {})
           r2 == WeightMove(1, "router_weight", 0)
           r3 == MoECompute(m, 2, "MoERouter", "moe_router_projection", {Whole("router_input"), Resident("router_weight", 0)},
                            Whole("router_logits"), {0, 1}, m.num_experts, m.hidden_size)
           r4 == Residency(3, "moe_router_logits_residency", Whole("router_logits"), Visible(Whole("router_logits")), {2})
           r5 == Accounting(4, "MoETopK", {Visible(Whole("router_logits"))}, Whole("topk_experts"), {3})
           r6 == Accounting(5, "MoEDispatch", {Whole("hidden"), Whole("topk_experts")}, Whole("dispatch_accounted"), {4})
           r7 == DynamicMove(6, "moe_token_dispatch_materialized", Whole("dispatch_accounted"), Whole("dispatched"), {5})
           c == <<r1, r2, r3, r4, r5, r6, r7>>
<1>1. Routing(m) = c
  BY DEF Routing
<1>s1. Shape(r1, 0, "PIMDataMove", "moe_router_input_setup", {HI}, {RI}, {})
  BY RecordShape DEF DynamicMove
<1>s2. Shape(r2, 1, "PIMDataMove", "weight_residency", {W0}, {RW}, {})
  BY RecordShape DEF WeightMove
<1>s3. Shape(r3, 2, "MoERouter", "moe_router_projection", {RI, RW}, {RL}, {0, 1})
  BY RecordShape DEF MoECompute
<1>s4. Shape(r4, 3, "PIMOperandResidency", "moe_router_logits_residency", {RL}, {RV}, {2})
  BY RecordShape DEF Residency
<1>s5. Shape(r5, 4, "MoETopK", "MoETopK", {RV}, {TK}, {3})
  BY RecordShape DEF Accounting
<1>s6. Shape(r6, 5, "MoEDispatch", "MoEDispatch", {HI, TK}, {DA}, {4})
  BY RecordShape DEF Accounting
<1>s7. Shape(r7, 6, "PIMDataMove", "moe_token_dispatch_materialized", {DA}, {DI}, {5})
  BY RecordShape DEF DynamicMove
<1> HIDE DEF r1, r2, r3, r4, r5, r6, r7
<1>2. /\ IsList(c) /\ Len(c) = 7
      /\ c[1] = r1 /\ c[2] = r2 /\ c[3] = r3 /\ c[4] = r4 /\ c[5] = r5 /\ c[6] = r6 /\ c[7] = r7
  <2>1. c \in Seq({r1, r2, r3, r4, r5, r6, r7}) /\ Len(c) = 7
    OBVIOUS
  <2> QED BY <2>1 DEF IsList
<1>t1. Loose("feed_forward", HI)
  BY TensorShape, WholeShape DEF OfShape, Loose, Weights
<1>t2. Local(RI)
  BY LocalTensors
<1>t3. Loose("feed_forward", W0)
  BY TensorShape, WholeShape DEF OfShape, Loose, Weights
<1>t4. Local(RW)
  <2>1. OfShape(RW, "router_weight", "resident")
    BY TensorShape
  <2> HIDE DEF RW
  <2> QED BY <2>1 DEF Local, OfShape
<1>t5. Local(RL)
  BY LocalTensors
<1>t6. Local(RV)
  BY LocalTensors
<1>t7. Local(TK)
  BY LocalTensors
<1>t8. Local(DA)
  BY LocalTensors
<1>t9. Local(DI)
  BY LocalTensors
<1>3. Len(L) \in Nat /\ IsList(L)
  BY GoodIds
<1> HIDE DEF c, HI, RI, W0, RW, RL, RV, TK, DA, DI
<1>j1. Joins(L, c, 1, "feed_forward")
  <2> QED BY <1>2, <1>3, <1>s1, <1>t2 DEF Joins, Shape, IsRewired
<1>j2. Joins(L, c, 2, "feed_forward")
  <2>1. Has(L, c, 2, "feed_forward", W0)
    BY <1>t3 DEF Has
  <2> QED BY <1>2, <1>3, <1>s2, <1>t4, <2>1 DEF Joins, Shape
<1>j3. Joins(L, c, 3, "feed_forward")
  <2>1. Has(L, c, 3, "feed_forward", RI)
    <3>1. 1 \in 1 .. 3 - 1 /\ RI \in c[1].outputs
      BY <1>2, <1>s1 DEF Shape
    <3> QED BY <3>1 DEF Has
  <2>2. Has(L, c, 3, "feed_forward", RW)
    <3>1. 2 \in 1 .. 3 - 1 /\ RW \in c[2].outputs
      BY <1>2, <1>s2 DEF Shape
    <3> QED BY <3>1 DEF Has
  <2> QED BY <1>2, <1>3, <1>s3, <1>t5, <2>1, <2>2 DEF Joins, Shape
<1>j4. Joins(L, c, 4, "feed_forward")
  <2>1. Has(L, c, 4, "feed_forward", RL)
    <3>1. 3 \in 1 .. 4 - 1 /\ RL \in c[3].outputs
      BY <1>2, <1>s3 DEF Shape
    <3> QED BY <3>1 DEF Has
  <2> QED BY <1>2, <1>3, <1>s4, <1>t6, <2>1 DEF Joins, Shape
<1>j5. Joins(L, c, 5, "feed_forward")
  <2>1. Has(L, c, 5, "feed_forward", RV)
    <3>1. 4 \in 1 .. 5 - 1 /\ RV \in c[4].outputs
      BY <1>2, <1>s4 DEF Shape
    <3> QED BY <3>1 DEF Has
  <2> QED BY <1>2, <1>3, <1>s5, <1>t7, <2>1 DEF Joins, Shape
<1>j6. Joins(L, c, 6, "feed_forward")
  <2>1. Has(L, c, 6, "feed_forward", HI)
    BY <1>t1 DEF Has
  <2>2. Has(L, c, 6, "feed_forward", TK)
    <3>1. 5 \in 1 .. 6 - 1 /\ TK \in c[5].outputs
      BY <1>2, <1>s5 DEF Shape
    <3> QED BY <3>1 DEF Has
  <2> QED BY <1>2, <1>3, <1>s6, <1>t8, <2>1, <2>2 DEF Joins, Shape
<1>j7. Joins(L, c, 7, "feed_forward")
  <2>1. Has(L, c, 7, "feed_forward", DA)
    <3>1. 6 \in 1 .. 7 - 1 /\ DA \in c[6].outputs
      BY <1>2, <1>s6 DEF Shape
    <3> QED BY <3>1 DEF Has
  <2> QED BY <1>2, <1>3, <1>s7, <1>t9, <2>1 DEF Joins, Shape
<1>m7. Made(L \o c, DI)
  <2>1. 7 \in 1 .. Len(c) /\ DI \in c[7].outputs
    BY <1>2, <1>s7 DEF Shape
  <2> QED BY <1>2, <1>3, <2>1, ContinuesConcat
<1>4. \A j \in 1 .. Len(c) : Joins(L, c, j, "feed_forward")
  <2>1. \A j \in 1 .. 7 : j = 1 \/ j = 2 \/ j = 3 \/ j = 4 \/ j = 5 \/ j = 6 \/ j = 7
    OBVIOUS
  <2> QED BY <1>2, <2>1, <1>j1, <1>j2, <1>j3, <1>j4, <1>j5, <1>j6, <1>j7
<1> QED BY <1>1, <1>2, <1>4, <1>m7 DEF Fits, DI

LEMMA ExpertFits ==
  ASSUME NEW m, NEW e, NEW base \in Nat, NEW L, Good(L, "feed_forward"), Len(L) = base, base > 6,
         Made(L, Whole("dispatched"))
  PROVE  Fits(L, Expert(m, e, base), {}, "feed_forward")
<1> DEFINE DI == Whole("dispatched")
           Wup == Tensor("expert_up_weight", e, 0, 0)
           Rup == Resident("expert_up_weight", e)
           Wgate == Tensor("expert_gate_weight", e, 0, 0)
           Rgate == Resident("expert_gate_weight", e)
           Wdown == Tensor("expert_down_weight", e, 0, 0)
           Rdown == Resident("expert_down_weight", e)
           U == Tensor("expert_up", e, 0, 0)
           G == Tensor("expert_gate", e, 0, 0)
           A == Tensor("expert_activated", e, 0, 0)
           P == Tensor("expert_gated", e, 0, 0)
           B == Placed(Tensor("expert_gated", e, 0, 0), "bank_local")
           O == Tensor("expert_output", e, 0, 0)
           V == Visible(Tensor("expert_output", e, 0, 0))
           r1 == WeightMove(base, "expert_up_weight", e)
           r2 == MoECompute(m, base + 1, "MoEExpertFFN", "moe_expert_projection", {Whole("dispatched"), Resident("expert_up_weight", e)},
                            Tensor("expert_up", e, 0, 0), {6, base}, m.hidden_size, m.expert_hidden_size)
           r3 == WeightMove(base + 2, "expert_gate_weight", e)
           r4 == MoECompute(m, base + 3, "MoEExpertFFN", "moe_expert_projection", {Whole("dispatched"), Resident("expert_gate_weight", e)},
                            Tensor("expert_gate", e, 0, 0), {6, base + 2}, m.hidden_size, m.expert_hidden_size)
           r5 == WeightMove(base + 4, "expert_down_weight", e)
           r6 == Elementwise(base + 5, "gate_activation", {Tensor("expert_gate", e, 0, 0)}, Tensor("expert_activated", e, 0, 0), {base + 3})
           r7 == Elementwise(base + 6, "gated_multiply", {Tensor("expert_activated", e, 0, 0), Tensor("expert_up", e, 0, 0)},
                             Tensor("expert_gated", e, 0, 0), {base + 5, base + 1})
           r8 == Residency(base + 7, "expert_intermediate_residency", Tensor("expert_gated", e, 0, 0),
                           Placed(Tensor("expert_gated", e, 0, 0), "bank_local"), {base + 6})
           r9 == MoECompute(m, base + 8, "MoEExpertFFN", "moe_expert_projection", {Placed(Tensor("expert_gated", e, 0, 0), "bank_local"), Resident("expert_down_weight", e)},
                            Tensor("expert_output", e, 0, 0), {base + 7, base + 4}, m.hidden_size, m.expert_hidden_size)
           r10 == Residency(base + 9, "expert_output_residency", Tensor("expert_output", e, 0, 0), Visible(Tensor("expert_output", e, 0, 0)), {base + 8})
           c == <<r1, r2, r3, r4, r5, r6, r7, r8, r9, r10>>
<1>1. Expert(m, e, base) = c
  BY DEF Expert
<1>s1. Shape(r1, base, "PIMDataMove", "weight_residency", {Wup}, {Rup}, {})
  BY RecordShape DEF WeightMove
<1>s2. Shape(r2, base + 1, "MoEExpertFFN", "moe_expert_projection", {DI, Rup}, {U}, {6, base})
  BY RecordShape DEF MoECompute
<1>s3. Shape(r3, base + 2, "PIMDataMove", "weight_residency", {Wgate}, {Rgate}, {})
  BY RecordShape DEF WeightMove
<1>s4. Shape(r4, base + 3, "MoEExpertFFN", "moe_expert_projection", {DI, Rgate}, {G}, {6, base + 2})
  BY RecordShape DEF MoECompute
<1>s5. Shape(r5, base + 4, "PIMDataMove", "weight_residency", {Wdown}, {Rdown}, {})
  BY RecordShape DEF WeightMove
<1>s6. Shape(r6, base + 5, "PIMElementwise", "gate_activation", {G}, {A}, {base + 3})
  BY RecordShape DEF Elementwise
<1>s7. Shape(r7, base + 6, "PIMElementwise", "gated_multiply", {A, U}, {P}, {base + 5, base + 1})
  BY RecordShape DEF Elementwise
<1>s8. Shape(r8, base + 7, "PIMOperandResidency", "expert_intermediate_residency", {P}, {B}, {base + 6})
  BY RecordShape DEF Residency
<1>s9. Shape(r9, base + 8, "MoEExpertFFN", "moe_expert_projection", {B, Rdown}, {O}, {base + 7, base + 4})
  BY RecordShape DEF MoECompute
<1>s10. Shape(r10, base + 9, "PIMOperandResidency", "expert_output_residency", {O}, {V}, {base + 8})
  BY RecordShape DEF Residency
<1> HIDE DEF r1, r2, r3, r4, r5, r6, r7, r8, r9, r10
<1>2. /\ IsList(c) /\ Len(c) = 10
      /\ c[1] = r1 /\ c[2] = r2 /\ c[3] = r3 /\ c[4] = r4 /\ c[5] = r5 /\ c[6] = r6 /\ c[7] = r7 /\ c[8] = r8 /\ c[9] = r9 /\ c[10] = r10
  <2>1. c \in Seq({r1, r2, r3, r4, r5, r6, r7, r8, r9, r10}) /\ Len(c) = 10
    OBVIOUS
  <2> QED BY <2>1 DEF IsList
<1>t2. Loose("feed_forward", Wup)
  BY TensorShape, WholeShape DEF OfShape, Loose, Weights
<1>t3. Local(Rup)
  <2>1. OfShape(Rup, "expert_up_weight", "resident")
    BY TensorShape
  <2> HIDE DEF Rup
  <2> QED BY <2>1 DEF Local, OfShape
<1>t4. Loose("feed_forward", Wgate)
  BY TensorShape, WholeShape DEF OfShape, Loose, Weights
<1>t5. Local(Rgate)
  <2>1. OfShape(Rgate, "expert_gate_weight", "resident")
    BY TensorShape
  <2> HIDE DEF Rgate
  <2> QED BY <2>1 DEF Local, OfShape
<1>t6. Loose("feed_forward", Wdown)
  BY TensorShape, WholeShape DEF OfShape, Loose, Weights
<1>t7. Local(Rdown)
  <2>1. OfShape(Rdown, "expert_down_weight", "resident")
    BY TensorShape
  <2> HIDE DEF Rdown
  <2> QED BY <2>1 DEF Local, OfShape
<1>t8. Local(U)
  BY LocalTensors
<1>t9. Local(G)
  BY LocalTensors
<1>t10. Local(A)
  BY LocalTensors
<1>t11. Local(P)
  BY LocalTensors
<1>t12. Local(B)
  BY LocalTensors
<1>t13. Local(O)
  BY LocalTensors
<1>t14. Local(V)
  BY LocalTensors
<1>3. Len(L) \in Nat /\ IsList(L)
  BY GoodIds
<1> HIDE DEF c, DI, Wup, Rup, Wgate, Rgate, Wdown, Rdown, U, G, A, P, B, O, V
<1>j1. Joins(L, c, 1, "feed_forward")
  <2>1. Has(L, c, 1, "feed_forward", Wup)
    BY <1>t2 DEF Has
  <2> QED BY <1>2, <1>3, <1>s1, <1>t3, <2>1 DEF Joins, Shape
<1>j2. Joins(L, c, 2, "feed_forward")
  <2>1. Has(L, c, 2, "feed_forward", DI)
    BY DEF Has, DI
  <2>2. Has(L, c, 2, "feed_forward", Rup)
    <3>1. 1 \in 1 .. 2 - 1 /\ Rup \in c[1].outputs
      BY <1>2, <1>s1 DEF Shape
    <3> QED BY <3>1 DEF Has
  <2> QED BY <1>2, <1>3, <1>s2, <1>t8, <2>1, <2>2 DEF Joins, Shape
<1>j3. Joins(L, c, 3, "feed_forward")
  <2>1. Has(L, c, 3, "feed_forward", Wgate)
    BY <1>t4 DEF Has
  <2> QED BY <1>2, <1>3, <1>s3, <1>t5, <2>1 DEF Joins, Shape
<1>j4. Joins(L, c, 4, "feed_forward")
  <2>1. Has(L, c, 4, "feed_forward", DI)
    BY DEF Has, DI
  <2>2. Has(L, c, 4, "feed_forward", Rgate)
    <3>1. 3 \in 1 .. 4 - 1 /\ Rgate \in c[3].outputs
      BY <1>2, <1>s3 DEF Shape
    <3> QED BY <3>1 DEF Has
  <2> QED BY <1>2, <1>3, <1>s4, <1>t9, <2>1, <2>2 DEF Joins, Shape
<1>j5. Joins(L, c, 5, "feed_forward")
  <2>1. Has(L, c, 5, "feed_forward", Wdown)
    BY <1>t6 DEF Has
  <2> QED BY <1>2, <1>3, <1>s5, <1>t7, <2>1 DEF Joins, Shape
<1>j6. Joins(L, c, 6, "feed_forward")
  <2>1. Has(L, c, 6, "feed_forward", G)
    <3>1. 4 \in 1 .. 6 - 1 /\ G \in c[4].outputs
      BY <1>2, <1>s4 DEF Shape
    <3> QED BY <3>1 DEF Has
  <2> QED BY <1>2, <1>3, <1>s6, <1>t10, <2>1 DEF Joins, Shape
<1>j7. Joins(L, c, 7, "feed_forward")
  <2>1. Has(L, c, 7, "feed_forward", A)
    <3>1. 6 \in 1 .. 7 - 1 /\ A \in c[6].outputs
      BY <1>2, <1>s6 DEF Shape
    <3> QED BY <3>1 DEF Has
  <2>2. Has(L, c, 7, "feed_forward", U)
    <3>1. 2 \in 1 .. 7 - 1 /\ U \in c[2].outputs
      BY <1>2, <1>s2 DEF Shape
    <3> QED BY <3>1 DEF Has
  <2> QED BY <1>2, <1>3, <1>s7, <1>t11, <2>1, <2>2 DEF Joins, Shape
<1>j8. Joins(L, c, 8, "feed_forward")
  <2>1. Has(L, c, 8, "feed_forward", P)
    <3>1. 7 \in 1 .. 8 - 1 /\ P \in c[7].outputs
      BY <1>2, <1>s7 DEF Shape
    <3> QED BY <3>1 DEF Has
  <2> QED BY <1>2, <1>3, <1>s8, <1>t12, <2>1 DEF Joins, Shape
<1>j9. Joins(L, c, 9, "feed_forward")
  <2>1. Has(L, c, 9, "feed_forward", B)
    <3>1. 8 \in 1 .. 9 - 1 /\ B \in c[8].outputs
      BY <1>2, <1>s8 DEF Shape
    <3> QED BY <3>1 DEF Has
  <2>2. Has(L, c, 9, "feed_forward", Rdown)
    <3>1. 5 \in 1 .. 9 - 1 /\ Rdown \in c[5].outputs
      BY <1>2, <1>s5 DEF Shape
    <3> QED BY <3>1 DEF Has
  <2> QED BY <1>2, <1>3, <1>s9, <1>t13, <2>1, <2>2 DEF Joins, Shape
<1>j10. Joins(L, c, 10, "feed_forward")
  <2>1. Has(L, c, 10, "feed_forward", O)
    <3>1. 9 \in 1 .. 10 - 1 /\ O \in c[9].outputs
      BY <1>2, <1>s9 DEF Shape
    <3> QED BY <3>1 DEF Has
  <2> QED BY <1>2, <1>3, <1>s10, <1>t14, <2>1 DEF Joins, Shape
<1>4. \A j \in 1 .. Len(c) : Joins(L, c, j, "feed_forward")
  <2>1. \A j \in 1 .. 10 : j = 1 \/ j = 2 \/ j = 3 \/ j = 4 \/ j = 5 \/ j = 6 \/ j = 7 \/ j = 8 \/ j = 9 \/ j = 10
    OBVIOUS
  <2> QED BY <1>2, <2>1, <1>j1, <1>j2, <1>j3, <1>j4, <1>j5, <1>j6, <1>j7, <1>j8, <1>j9, <1>j10
<1> QED BY <1>1, <1>2, <1>4 DEF Fits

LEMMA MoEGood ==
  ASSUME NEW m, IsList(m.selected_experts)
  PROVE  Good(MoE(m), "feed_forward") /\ Made(MoE(m), Placed(Whole("combined"), "materialized"))
<1> DEFINE order == ExpertOrder(m)
           n == Len(order)
           base == Routing(m)
           chunk == [p \in (DOMAIN order) \X Nat |-> Expert(m, order[p[1]], p[2])]
           outs == [i \in 1 .. n |-> {}]
           L == AppendEach(base, chunk, n)
           results == {r \in Range(L) : r.op = "expert_output_residency"}
           taken == UNION {r.outputs : r \in results}
           next == Len(L)
           C == Whole("combined")
           D == Placed(Whole("combined"), "materialized")
           a == Accounting(next, "MoECombine", taken, C, Ids(results))
           b == DynamicMove(next + 1, "moe_expert_output_combine_materialized", C, D, {next})
           c == <<a, b>>
<1>1. MoE(m) = L \o c
  BY DEF MoE
<1>2. IsList(order) /\ n \in Nat /\ DOMAIN order = 1 .. n
  <2>1. CASE m.schedule_policy = "overlap_selected_experts"
    <3> DEFINE k == Len(m.selected_experts)
               even == (k + 1) \div 2
    <3>1. order = [i \in 1 .. k |-> m.selected_experts[IF i <= even THEN 2 * i - 1 ELSE 2 * (i - even)]]
      BY <2>1 DEF ExpertOrder
    <3>2. order = [i \in 1 .. k |-> order[i]]
      BY <3>1
    <3>3. k \in Nat
      BY ListIs
    <3> HIDE DEF order, k
    <3>4. IsList(order)
      BY <3>2, <3>3, ListOfFunction
    <3> QED BY <3>4, ListIs
  <2>2. CASE m.schedule_policy # "overlap_selected_experts"
    <3>1. order = m.selected_experts
      BY <2>2 DEF ExpertOrder
    <3> HIDE DEF order
    <3> QED BY <3>1, ListIs
  <2> QED BY <2>1, <2>2
<1> HIDE DEF order
<1>3. Good(base, "feed_forward") /\ Made(base, Whole("dispatched")) /\ Len(base) = 7
  <2>1. Good(<<>>, "feed_forward") /\ Len(<<>>) = 0
    BY GoodEmpty, EmptyList
  <2>2. Fits(<<>>, base, {Whole("dispatched")}, "feed_forward")
    BY <2>1, RoutingFits
  <2>3. Len(base) = 7
    BY DEF Routing
  <2> HIDE DEF base
  <2>4. <<>> \o base = base
    BY <2>2, ConcatEmpty DEF Fits
  <2> QED BY <2>1, <2>2, <2>3, <2>4, FitsGood
<1> HIDE DEF base
<1>4. Rounds(base, chunk, outs, n, "feed_forward")
  <2> SUFFICES ASSUME NEW i \in 1 .. n, NEW L0, Good(L0, "feed_forward"), Continues(L0, base)
               PROVE  Fits(L0, chunk[<<i, Len(L0)>>], outs[i], "feed_forward")
    BY DEF Rounds
  <2>1. Len(L0) \in Nat /\ IsList(base)
    BY <1>3, GoodIds
  <2>2. chunk[<<i, Len(L0)>>] = Expert(m, order[i], Len(L0))
    <3>1. <<i, Len(L0)>> \in (DOMAIN order) \X Nat
      BY <1>2, <2>1
    <3> QED BY <3>1
  <2>3. outs[i] = {}
    OBVIOUS
  <2>5. Len(L0) > 6
    BY <1>3, <2>1 DEF Continues
  <2>6. Made(L0, Whole("dispatched"))
    BY <1>3, <2>1, MadeContinues
  <2>4. Len(L0) > 6 /\ Made(L0, Whole("dispatched"))
    BY <2>5, <2>6
  <2> HIDE DEF chunk, outs
  <2> QED BY <2>1, <2>2, <2>3, <2>4, ExpertFits
<1> HIDE DEF chunk, outs
<1>5. Good(L, "feed_forward")
  BY <1>2, <1>3, <1>4, EachGood
<1> HIDE DEF L
<1>6. /\ next \in Nat /\ IsList(L) /\ \A r \in Range(L) : r.record_id \in 0 .. next - 1 /\ L[r.record_id + 1] = r
  BY <1>5, GoodIds
<1>7. Ids(results) \subseteq 0 .. next - 1
  BY <1>6 DEF Ids
<1>8. \A t \in taken : Made(L, t)
  <2> SUFFICES ASSUME NEW r \in results, NEW t \in r.outputs PROVE Made(L, t)
    OBVIOUS
  <2>1. r.record_id + 1 \in 1 .. Len(L) /\ t \in L[r.record_id + 1].outputs
    BY <1>6
  <2> QED BY <2>1 DEF Made
<1>9. Shape(a, next, "MoECombine", "MoECombine", taken, {C}, Ids(results))
  BY RecordShape DEF Accounting
<1>10. Shape(b, next + 1, "PIMDataMove", "moe_expert_output_combine_materialized", {C}, {D}, {next})
  BY RecordShape DEF DynamicMove
<1> HIDE DEF a, b
<1>11. IsList(c) /\ Len(c) = 2 /\ c[1] = a /\ c[2] = b
  BY ListOfTwo
<1>12. Local(C)
  BY LocalTensors
<1>13. Local(D)
  BY LocalTensors
<1> HIDE DEF c, C, D, taken, results
<1>14. Joins(L, c, 1, "feed_forward")
  <2>1. \A t \in taken : Has(L, c, 1, "feed_forward", t)
    BY <1>8 DEF Has
  <2> QED BY <1>6, <1>7, <1>9, <1>11, <1>12, <2>1 DEF Joins, Shape
<1>15. Joins(L, c, 2, "feed_forward")
  <2>1. Has(L, c, 2, "feed_forward", C)
    BY <1>9, <1>11 DEF Has, Shape
  <2> QED BY <1>6, <1>10, <1>11, <1>13, <2>1 DEF Joins, Shape
<1>16. Made(L \o c, D)
  <2>1. 2 \in 1 .. Len(c) /\ D \in c[2].outputs
    BY <1>10, <1>11 DEF Shape
  <2> QED BY <1>6, <1>11, <2>1, ContinuesConcat
<1>17. \A j \in 1 .. Len(c) : Joins(L, c, j, "feed_forward")
  <2>1. \A j \in 1 .. 2 : j = 1 \/ j = 2
    OBVIOUS
  <2> QED BY <1>11, <1>14, <1>15, <2>1
<1>18. Good(L \o c, "feed_forward")
  BY <1>5, <1>11, <1>17, GoodConcat
<1> QED BY <1>1, <1>16, <1>18 DEF D

(***************************************************************************)
(* Projections and cache writes.                                           *)
(***************************************************************************)
LEMMA QKVFits ==
  ASSUME NEW m, NEW q_dim, NEW kv_dim, NEW L, Good(L, "projections"), Len(L) = 0
  PROVE  Fits(L, QKVProjections(m, q_dim, kv_dim), {Whole("Q"), Whole("K"), Whole("V")}, "projections")
<1> DEFINE HI == Whole("hidden")
           Q == Whole("Q")
           WQ == Placed(Whole("q_projection"), "weight.resident")
           K == Whole("K")
           WK == Placed(Whole("k_projection"), "weight.resident")
           V == Whole("V")
           WV == Placed(Whole("v_projection"), "weight.resident")
           r1 == Projection(m, 0, "q_projection", Whole("hidden"), Whole("Q"), q_dim)
           r2 == Projection(m, 1, "k_projection", Whole("hidden"), Whole("K"), kv_dim)
           r3 == Projection(m, 2, "v_projection", Whole("hidden"), Whole("V"), kv_dim)
           c == <<r1, r2, r3>>
<1>1. QKVProjections(m, q_dim, kv_dim) = c
  BY DEF QKVProjections
<1>s1. Shape(r1, 0, "FFNProjection", "q_projection", {HI, WQ}, {Q}, {})
  BY RecordShape DEF Projection
<1>s2. Shape(r2, 1, "FFNProjection", "k_projection", {HI, WK}, {K}, {})
  BY RecordShape DEF Projection
<1>s3. Shape(r3, 2, "FFNProjection", "v_projection", {HI, WV}, {V}, {})
  BY RecordShape DEF Projection
<1> HIDE DEF r1, r2, r3
<1>2. /\ IsList(c) /\ Len(c) = 3
      /\ c[1] = r1 /\ c[2] = r2 /\ c[3] = r3
  <2>1. c \in Seq({r1, r2, r3}) /\ Len(c) = 3
    OBVIOUS
  <2> QED BY <2>1 DEF IsList
<1>t1. Loose("projections", HI)
  BY TensorShape, WholeShape DEF OfShape, Loose, Weights
<1>t2. Local(Q)
  BY LocalTensors
<1>t3. Loose("projections", WQ)
  BY TensorShape, WholeShape DEF OfShape, Loose, Weights
<1>t4. Local(K)
  BY LocalTensors
<1>t5. Loose("projections", WK)
  BY TensorShape, WholeShape DEF OfShape, Loose, Weights
<1>t6. Local(V)
  BY LocalTensors
<1>t7. Loose("projections", WV)
  BY TensorShape, WholeShape DEF OfShape, Loose, Weights
<1>3. Len(L) \in Nat /\ IsList(L)
  BY GoodIds
<1> HIDE DEF c, HI, Q, WQ, K, WK, V, WV
<1>j1. Joins(L, c, 1, "projections")
  <2>1. Has(L, c, 1, "projections", HI)
    BY <1>t1 DEF Has
  <2>2. Has(L, c, 1, "projections", WQ)
    BY <1>t3 DEF Has
  <2> QED BY <1>2, <1>3, <1>s1, <1>t2, <2>1, <2>2 DEF Joins, Shape
<1>j2. Joins(L, c, 2, "projections")
  <2>1. Has(L, c, 2, "projections", HI)
    BY <1>t1 DEF Has
  <2>2. Has(L, c, 2, "projections", WK)
    BY <1>t5 DEF Has
  <2> QED BY <1>2, <1>3, <1>s2, <1>t4, <2>1, <2>2 DEF Joins, Shape
<1>j3. Joins(L, c, 3, "projections")
  <2>1. Has(L, c, 3, "projections", HI)
    BY <1>t1 DEF Has
  <2>2. Has(L, c, 3, "projections", WV)
    BY <1>t7 DEF Has
  <2> QED BY <1>2, <1>3, <1>s3, <1>t6, <2>1, <2>2 DEF Joins, Shape
<1>m1. Made(L \o c, Q)
  <2>1. 1 \in 1 .. Len(c) /\ Q \in c[1].outputs
    BY <1>2, <1>s1 DEF Shape
  <2> QED BY <1>2, <1>3, <2>1, ContinuesConcat
<1>m2. Made(L \o c, K)
  <2>1. 2 \in 1 .. Len(c) /\ K \in c[2].outputs
    BY <1>2, <1>s2 DEF Shape
  <2> QED BY <1>2, <1>3, <2>1, ContinuesConcat
<1>m3. Made(L \o c, V)
  <2>1. 3 \in 1 .. Len(c) /\ V \in c[3].outputs
    BY <1>2, <1>s3 DEF Shape
  <2> QED BY <1>2, <1>3, <2>1, ContinuesConcat
<1>4. \A j \in 1 .. Len(c) : Joins(L, c, j, "projections")
  <2>1. \A j \in 1 .. 3 : j = 1 \/ j = 2 \/ j = 3
    OBVIOUS
  <2> QED BY <1>2, <2>1, <1>j1, <1>j2, <1>j3
<1> QED BY <1>1, <1>2, <1>4, <1>m1, <1>m2, <1>m3 DEF Fits, Q, K, V

LEMMA OProjectionFits ==
  ASSUME NEW m, NEW q_dim, NEW L, Good(L, "o_projection"), Len(L) = 0
  PROVE  Fits(L, OProjection(m, q_dim), {Whole("attention_output")}, "o_projection")
<1> DEFINE HI == Whole("attention_context")
           W == Placed(Whole("o_projection"), "weight.resident")
           O == Whole("attention_output")
           r1 == Projection(m, 0, "o_projection", Whole("attention_context"), Whole("attention_output"), q_dim)
           c == <<r1>>
<1>1. OProjection(m, q_dim) = c
  BY DEF OProjection
<1>s1. Shape(r1, 0, "FFNProjection", "o_projection", {HI, W}, {O}, {})
  BY RecordShape DEF Projection
<1> HIDE DEF r1
<1>2. /\ IsList(c) /\ Len(c) = 1
      /\ c[1] = r1
  <2>1. c \in Seq({r1}) /\ Len(c) = 1
    OBVIOUS
  <2> QED BY <2>1 DEF IsList
<1>t3. Local(O)
  BY LocalTensors
<1>3. Len(L) \in Nat /\ IsList(L)
  BY GoodIds
<1> HIDE DEF c, HI, W, O
<1>j1. Joins(L, c, 1, "o_projection")
  <2> QED BY <1>2, <1>3, <1>s1, <1>t3 DEF Joins, Shape, IsRewired
<1>m1. Made(L \o c, O)
  <2>1. 1 \in 1 .. Len(c) /\ O \in c[1].outputs
    BY <1>2, <1>s1 DEF Shape
  <2> QED BY <1>2, <1>3, <2>1, ContinuesConcat
<1>4. \A j \in 1 .. Len(c) : Joins(L, c, j, "o_projection")
  <2>1. \A j \in 1 .. 1 : j = 1
    OBVIOUS
  <2> QED BY <1>2, <2>1, <1>j1
<1> QED BY <1>1, <1>2, <1>4, <1>m1 DEF Fits, O

LEMMA DecodeCacheWritesFits ==
  ASSUME NEW L, Good(L, "cache_writes"), Len(L) = 0
  PROVE  Fits(L, DecodeCacheWrites, {Placed(Whole("K"), "kv_cache"), Placed(Whole("V"), "kv_cache")}, "cache_writes")
<1> DEFINE K == Whole("K")
           V == Whole("V")
           CK == Placed(Whole("K"), "kv_cache")
           CV == Placed(Whole("V"), "kv_cache")
           r1 == CacheWrite(0, "kv_cache_k_append", "K")
           r2 == CacheWrite(1, "kv_cache_v_append", "V")
           c == <<r1, r2>>
<1>1. DecodeCacheWrites = c
  BY DEF DecodeCacheWrites
<1>s1. Shape(r1, 0, "HostWrite", "kv_cache_k_append", {K}, {CK}, {})
  BY RecordShape DEF CacheWrite
<1>s2. Shape(r2, 1, "HostWrite", "kv_cache_v_append", {V}, {CV}, {})
  BY RecordShape DEF CacheWrite
<1> HIDE DEF r1, r2
<1>2. /\ IsList(c) /\ Len(c) = 2
      /\ c[1] = r1 /\ c[2] = r2
  <2>1. c \in Seq({r1, r2}) /\ Len(c) = 2
    OBVIOUS
  <2> QED BY <2>1 DEF IsList
<1>t3. Local(CK)
  BY LocalTensors
<1>t4. Local(CV)
  BY LocalTensors
<1>3. Len(L) \in Nat /\ IsList(L)
  BY GoodIds
<1> HIDE DEF c, K, V, CK, CV
<1>j1. Joins(L, c, 1, "cache_writes")
  <2> QED BY <1>2, <1>3, <1>s1, <1>t3 DEF Joins, Shape, IsRewired
<1>j2. Joins(L, c, 2, "cache_writes")
  <2> QED BY <1>2, <1>3, <1>s2, <1>t4 DEF Joins, Shape, IsRewired
<1>m1. Made(L \o c, CK)
  <2>1. 1 \in 1 .. Len(c) /\ CK \in c[1].outputs
    BY <1>2, <1>s1 DEF Shape
  <2> QED BY <1>2, <1>3, <2>1, ContinuesConcat
<1>m2. Made(L \o c, CV)
  <2>1. 2 \in 1 .. Len(c) /\ CV \in c[2].outputs
    BY <1>2, <1>s2 DEF Shape
  <2> QED BY <1>2, <1>3, <2>1, ContinuesConcat
<1>4. \A j \in 1 .. Len(c) : Joins(L, c, j, "cache_writes")
  <2>1. \A j \in 1 .. 2 : j = 1 \/ j = 2
    OBVIOUS
  <2> QED BY <1>2, <2>1, <1>j1, <1>j2
<1> QED BY <1>1, <1>2, <1>4, <1>m1, <1>m2 DEF Fits, CK, CV

LEMMA PrefillCacheWritesFits ==
  ASSUME NEW L, Good(L, "cache_writes"), Len(L) = 0
  PROVE  Fits(L, PrefillCacheWrites, {Placed(Whole("K"), "kv_cache"), Placed(Whole("V"), "kv_cache")}, "cache_writes")
<1> DEFINE K == Whole("K")
           V == Whole("V")
           CK == Placed(Whole("K"), "kv_cache")
           CV == Placed(Whole("V"), "kv_cache")
           r1 == CacheWrite(0, "kv_cache_k_prefill_population", "K")
           r2 == CacheWrite(1, "kv_cache_v_prefill_population", "V")
           c == <<r1, r2>>
<1>1. PrefillCacheWrites = c
  BY DEF PrefillCacheWrites
<1>s1. Shape(r1, 0, "HostWrite", "kv_cache_k_prefill_population", {K}, {CK}, {})
  BY RecordShape DEF CacheWrite
<1>s2. Shape(r2, 1, "HostWrite", "kv_cache_v_prefill_population", {V}, {CV}, {})
  BY RecordShape DEF CacheWrite
<1> HIDE DEF r1, r2
<1>2. /\ IsList(c) /\ Len(c) = 2
      /\ c[1] = r1 /\ c[2] = r2
  <2>1. c \in Seq({r1, r2}) /\ Len(c) = 2
    OBVIOUS
  <2> QED BY <2>1 DEF IsList
<1>t3. Local(CK)
  BY LocalTensors
<1>t4. Local(CV)
  BY LocalTensors
<1>3. Len(L) \in Nat /\ IsList(L)
  BY GoodIds
<1> HIDE DEF c, K, V, CK, CV
<1>j1. Joins(L, c, 1, "cache_writes")
  <2> QED BY <1>2, <1>3, <1>s1, <1>t3 DEF Joins, Shape, IsRewired
<1>j2. Joins(L, c, 2, "cache_writes")
  <2> QED BY <1>2, <1>3, <1>s2, <1>t4 DEF Joins, Shape, IsRewired
<1>m1. Made(L \o c, CK)
  <2>1. 1 \in 1 .. Len(c) /\ CK \in c[1].outputs
    BY <1>2, <1>s1 DEF Shape
  <2> QED BY <1>2, <1>3, <2>1, ContinuesConcat
<1>m2. Made(L \o c, CV)
  <2>1. 2 \in 1 .. Len(c) /\ CV \in c[2].outputs
    BY <1>2, <1>s2 DEF Shape
  <2> QED BY <1>2, <1>3, <2>1, ContinuesConcat
<1>4. \A j \in 1 .. Len(c) : Joins(L, c, j, "cache_writes")
  <2>1. \A j \in 1 .. 2 : j = 1 \/ j = 2
    OBVIOUS
  <2> QED BY <1>2, <2>1, <1>j1, <1>j2
<1> QED BY <1>1, <1>2, <1>4, <1>m1, <1>m2 DEF Fits, CK, CV

(***************************************************************************)
(* The trace. What the blocks say of themselves, with the layer and the    *)
(* kind of feed-forward part given, so that it says the same after a step. *)
(***************************************************************************)
ResultOf(moe, l) ==
  [Placed(Whole(IF moe THEN "combined" ELSE "hidden_out"), IF moe THEN "materialized" ELSE "plain") EXCEPT !.layer = l]
SourceOf(moe, t) ==
  CASE t.place = "plain" /\ t.name = "hidden" /\ t.layer > 0 -> ResultOf(moe, t.layer - 1)
    [] t.place = "plain" /\ t.name = "K.tile" -> Cached("K", t.layer)
    [] t.place = "plain" /\ t.name = "V.tile" -> Cached("V", t.layer)
    [] OTHER -> t
Moved(l, t) == IF t.layer = 0 THEN [t EXCEPT !.layer = l] ELSE t

Known(M, d) == \E i \in 1 .. Len(M) : M[i].record_id = d
Reaches(moe, M, t) == Given(SourceOf(moe, t)) \/ Made(M, SourceOf(moe, t))

(* The k-th of the records c may come after those of M and those of c      *)
(* before it.                                                              *)
Arrives(moe, M, c, k) ==
  /\ IsRecord(c[k]) /\ c[k].record_id \in Nat
  /\ \A i \in 1 .. Len(M) : M[i].record_id < c[k].record_id
  /\ \A i \in 1 .. k - 1 : c[i].record_id < c[k].record_id
  /\ \A d \in c[k].logical_dependencies : Known(M, d) \/ \E i \in 1 .. k - 1 : c[i].record_id = d
  /\ \A t \in c[k].inputs : Reaches(moe, M, t) \/ \E i \in 1 .. k - 1 : SourceOf(moe, t) \in c[i].outputs

Linked(moe, M) == IsList(M) /\ \A k \in 1 .. Len(M) : Arrives(moe, <<>>, M, k)

(* The records c may come after those of M.                                *)
Follow(moe, M, c) == IsList(c) /\ \A k \in 1 .. Len(c) : Arrives(moe, M, c, k)

LEMMA LinkedConcat ==
  ASSUME NEW moe, NEW M, NEW c, Linked(moe, M), Follow(moe, M, c)
  PROVE  Linked(moe, M \o c)
<1> DEFINE N == M \o c
<1>0. IsList(M) /\ IsList(c) /\ Len(M) \in Nat /\ Len(c) \in Nat
  BY ListIs DEF Linked, Follow
<1>1. /\ IsList(N) /\ Len(N) = Len(M) + Len(c)
      /\ \A i \in 1 .. Len(M) : N[i] = M[i]
      /\ \A i \in 1 .. Len(c) : N[Len(M) + i] = c[i]
  BY <1>0, ListConcat
<1>e. Len(<<>>) = 0 /\ \A d : ~Known(<<>>, d)
  BY EmptyList DEF Known
<1>f. \A t : ~Made(<<>>, t)
  BY EmptyList DEF Made
<1> HIDE DEF N
<1>2. ASSUME NEW k \in 1 .. Len(M) PROVE Arrives(moe, <<>>, N, k)
  <2>1. Arrives(moe, <<>>, M, k) /\ N[k] = M[k]
    BY <1>1, <1>2 DEF Linked
  <2>2. \A i \in 1 .. k - 1 : N[i] = M[i]
    BY <1>0, <1>1
  <2> QED BY <2>1, <2>2, <1>e DEF Arrives
<1>3. ASSUME NEW j \in 1 .. Len(c) PROVE Arrives(moe, <<>>, N, Len(M) + j)
  <2> DEFINE k == Len(M) + j
  <2>1. Arrives(moe, M, c, j) /\ N[k] = c[j] /\ k \in Nat
    BY <1>0, <1>1 DEF Follow
  <2>2. \A i \in 1 .. Len(M) : i \in 1 .. k - 1 /\ N[i] = M[i]
    BY <1>0, <1>1
  <2>3. \A i \in 1 .. j - 1 : Len(M) + i \in 1 .. k - 1 /\ N[Len(M) + i] = c[i]
    BY <1>0, <1>1
  <2>4. ASSUME NEW i \in 1 .. k - 1
        PROVE  i \in 1 .. Len(M) \/ \E h \in 1 .. j - 1 : i = Len(M) + h
    <3>1. CASE i <= Len(M)
      BY <3>1, <1>0
    <3>2. CASE ~(i <= Len(M))
      <4>1. i - Len(M) \in 1 .. j - 1 /\ i = Len(M) + (i - Len(M))
        BY <3>2, <1>0
      <4> QED BY <4>1
    <3> QED BY <3>1, <3>2
  <2> HIDE DEF k
  <2>5. \A i \in 1 .. k - 1 : N[i].record_id < N[k].record_id
    <3>1. \A i \in 1 .. Len(M) : M[i].record_id < c[j].record_id
      BY <2>1 DEF Arrives
    <3>2. \A i \in 1 .. j - 1 : c[i].record_id < c[j].record_id
      BY <2>1 DEF Arrives
    <3> QED BY <2>1, <2>2, <2>3, <2>4, <3>1, <3>2
  <2>6. ASSUME NEW d \in N[k].logical_dependencies PROVE \E i \in 1 .. k - 1 : N[i].record_id = d
    <3>1. Known(M, d) \/ \E i \in 1 .. j - 1 : c[i].record_id = d
      BY <2>1 DEF Arrives
    <3>2. CASE \E i \in 1 .. Len(M) : M[i].record_id = d
      BY <3>2, <2>2
    <3>3. CASE \E i \in 1 .. j - 1 : c[i].record_id = d
      BY <3>3, <2>3
    <3> QED BY <3>1, <3>2, <3>3 DEF Known
  <2>7. ASSUME NEW t \in N[k].inputs
        PROVE  Reaches(moe, <<>>, t) \/ \E i \in 1 .. k - 1 : SourceOf(moe, t) \in N[i].outputs
    <3> DEFINE s == SourceOf(moe, t)
    <3>1. Reaches(moe, M, t) \/ \E i \in 1 .. j - 1 : s \in c[i].outputs
      BY <2>1 DEF Arrives
    <3>2. CASE Given(s)
      BY <3>2 DEF Reaches
    <3>3. CASE \E i \in 1 .. Len(M) : s \in M[i].outputs
      BY <3>3, <2>2
    <3>4. CASE \E i \in 1 .. j - 1 : s \in c[i].outputs
      BY <3>4, <2>3
    <3> QED BY <3>1, <3>2, <3>3, <3>4 DEF Reaches, Made
  <2>8. IsRecord(N[k]) /\ N[k].record_id \in Nat
    BY <2>1 DEF Arrives
  <2> HIDE DEF k
  <2>9. Arrives(moe, <<>>, N, k)
    BY <2>5, <2>6, <2>7, <2>8, <1>e DEF Arrives
  <2> QED BY <2>9 DEF k
<1>4. ASSUME NEW i \in 1 .. Len(N) PROVE Arrives(moe, <<>>, N, i)
  <2>1. CASE i <= Len(M)
    BY <2>1, <1>0, <1>2
  <2>2. CASE ~(i <= Len(M))
    <3>1. i - Len(M) \in 1 .. Len(c) /\ Len(M) + (i - Len(M)) = i
      BY <2>2, <1>0, <1>1
    <3> QED BY <3>1, <1>3
  <2> QED BY <2>1, <2>2
<1> QED BY <1>1, <1>4 DEF Linked, N

LEMMA KnownConcat ==
  ASSUME NEW M, NEW c, IsList(M), IsList(c)
  PROVE  /\ \A d : Known(M, d) => Known(M \o c, d)
         /\ \A j \in 1 .. Len(c) : Known(M \o c, c[j].record_id)
         /\ \A t : Made(M, t) => Made(M \o c, t)
<1> DEFINE N == M \o c
<1>1. Continues(N, M) /\ Len(N) = Len(M) + Len(c) /\ \A j \in 1 .. Len(c) : N[Len(M) + j] = c[j]
  BY ContinuesConcat
<1>2. Len(M) \in Nat /\ Len(c) \in Nat
  BY ListIs
<1> HIDE DEF N
<1>3. \A d : Known(M, d) => Known(N, d)
  BY <1>1, <1>2 DEF Known, Continues
<1>4. ASSUME NEW j \in 1 .. Len(c) PROVE Known(N, c[j].record_id)
  <2>1. Len(M) + j \in 1 .. Len(N)
    BY <1>1, <1>2
  <2> QED BY <1>1, <2>1 DEF Known
<1>5. \A t : Made(M, t) => Made(N, t)
  BY <1>1, MadeContinues
<1> QED BY <1>3, <1>4, <1>5 DEF N

(***************************************************************************)
(* A block, renumbered to begin at n and retargeted to layer l.            *)
(***************************************************************************)
LiftOf(g, r, id, n, l) ==
  Shape(g, id, r.kind, r.op, {Moved(l, t) : t \in r.inputs}, {Moved(l, t) : t \in r.outputs},
        {n + d : d \in r.logical_dependencies})
IsLift(G, L, n, l) == IsList(G) /\ Len(G) = Len(L) /\ \A j \in 1 .. Len(L) : LiftOf(G[j], L[j], n + j - 1, n, l)

(* A record with one field replaced.                                       *)
LEMMA ReplaceField ==
  ASSUME NEW r, IsRecord(r), NEW x
  PROVE  /\ Shape([r EXCEPT !.record_id = x], x, r.kind, r.op, r.inputs, r.outputs, r.logical_dependencies)
         /\ Shape([r EXCEPT !.inputs = x], r.record_id, r.kind, r.op, x, r.outputs, r.logical_dependencies)
         /\ Shape([r EXCEPT !.outputs = x], r.record_id, r.kind, r.op, r.inputs, x, r.logical_dependencies)
         /\ Shape([r EXCEPT !.logical_dependencies = x], r.record_id, r.kind, r.op, r.inputs, r.outputs, x)
<1>1. Shape([r EXCEPT !.record_id = x], x, r.kind, r.op, r.inputs, r.outputs, r.logical_dependencies)
  <2>1. [r EXCEPT !.record_id = x] = [record_id |-> x, kind |-> r.kind, op |-> r.op, inputs |-> r.inputs, outputs |-> r.outputs,
                                logical_dependencies |-> r.logical_dependencies, num_requests |-> r.num_requests, pairs |-> r.pairs]
    BY DEF IsRecord
  <2> QED BY <2>1 DEF Shape, IsRecord
<1>2. Shape([r EXCEPT !.inputs = x], r.record_id, r.kind, r.op, x, r.outputs, r.logical_dependencies)
  <2>1. [r EXCEPT !.inputs = x] = [record_id |-> r.record_id, kind |-> r.kind, op |-> r.op, inputs |-> x, outputs |-> r.outputs,
                                logical_dependencies |-> r.logical_dependencies, num_requests |-> r.num_requests, pairs |-> r.pairs]
    BY DEF IsRecord
  <2> QED BY <2>1 DEF Shape, IsRecord
<1>3. Shape([r EXCEPT !.outputs = x], r.record_id, r.kind, r.op, r.inputs, x, r.logical_dependencies)
  <2>1. [r EXCEPT !.outputs = x] = [record_id |-> r.record_id, kind |-> r.kind, op |-> r.op, inputs |-> r.inputs, outputs |-> x,
                                logical_dependencies |-> r.logical_dependencies, num_requests |-> r.num_requests, pairs |-> r.pairs]
    BY DEF IsRecord
  <2> QED BY <2>1 DEF Shape, IsRecord
<1>4. Shape([r EXCEPT !.logical_dependencies = x], r.record_id, r.kind, r.op, r.inputs, r.outputs, x)
  <2>1. [r EXCEPT !.logical_dependencies = x] = [record_id |-> r.record_id, kind |-> r.kind, op |-> r.op, inputs |-> r.inputs, outputs |-> r.outputs,
                                logical_dependencies |-> x, num_requests |-> r.num_requests, pairs |-> r.pairs]
    BY DEF IsRecord
  <2> QED BY <2>1 DEF Shape, IsRecord
<1> QED BY <1>1, <1>2, <1>3, <1>4

LEMMA GeneratedIs ==
  ASSUME NEW L, NEW mode, Good(L, mode), next_id \in Nat
  PROVE  IsLift(Generated(L), L, next_id, layer)
<1> DEFINE A == RenumberRecords(L, next_id)
           G == Generated(L)
<1>0. IsList(L) /\ Len(L) \in Nat /\ DOMAIN L = 1 .. Len(L) /\ \A j \in 1 .. Len(L) : IsRecord(L[j])
  BY GoodIds, ListIs
<1>1. A = [i \in 1 .. Len(L) |-> [L[i] EXCEPT !.record_id = next_id + i - 1,
                                              !.logical_dependencies = {next_id + d : d \in L[i].logical_dependencies}]]
  BY <1>0 DEF RenumberRecords
<1>2. G = [i \in DOMAIN A |-> [A[i] EXCEPT !.inputs = {Moved(layer, t) : t \in A[i].inputs},
                                           !.outputs = {Moved(layer, t) : t \in A[i].outputs}]]
  BY DEF Generated, RetargetLayerZero, RetargetTensor, Moved
<1>3. ASSUME NEW j \in 1 .. Len(L) PROVE LiftOf(G[j], L[j], next_id + j - 1, next_id, layer)
  <2> DEFINE r == L[j]
             id == next_id + j - 1
             deps == {next_id + d : d \in r.logical_dependencies}
             ins == {Moved(layer, t) : t \in r.inputs}
             outs == {Moved(layer, t) : t \in r.outputs}
  <2>1. A[j] = [[r EXCEPT !.record_id = id] EXCEPT !.logical_dependencies = deps]
    BY <1>1
  <2>2. j \in DOMAIN A
    BY <1>1
  <2>3. G[j] = [[A[j] EXCEPT !.inputs = {Moved(layer, t) : t \in A[j].inputs}]
                             EXCEPT !.outputs = {Moved(layer, t) : t \in A[j].outputs}]
    BY <1>2, <2>2
  <2> HIDE DEF A, G, r, id, deps
  <2> DEFINE q == [r EXCEPT !.record_id = id]
             a == [A[j] EXCEPT !.inputs = ins]
  <2>4. Shape(q, id, r.kind, r.op, r.inputs, r.outputs, r.logical_dependencies)
    BY <1>0, ReplaceField DEF r
  <2> HIDE DEF q
  <2>5. Shape(A[j], id, r.kind, r.op, r.inputs, r.outputs, deps)
    <3>1. A[j] = [q EXCEPT !.logical_dependencies = deps]
      BY <2>1 DEF q
    <3>2. IsRecord(q)
      BY <2>4 DEF Shape
    <3>3. Shape([q EXCEPT !.logical_dependencies = deps], q.record_id, q.kind, q.op, q.inputs, q.outputs, deps)
      BY <3>2, ReplaceField
    <3> QED BY <2>4, <3>1, <3>3 DEF Shape
  <2>6. A[j].inputs = r.inputs /\ A[j].outputs = r.outputs /\ IsRecord(A[j])
    BY <2>5 DEF Shape
  <2>7. G[j] = [a EXCEPT !.outputs = outs]
    BY <2>3, <2>6
  <2> HIDE DEF ins, outs
  <2>8. Shape(a, id, r.kind, r.op, ins, r.outputs, deps)
    <3>1. Shape(a, A[j].record_id, A[j].kind, A[j].op, ins, A[j].outputs, A[j].logical_dependencies)
      BY <2>6, ReplaceField
    <3> QED BY <2>5, <3>1 DEF Shape
  <2> HIDE DEF a
  <2>9. Shape(G[j], id, r.kind, r.op, ins, outs, deps)
    <3>1. IsRecord(a)
      BY <2>8 DEF Shape
    <3>2. Shape([a EXCEPT !.outputs = outs], a.record_id, a.kind, a.op, a.inputs, outs, a.logical_dependencies)
      BY <3>1, ReplaceField
    <3> QED BY <2>7, <2>8, <3>2 DEF Shape
  <2> QED BY <2>9 DEF LiftOf, r, id, deps, ins, outs
<1>4. IsList(G) /\ Len(G) = Len(L)
  <2>1. DOMAIN A = 1 .. Len(L)
    BY <1>1
  <2>2. G = [i \in 1 .. Len(L) |-> G[i]]
    BY <1>2, <2>1
  <2> HIDE DEF G
  <2> QED BY <1>0, <2>2, ListOfFunction
<1> HIDE DEF G
<1>5. IsLift(G, L, next_id, layer)
  BY <1>3, <1>4 DEF IsLift
<1> QED BY <1>5 DEF G

(* Where the tensors of a moved block come from.                           *)
LEMMA MovedLocal ==
  ASSUME NEW moe, NEW l, NEW t, Local(t)
  PROVE  SourceOf(moe, Moved(l, t)) = Moved(l, t) /\ Moved(l, t).name = t.name
<1>1. t = [layer |-> 0, name |-> t.name, place |-> t.place, head |-> t.head, tile |-> t.tile, tile2 |-> t.tile2]
  BY DEF Local, IsTensor
<1>2. Moved(l, t) = [t EXCEPT !.layer = l]
  BY DEF Moved, Local
<1>3. Moved(l, t) = [layer |-> l, name |-> t.name, place |-> t.place, head |-> t.head, tile |-> t.tile, tile2 |-> t.tile2]
  BY <1>1, <1>2
<1>4. Moved(l, t).name = t.name /\ Moved(l, t).place = t.place
  BY <1>3
<1>5. ~(t.place = "plain" /\ t.name = "hidden") /\ ~(t.place = "plain" /\ t.name = "K.tile") /\ ~(t.place = "plain" /\ t.name = "V.tile")
  BY DEF Local
<1> DEFINE u == Moved(l, t)
<1> HIDE DEF u
<1>6. SourceOf(moe, u) = u
  BY <1>4, <1>5 DEF SourceOf, u
<1> QED BY <1>4, <1>6 DEF u

LEMMA MovedLoose ==
  ASSUME NEW moe, NEW l \in Nat, NEW mode, NEW t, Loose(mode, t), NEW M,
         l > 0 => Made(M, ResultOf(moe, l - 1)),
         mode = "decode" => Made(M, Cached("K", l)) /\ Made(M, Cached("V", l))
  PROVE  Reaches(moe, M, Moved(l, t)) /\ Moved(l, t).name = t.name
<1> DEFINE u == Moved(l, t)
<1>1. t = [layer |-> 0, name |-> t.name, place |-> t.place, head |-> t.head, tile |-> t.tile, tile2 |-> t.tile2]
  BY DEF Loose, IsTensor
<1>2. u = [t EXCEPT !.layer = l]
  BY DEF Moved, Loose
<1>3. u = [layer |-> l, name |-> t.name, place |-> t.place, head |-> t.head, tile |-> t.tile, tile2 |-> t.tile2]
  BY <1>1, <1>2
<1> HIDE DEF u
<1>4. u.name = t.name /\ u.place = t.place /\ u.layer = l
  BY <1>3
<1>5. CASE t.place = "weight.resident"
  <2>1. SourceOf(moe, u) = u
    BY <1>4, <1>5 DEF SourceOf
  <2> QED BY <1>4, <1>5, <2>1 DEF Reaches, Given, u
<1>6. CASE t.place = "plain" /\ t.name \in Weights
  <2>1. SourceOf(moe, u) = u
    BY <1>4, <1>6 DEF SourceOf, Weights
  <2>2. Given(u)
    BY <1>4, <1>6 DEF Given, Weights
  <2> QED BY <1>4, <2>1, <2>2 DEF Reaches, u
<1>7. CASE t.place = "plain" /\ t.name = "hidden"
  <2>1. CASE l = 0
    <3>1. SourceOf(moe, u) = u
      BY <1>4, <1>7, <2>1 DEF SourceOf
    <3>2. Given(u)
      BY <1>4, <1>7, <2>1 DEF Given
    <3> QED BY <1>4, <3>1, <3>2 DEF Reaches, u
  <2>2. CASE l > 0
    <3>1. SourceOf(moe, u) = ResultOf(moe, l - 1)
      BY <1>4, <1>7, <2>2 DEF SourceOf
    <3> QED BY <1>4, <2>2, <3>1 DEF Reaches, u
  <2> QED BY <2>1, <2>2
<1>8. CASE t.place = "plain" /\ t.name \in {"K.tile", "V.tile"} /\ mode = "decode"
  <2>1. SourceOf(moe, u) \in {Cached("K", l), Cached("V", l)}
    BY <1>4, <1>8 DEF SourceOf
  <2> QED BY <1>4, <1>8, <2>1 DEF Reaches, u
<1> QED BY <1>5, <1>6, <1>7, <1>8 DEF Loose

(***************************************************************************)
(* Connecting a block to the trace.                                        *)
(***************************************************************************)
Below(M, n) == \A i \in 1 .. Len(M) : M[i].record_id < n

(* The records M, and what the next block is numbered from and retargeted  *)
(* to: the hidden state of the layer is there.                             *)
Stage(moe, M, n, l) ==
  /\ Linked(moe, M) /\ Below(M, n) /\ n \in Nat /\ l \in Nat
  /\ l > 0 => Made(M, ResultOf(moe, l - 1))

LEMMA StageFollow ==
  ASSUME NEW moe, NEW M, NEW n, NEW l, Stage(moe, M, n, l), NEW c, Follow(moe, M, c), NEW next \in Nat,
         n <= next, \A j \in 1 .. Len(c) : c[j].record_id < next
  PROVE  Stage(moe, M \o c, next, l)
<1>0. IsList(M) /\ IsList(c) /\ Len(M) \in Nat /\ Len(c) \in Nat
  BY ListIs DEF Stage, Linked, Follow
<1>1. Linked(moe, M \o c)
  BY LinkedConcat DEF Stage
<1>2. l > 0 => Made(M \o c, ResultOf(moe, l - 1))
  BY <1>0, KnownConcat DEF Stage
<1>3. Below(M \o c, next)
  <2> DEFINE N == M \o c
  <2>1. /\ Len(N) = Len(M) + Len(c)
        /\ \A i \in 1 .. Len(M) : N[i] = M[i]
        /\ \A i \in 1 .. Len(c) : N[Len(M) + i] = c[i]
    BY <1>0, ListConcat
  <2> HIDE DEF N
  <2> SUFFICES ASSUME NEW i \in 1 .. Len(N) PROVE N[i].record_id < next
    BY DEF Below, N
  <2>2. CASE i <= Len(M)
    <3>1. i \in 1 .. Len(M)
      BY <1>0, <2>2
    <3>2. M[i].record_id < n /\ n \in Nat
      BY <3>1 DEF Stage, Below
    <3>3. M[i].record_id \in Nat
      BY <3>1 DEF Stage, Linked, Arrives
    <3> QED BY <2>1, <3>1, <3>2, <3>3
  <2>3. CASE ~(i <= Len(M))
    <3>1. i - Len(M) \in 1 .. Len(c) /\ Len(M) + (i - Len(M)) = i
      BY <1>0, <2>1, <2>3
    <3> QED BY <2>1, <3>1
  <2> QED BY <2>2, <2>3
<1> QED BY <1>1, <1>2, <1>3 DEF Stage

(* What the records of a moved block are.                                  *)
LEMMA LiftedRecord ==
  ASSUME NEW L, NEW mode, Good(L, mode), NEW G, NEW n \in Nat, NEW l, IsLift(G, L, n, l), NEW j \in 1 .. Len(L)
  PROVE  /\ IsRecord(G[j]) /\ G[j].record_id = n + j - 1 /\ G[j].kind = L[j].kind /\ G[j].op = L[j].op
         /\ \A moe : \A t \in G[j].outputs : SourceOf(moe, t) = t
         /\ \A t \in L[j].outputs : Moved(l, t) \in G[j].outputs
         /\ \A t \in G[j].outputs : \E u \in L[j].outputs : t = Moved(l, u)
         /\ \A t \in G[j].inputs : \E u \in L[j].inputs : t = Moved(l, u)
         /\ \A d \in G[j].logical_dependencies :
              \E i \in 1 .. j - 1 : i - 1 \in L[j].logical_dependencies /\ d = n + i - 1 /\ G[i].record_id = d
<1>0. Len(L) \in Nat /\ Len(<<>>) = 0
  BY GoodIds, EmptyList
<1>1. LiftOf(G[j], L[j], n + j - 1, n, l)
  BY DEF IsLift
<1>2. /\ IsRecord(G[j]) /\ G[j].record_id = n + j - 1 /\ G[j].kind = L[j].kind /\ G[j].op = L[j].op
      /\ G[j].inputs = {Moved(l, t) : t \in L[j].inputs} /\ G[j].outputs = {Moved(l, t) : t \in L[j].outputs}
      /\ G[j].logical_dependencies = {n + d : d \in L[j].logical_dependencies}
  BY <1>1 DEF LiftOf, Shape
<1>3. \A t \in L[j].outputs : Local(t)
  BY GoodIds
<1>4. ASSUME NEW moe, NEW t \in G[j].outputs PROVE SourceOf(moe, t) = t
  <2>1. PICK u \in L[j].outputs : t = Moved(l, u)
    BY <1>2
  <2> QED BY <1>3, <2>1, MovedLocal
<1>5. L[j].logical_dependencies \subseteq 0 .. j - 2
  <2>1. Joins(<<>>, L, j, mode)
    BY DEF Good
  <2> QED BY <1>0, <2>1 DEF Joins
<1>6. ASSUME NEW d \in G[j].logical_dependencies
      PROVE  \E i \in 1 .. j - 1 : i - 1 \in L[j].logical_dependencies /\ d = n + i - 1 /\ G[i].record_id = d
  <2>1. PICK e \in L[j].logical_dependencies : d = n + e
    BY <1>2
  <2>2. e + 1 \in 1 .. j - 1 /\ (e + 1) - 1 = e /\ d = n + (e + 1) - 1 /\ e + 1 \in 1 .. Len(L)
    BY <1>0, <1>5, <2>1
  <2>3. LiftOf(G[e + 1], L[e + 1], n + (e + 1) - 1, n, l)
    BY <2>2 DEF IsLift
  <2>4. G[e + 1].record_id = d
    BY <2>2, <2>3 DEF LiftOf, Shape
  <2> QED BY <2>2, <2>4
<1> QED BY <1>2, <1>4, <1>6

(* What a moved record takes, unless a connection replaces it, is there    *)
(* already or made by the block before it.                                 *)
LEMMA LiftedInputs ==
  ASSUME NEW moe, NEW M, NEW n, NEW l, Stage(moe, M, n, l), NEW L, NEW mode, Good(L, mode), NEW G, IsLift(G, L, n, l),
         mode = "decode" => Made(M, Cached("K", l)) /\ Made(M, Cached("V", l)),
         NEW j \in 1 .. Len(L), ~IsRewired(mode, L[j].op), NEW t \in L[j].inputs
  PROVE  \/ Reaches(moe, M, Moved(l, t)) /\ Moved(l, t).name = t.name
         \/ \E i \in 1 .. j - 1 : /\ t \in L[i].outputs /\ SourceOf(moe, Moved(l, t)) \in G[i].outputs
                                  /\ Moved(l, t).name = t.name
<1>0. Len(L) \in Nat
  BY GoodIds
<1>1. Has(<<>>, L, j, mode, t)
  <2>1. Joins(<<>>, L, j, mode)
    BY DEF Good
  <2> QED BY <2>1 DEF Joins
<1>2. ~Made(<<>>, t)
  BY EmptyList DEF Made
<1>3. CASE Loose(mode, t)
  <2>1. l \in Nat /\ (l > 0 => Made(M, ResultOf(moe, l - 1)))
    BY DEF Stage
  <2> QED BY <1>3, <2>1, MovedLoose
<1>4. CASE \E i \in 1 .. j - 1 : t \in L[i].outputs
  <2>1. PICK i \in 1 .. j - 1 : t \in L[i].outputs
    BY <1>4
  <2>2. i \in 1 .. Len(L) /\ n \in Nat
    BY <1>0 DEF Stage
  <2>3. Moved(l, t) \in G[i].outputs
    BY <2>1, <2>2, LiftedRecord
  <2>4. Local(t)
    BY <2>1, <2>2, GoodIds
  <2> QED BY <2>1, <2>3, <2>4, MovedLocal
<1> QED BY <1>1, <1>2, <1>3, <1>4 DEF Has

(* The moved block G, connected to the records M: what is replaced is      *)
(* replaced by what is there.                                              *)
There(moe, M, ins, deps) == (\A d \in deps : Known(M, d)) /\ (\A t \in ins : Reaches(moe, M, t))
Replaced(moe, M, r) == There(moe, M, r.inputs, r.logical_dependencies)
IsConnected(moe, M, C, G, mode) ==
  /\ IsList(C) /\ Len(C) = Len(G)
  /\ \A j \in 1 .. Len(G) : /\ IsRecord(C[j]) /\ C[j].record_id = G[j].record_id /\ C[j].outputs = G[j].outputs
                            /\ (C[j] = G[j] /\ ~IsRewired(mode, G[j].op)) \/ Replaced(moe, M, C[j])

LEMMA ConnectedFollow ==
  ASSUME NEW moe, NEW M, NEW n, NEW l, Stage(moe, M, n, l), NEW L, NEW mode, mode # "decode", Good(L, mode),
         NEW G, IsLift(G, L, n, l), NEW C, IsConnected(moe, M, C, G, mode)
  PROVE  Follow(moe, M, C)
<1>0. /\ Len(L) \in Nat /\ Len(G) = Len(L) /\ Len(C) = Len(L) /\ IsList(C) /\ IsList(M) /\ Len(M) \in Nat
      /\ n \in Nat /\ l \in Nat
  BY GoodIds, ListIs DEF IsLift, IsConnected, Stage, Linked
<1>1. ASSUME NEW j \in 1 .. Len(L)
      PROVE  /\ IsRecord(C[j]) /\ C[j].record_id = n + j - 1 /\ C[j].outputs = G[j].outputs
             /\ (C[j] = G[j] /\ ~IsRewired(mode, L[j].op)) \/ Replaced(moe, M, C[j])
  <2>1. G[j].record_id = n + j - 1 /\ G[j].op = L[j].op
    BY <1>0, LiftedRecord
  <2> QED BY <1>0, <2>1 DEF IsConnected
<1>2. ASSUME NEW j \in 1 .. Len(L) PROVE Arrives(moe, M, C, j)
  <2>1. IsRecord(C[j]) /\ C[j].record_id = n + j - 1 /\ C[j].record_id \in Nat
    BY <1>0, <1>1
  <2>2. ASSUME NEW i \in 1 .. Len(M) PROVE M[i].record_id < C[j].record_id
    <3>1. M[i].record_id < n
      BY DEF Stage, Below
    <3>2. M[i].record_id \in Nat
      BY DEF Stage, Linked, Arrives
    <3> QED BY <1>0, <2>1, <3>1, <3>2
  <2>3. ASSUME NEW i \in 1 .. j - 1 PROVE C[i].record_id = n + i - 1 /\ i \in 1 .. Len(L) /\ C[i].record_id < C[j].record_id
    <3>1. i \in 1 .. Len(L)
      BY <1>0
    <3> QED BY <1>0, <1>1, <2>1, <3>1
  <2>4. ASSUME NEW d \in C[j].logical_dependencies PROVE Known(M, d) \/ \E i \in 1 .. j - 1 : C[i].record_id = d
    <3>1. CASE Replaced(moe, M, C[j])
      BY <3>1 DEF Replaced, There
    <3>2. CASE C[j] = G[j]
      <4>1. PICK i \in 1 .. j - 1 : d = n + i - 1
        BY <1>0, <3>2, LiftedRecord
      <4> QED BY <2>3, <4>1
    <3> QED BY <1>1, <3>1, <3>2
  <2>5. ASSUME NEW t \in C[j].inputs
        PROVE  Reaches(moe, M, t) \/ \E i \in 1 .. j - 1 : SourceOf(moe, t) \in C[i].outputs
    <3>1. CASE Replaced(moe, M, C[j])
      BY <3>1 DEF Replaced, There
    <3>2. CASE C[j] = G[j] /\ ~IsRewired(mode, L[j].op)
      <4>1. PICK u \in L[j].inputs : t = Moved(l, u)
        BY <1>0, <3>2, LiftedRecord
      <4>2. \/ Reaches(moe, M, Moved(l, u))
            \/ \E i \in 1 .. j - 1 : SourceOf(moe, Moved(l, u)) \in G[i].outputs
        BY <3>2, LiftedInputs
      <4>3. \A i \in 1 .. j - 1 : C[i].outputs = G[i].outputs
        BY <1>1, <2>3
      <4> QED BY <4>1, <4>2, <4>3
    <3> QED BY <1>1, <3>1, <3>2
  <2> QED BY <2>1, <2>2, <2>3, <2>4, <2>5 DEF Arrives
<1> QED BY <1>0, <1>2 DEF Follow

(* So the stage is set for the next block, and what the block made is      *)
(* there.                                                                  *)
LEMMA ConnectedStage ==
  ASSUME NEW moe, NEW M, NEW n, NEW l, Stage(moe, M, n, l), NEW L, NEW mode, mode # "decode", Good(L, mode),
         NEW G, IsLift(G, L, n, l), NEW C, IsConnected(moe, M, C, G, mode)
  PROVE  /\ Stage(moe, M \o C, n + Len(L), l) /\ IsList(C) /\ IsList(M) /\ Len(C) = Len(L)
         /\ \A j \in 1 .. Len(L) : Known(M \o C, G[j].record_id)
         /\ \A t : Made(L, t) => Made(M \o C, Moved(l, t))
<1>0. /\ Len(L) \in Nat /\ Len(G) = Len(L) /\ Len(C) = Len(L) /\ IsList(C) /\ IsList(M) /\ Len(M) \in Nat
      /\ n \in Nat /\ l \in Nat
  BY GoodIds, ListIs DEF IsLift, IsConnected, Stage, Linked
<1>1. Follow(moe, M, C)
  BY ConnectedFollow
<1>2. \A j \in 1 .. Len(L) : C[j].record_id = G[j].record_id /\ C[j].outputs = G[j].outputs
  BY <1>0 DEF IsConnected
<1>3. \A j \in 1 .. Len(L) : G[j].record_id = n + j - 1
  BY <1>0, LiftedRecord
<1>4. Stage(moe, M \o C, n + Len(L), l)
  <2>1. n + Len(L) \in Nat /\ n <= n + Len(L) /\ \A j \in 1 .. Len(C) : C[j].record_id < n + Len(L)
    BY <1>0, <1>2, <1>3
  <2> QED BY <1>1, <2>1, StageFollow
<1>5. \A j \in 1 .. Len(L) : Known(M \o C, G[j].record_id)
  <2>1. \A j \in 1 .. Len(C) : Known(M \o C, C[j].record_id)
    BY <1>0, KnownConcat
  <2> QED BY <1>0, <1>2, <2>1
<1>6. ASSUME NEW t, Made(L, t) PROVE Made(M \o C, Moved(l, t))
  <2>1. PICK j \in 1 .. Len(L) : t \in L[j].outputs
    BY <1>6 DEF Made
  <2>2. Moved(l, t) \in C[j].outputs
    BY <1>0, <1>2, <2>1, LiftedRecord
  <2>3. \A i \in 1 .. Len(C) : \A u \in C[i].outputs : Made(M \o C, u)
    BY <1>0, ContinuesConcat
  <2> QED BY <1>0, <2>2, <2>3
<1> QED BY <1>0, <1>4, <1>5, <1>6

(***************************************************************************)
(* The blocks, connected.                                                  *)
(***************************************************************************)
LEMMA SourceIs ==
  /\ \A t : Source(t) = SourceOf(isMoE, t)
  /\ \A l : Result(l) = ResultOf(isMoE, l)
  /\ \A name : OfLayer(name) = Moved(layer, Whole(name))
BY DEF Source, SourceOf, Result, ResultOf, OfLayer, RetargetTensor, Moved

(* What a block made is there for who takes it.                            *)
LEMMA LocalReaches ==
  ASSUME NEW moe, NEW M, NEW l, NEW t, Local(t), Made(M, Moved(l, t))
  PROVE  Reaches(moe, M, Moved(l, t))
BY MovedLocal DEF Reaches

LEMMA Rewired ==
  ASSUME NEW r, IsRecord(r), NEW ins, NEW deps
  PROVE  Shape([r EXCEPT !.inputs = ins, !.logical_dependencies = deps], r.record_id, r.kind, r.op, ins, r.outputs, deps)
<1> DEFINE q == [r EXCEPT !.inputs = ins]
<1>1. Shape(q, r.record_id, r.kind, r.op, ins, r.outputs, r.logical_dependencies)
  BY ReplaceField
<1>2. [r EXCEPT !.inputs = ins, !.logical_dependencies = deps] = [q EXCEPT !.logical_dependencies = deps]
  OBVIOUS
<1> HIDE DEF q
<1>r. IsRecord(q)
  BY <1>1 DEF Shape
<1>3. Shape([q EXCEPT !.logical_dependencies = deps], q.record_id, q.kind, q.op, q.inputs, q.outputs, deps)
  BY <1>r, ReplaceField
<1> QED BY <1>1, <1>2, <1>3 DEF Shape

(* A record that got inputs and dependencies that are there.               *)
Takes(moe, M, c, r) ==
  IsRecord(c) /\ c.record_id = r.record_id /\ c.outputs = r.outputs /\ Replaced(moe, M, c)

With(r, ins, deps) == [r EXCEPT !.inputs = ins, !.logical_dependencies = deps]

LEMMA RewiredTakes ==
  ASSUME NEW moe, NEW M, NEW r, IsRecord(r), NEW ins, NEW deps, There(moe, M, ins, deps)
  PROVE  Takes(moe, M, With(r, ins, deps), r)
<1> DEFINE c == With(r, ins, deps)
<1>1. Shape(c, r.record_id, r.kind, r.op, ins, r.outputs, deps)
  BY Rewired DEF With
<1> HIDE DEF c
<1> QED BY <1>1 DEF Shape, Takes, Replaced, c

LEMMA UnchangedConnected ==
  ASSUME NEW moe, NEW M, NEW n \in Nat, NEW l, NEW L, Good(L, "projections"), NEW G, IsLift(G, L, n, l)
  PROVE  IsConnected(moe, M, G, G, "projections")
<1>1. IsList(G) /\ Len(G) = Len(L)
  BY DEF IsLift
<1>2. \A j \in 1 .. Len(G) : IsRecord(G[j])
  BY <1>1, LiftedRecord
<1>3. \A op : ~IsRewired("projections", op)
  BY DEF IsRewired
<1> QED BY <1>1, <1>2, <1>3 DEF IsConnected

(* What a block of cache writes takes.                                     *)
LEMMA CacheWritesAre ==
  ASSUME NEW L, L \in {DecodeCacheWrites, PrefillCacheWrites}
  PROVE  /\ Good(L, "cache_writes") /\ Len(L) = 2
         /\ Made(L, Placed(Whole("K"), "kv_cache")) /\ Made(L, Placed(Whole("V"), "kv_cache"))
         /\ \A j \in 1 .. Len(L) : L[j].inputs \in {{Whole("K")}, {Whole("V")}}
<1>1. Good(<<>>, "cache_writes") /\ Len(<<>>) = 0
  BY GoodEmpty, EmptyList
<1>2. Fits(<<>>, L, {Placed(Whole("K"), "kv_cache"), Placed(Whole("V"), "kv_cache")}, "cache_writes")
  BY <1>1, DecodeCacheWritesFits, PrefillCacheWritesFits
<1>3. <<>> \o L = L
  BY <1>2, ConcatEmpty DEF Fits
<1>4. \A id, op, name : CacheWrite(id, op, name).inputs = {Whole(name)}
  BY RecordShape DEF CacheWrite, Shape
<1>5. Len(L) = 2 /\ L[1].inputs = {Whole("K")} /\ L[2].inputs = {Whole("V")}
  <2>1. ASSUME NEW a, NEW b PROVE LET c == <<CacheWrite(0, a, "K"), CacheWrite(1, b, "V")>>
                                  IN  Len(c) = 2 /\ c[1].inputs = {Whole("K")} /\ c[2].inputs = {Whole("V")}
    BY <1>4, ListOfTwo
  <2> QED BY <2>1 DEF DecodeCacheWrites, PrefillCacheWrites
<1>6. \A j \in 1 .. 2 : j = 1 \/ j = 2
  OBVIOUS
<1> DEFINE outs == {Placed(Whole("K"), "kv_cache"), Placed(Whole("V"), "kv_cache")}
<1> HIDE DEF outs
<1>7. Good(<<>> \o L, "cache_writes") /\ \A t \in outs : Made(<<>> \o L, t)
  BY <1>1, <1>2, FitsGood DEF outs
<1>8. \A j \in 1 .. Len(L) : L[j].inputs \in {{Whole("K")}, {Whole("V")}}
  BY <1>5, <1>6
<1> QED BY <1>3, <1>5, <1>7, <1>8 DEF outs

LEMMA CacheWritesConnected ==
  ASSUME NEW M, NEW n \in Nat, NEW L, L \in {DecodeCacheWrites, PrefillCacheWrites}, NEW G, IsLift(G, L, n, layer),
         Known(M, ids.k), Known(M, ids.v), Made(M, Moved(layer, Whole("K"))), Made(M, Moved(layer, Whole("V")))
  PROVE  IsConnected(isMoE, M, [i \in DOMAIN G |-> ConnectCacheWrite(G[i])], G, "cache_writes")
<1> DEFINE C == [i \in DOMAIN G |-> ConnectCacheWrite(G[i])]
<1>1. /\ IsList(G) /\ Len(G) = Len(L) /\ Good(L, "cache_writes") /\ DOMAIN G = 1 .. Len(G) /\ Len(G) \in Nat
      /\ \A j \in 1 .. Len(L) : L[j].inputs \in {{Whole("K")}, {Whole("V")}}
  BY CacheWritesAre, ListIs DEF IsLift
<1>2. \A j \in 1 .. Len(G) : C[j] = ConnectCacheWrite(G[j])
  BY <1>1
<1>3. IsList(C) /\ Len(C) = Len(G)
  <2>1. C = [i \in 1 .. Len(G) |-> C[i]]
    BY <1>1
  <2> HIDE DEF C
  <2> QED BY <1>1, <2>1, ListOfFunction
<1>4. Reaches(isMoE, M, Moved(layer, Whole("K"))) /\ Reaches(isMoE, M, Moved(layer, Whole("V")))
  <2>1. Local(Whole("K"))
    BY LocalTensors
  <2>2. Local(Whole("V"))
    BY LocalTensors
  <2> QED BY <2>1, <2>2, LocalReaches
<1> HIDE DEF C
<1>5. ASSUME NEW j \in 1 .. Len(G)
      PROVE  IsRecord(C[j]) /\ C[j].record_id = G[j].record_id /\ C[j].outputs = G[j].outputs /\ Replaced(isMoE, M, C[j])
  <2> DEFINE deps == {IF G[j].op \in {"kv_cache_k_append", "kv_cache_k_prefill_population"} THEN ids.k ELSE ids.v}
  <2>1. IsRecord(G[j]) /\ \A t \in G[j].inputs : \E u \in L[j].inputs : t = Moved(layer, u)
    BY <1>1, LiftedRecord
  <2>2. C[j] = [G[j] EXCEPT !.logical_dependencies = deps]
    BY <1>2 DEF ConnectCacheWrite
  <2>3. \A d \in deps : Known(M, d)
    OBVIOUS
  <2> HIDE DEF deps
  <2>4. Shape(C[j], G[j].record_id, G[j].kind, G[j].op, G[j].inputs, G[j].outputs, deps)
    <3>1. IsRecord(G[j])
      BY <2>1
    <3>2. Shape([G[j] EXCEPT !.logical_dependencies = deps], G[j].record_id, G[j].kind, G[j].op, G[j].inputs, G[j].outputs, deps)
      BY ONLY <3>1, ReplaceField
    <3> QED BY ONLY <2>2, <3>2
  <2>5. \A t \in G[j].inputs : Reaches(isMoE, M, t)
    BY <1>1, <1>4, <2>1
  <2> QED BY <2>3, <2>4, <2>5 DEF Shape, Replaced, There
<1> QED BY <1>3, <1>5 DEF IsConnected, C

LEMMA PrefillConnected ==
  ASSUME NEW M, NEW n \in Nat, NEW L, Good(L, "prefill"), NEW G, IsLift(G, L, n, layer),
         Known(M, ids.q), Known(M, ids.k), Known(M, ids.v), Made(M, Moved(layer, Whole("Q"))),
         Made(M, Moved(layer, Whole("K"))), Made(M, Moved(layer, Whole("V")))
  PROVE  IsConnected(isMoE, M, ConnectPrefillAttention(G), G, "prefill")
<1> DEFINE From(r, name, id) == [r EXCEPT !.inputs = {OfLayer(name)}, !.logical_dependencies = {id}]
           C == ConnectPrefillAttention(G)
<1>1. IsList(G) /\ Len(G) = Len(L) /\ DOMAIN G = 1 .. Len(G) /\ Len(G) \in Nat
  BY ListIs DEF IsLift
<1>2. \A j \in 1 .. Len(G) :
        C[j] = CASE G[j].op = "q_operand_residency"      -> From(G[j], "Q", ids.q)
                 [] G[j].op = "k_prefill_tile_residency" -> From(G[j], "K", ids.k)
                 [] G[j].op = "v_prefill_tile_residency" -> From(G[j], "V", ids.v)
                 [] OTHER -> G[j]
  BY <1>1 DEF ConnectPrefillAttention
<1>3. IsList(C) /\ Len(C) = Len(G)
  <2>1. C = [i \in 1 .. Len(G) |-> C[i]]
    BY <1>1 DEF ConnectPrefillAttention
  <2> HIDE DEF C
  <2> QED BY <1>1, <2>1, ListOfFunction
<1>4. ASSUME NEW name \in {"Q", "K", "V"} PROVE Reaches(isMoE, M, OfLayer(name))
  <2>1. Local(Whole(name))
    BY LocalTensors
  <2> QED BY <2>1, LocalReaches, SourceIs
<1>f. \A r, name, id : From(r, name, id) = [r EXCEPT !.inputs = {OfLayer(name)}, !.logical_dependencies = {id}]
  OBVIOUS
<1> HIDE DEF C, From
<1>6. ASSUME NEW j \in 1 .. Len(G)
      PROVE  /\ IsRecord(C[j]) /\ C[j].record_id = G[j].record_id /\ C[j].outputs = G[j].outputs
             /\ (C[j] = G[j] /\ ~IsRewired("prefill", G[j].op)) \/ Replaced(isMoE, M, C[j])
  <2>1. IsRecord(G[j])
    BY <1>1, LiftedRecord
  <2>2. CASE G[j].op = "q_operand_residency"
    <3>1. C[j] = [G[j] EXCEPT !.inputs = {OfLayer("Q")}, !.logical_dependencies = {ids.q}]
      BY <1>2, <1>f, <2>2
    <3>2. Takes(isMoE, M, C[j], G[j])
      <4> DEFINE ins == {OfLayer("Q")}
                 deps == {ids.q}
      <4>1. There(isMoE, M, ins, deps)
        BY <1>4 DEF There
      <4>2. C[j] = With(G[j], ins, deps)
        BY <3>1 DEF With
      <4> HIDE DEF ins, deps
      <4> QED BY <2>1, <4>1, <4>2, RewiredTakes
    <3> QED BY <3>2 DEF Takes
  <2>3. CASE G[j].op = "k_prefill_tile_residency"
    <3>1. C[j] = [G[j] EXCEPT !.inputs = {OfLayer("K")}, !.logical_dependencies = {ids.k}]
      BY <1>2, <1>f, <2>3
    <3>2. Takes(isMoE, M, C[j], G[j])
      <4> DEFINE ins == {OfLayer("K")}
                 deps == {ids.k}
      <4>1. There(isMoE, M, ins, deps)
        BY <1>4 DEF There
      <4>2. C[j] = With(G[j], ins, deps)
        BY <3>1 DEF With
      <4> HIDE DEF ins, deps
      <4> QED BY <2>1, <4>1, <4>2, RewiredTakes
    <3> QED BY <3>2 DEF Takes
  <2>4. CASE G[j].op = "v_prefill_tile_residency"
    <3>1. C[j] = [G[j] EXCEPT !.inputs = {OfLayer("V")}, !.logical_dependencies = {ids.v}]
      BY <1>2, <1>f, <2>4
    <3>2. Takes(isMoE, M, C[j], G[j])
      <4> DEFINE ins == {OfLayer("V")}
                 deps == {ids.v}
      <4>1. There(isMoE, M, ins, deps)
        BY <1>4 DEF There
      <4>2. C[j] = With(G[j], ins, deps)
        BY <3>1 DEF With
      <4> HIDE DEF ins, deps
      <4> QED BY <2>1, <4>1, <4>2, RewiredTakes
    <3> QED BY <3>2 DEF Takes
  <2>5. CASE G[j].op \notin {"q_operand_residency", "k_prefill_tile_residency", "v_prefill_tile_residency"}
    <3>1. C[j] = G[j]
      BY <1>2, <2>5
    <3>2. ~IsRewired("prefill", G[j].op)
      BY <2>5 DEF IsRewired
    <3> QED BY <2>1, <3>1, <3>2
  <2> QED BY <2>2, <2>3, <2>4, <2>5
<1> QED BY <1>3, <1>6 DEF IsConnected, C

LEMMA OProjectionConnected ==
  ASSUME NEW M, NEW n \in Nat, NEW L, Good(L, "o_projection"), Len(L) = 1, NEW G, IsLift(G, L, n, layer),
         \A d \in ids.terminals : Known(M, d), \A t \in ids.contexts : Made(M, t) /\ SourceOf(isMoE, t) = t
  PROVE  IsConnected(isMoE, M, <<ConnectOProjection(G[1])>>, G, "o_projection")
<1> DEFINE W == Placed(OfLayer("o_projection"), "weight.resident")
           r == ConnectOProjection(G[1])
           C == <<r>>
<1>1. IsList(G) /\ Len(G) = 1 /\ IsRecord(G[1])
  <2>1. IsList(G) /\ Len(G) = 1
    BY DEF IsLift
  <2>2. 1 \in 1 .. Len(L)
    OBVIOUS
  <2>3. IsRecord(G[1])
    BY <2>2, LiftedRecord
  <2> QED BY <2>1, <2>3
<1>2. Shape(r, G[1].record_id, G[1].kind, G[1].op, ids.contexts \cup {W}, G[1].outputs, ids.terminals)
  BY <1>1, Rewired DEF ConnectOProjection
<1>3. Reaches(isMoE, M, W)
  <2> DEFINE T == Moved(layer, Whole("o_projection"))
  <2>1. W = [T EXCEPT !.place = "weight.resident"] /\ OfShape(Whole("o_projection"), "o_projection", "plain")
    BY SourceIs, WholeShape DEF Placed
  <2>2. T = [Whole("o_projection") EXCEPT !.layer = layer]
    BY <2>1 DEF Moved, OfShape
  <2>3. T = [layer |-> layer, name |-> Whole("o_projection").name, place |-> Whole("o_projection").place,
             head |-> Whole("o_projection").head, tile |-> Whole("o_projection").tile, tile2 |-> Whole("o_projection").tile2]
    BY <2>1, <2>2 DEF OfShape, IsTensor
  <2> HIDE DEF T, W
  <2>4. W.place = "weight.resident"
    BY <2>1, <2>3
  <2>5. SourceOf(isMoE, W) = W
    BY <2>4 DEF SourceOf
  <2> QED BY <2>4, <2>5 DEF Reaches, Given
<1>4. \A t \in ids.contexts : Reaches(isMoE, M, t)
  BY DEF Reaches
<1> HIDE DEF r, W
<1>5. IsList(C) /\ Len(C) = 1 /\ C[1] = r
  BY EmptyList, ListAppend
<1>6. Replaced(isMoE, M, r) /\ IsRecord(r) /\ r.record_id = G[1].record_id /\ r.outputs = G[1].outputs
  BY <1>2, <1>3, <1>4 DEF Shape, Replaced, There
<1> HIDE DEF C
<1>7. \A j \in 1 .. 1 : j = 1
  OBVIOUS
<1> QED BY <1>1, <1>5, <1>6, <1>7 DEF IsConnected, C, r

LEMMA FeedForwardConnected ==
  ASSUME NEW M, NEW n \in Nat, NEW L, Good(L, "feed_forward"), NEW G, IsLift(G, L, n, layer),
         Known(M, ids.o), Made(M, Moved(layer, Whole("attention_output")))
  PROVE  IsConnected(isMoE, M, [i \in DOMAIN G |-> ConnectFeedForward(G[i])], G, "feed_forward")
<1> DEFINE C == [i \in DOMAIN G |-> ConnectFeedForward(G[i])]
<1>1. IsList(G) /\ Len(G) = Len(L) /\ DOMAIN G = 1 .. Len(G) /\ Len(G) \in Nat
  BY ListIs DEF IsLift
<1>2. \A j \in 1 .. Len(G) : C[j] = ConnectFeedForward(G[j])
  BY <1>1
<1>3. IsList(C) /\ Len(C) = Len(G)
  <2>1. C = [i \in 1 .. Len(G) |-> C[i]]
    BY <1>1
  <2> HIDE DEF C
  <2> QED BY <1>1, <2>1, ListOfFunction
<1>4. Reaches(isMoE, M, OfLayer("attention_output"))
  <2>1. Local(Whole("attention_output"))
    BY LocalTensors
  <2> QED BY <2>1, LocalReaches, SourceIs
<1> HIDE DEF C
<1>6. ASSUME NEW j \in 1 .. Len(G)
      PROVE  /\ IsRecord(C[j]) /\ C[j].record_id = G[j].record_id /\ C[j].outputs = G[j].outputs
             /\ (C[j] = G[j] /\ ~IsRewired("feed_forward", G[j].op)) \/ Replaced(isMoE, M, C[j])
  <2>1. IsRecord(G[j])
    BY <1>1, LiftedRecord
  <2>2. CASE G[j].op \in {"ffn_hidden_activation_tile_setup", "moe_router_input_setup"}
    <3>1. C[j] = [G[j] EXCEPT !.inputs = {OfLayer("attention_output")}, !.logical_dependencies = {ids.o}]
      BY <1>2, <2>2 DEF ConnectFeedForward
    <3>2. Takes(isMoE, M, C[j], G[j])
      <4> DEFINE ins == {OfLayer("attention_output")}
                 deps == {ids.o}
      <4>1. There(isMoE, M, ins, deps)
        BY <1>4 DEF There
      <4>2. C[j] = With(G[j], ins, deps)
        BY <3>1 DEF With
      <4> HIDE DEF ins, deps
      <4> QED BY <2>1, <4>1, <4>2, RewiredTakes
    <3> QED BY <3>2 DEF Takes
  <2>3. CASE G[j].op \notin {"ffn_hidden_activation_tile_setup", "moe_router_input_setup"}
    <3>1. C[j] = G[j]
      BY <1>2, <2>3 DEF ConnectFeedForward
    <3>2. ~IsRewired("feed_forward", G[j].op)
      BY <2>3 DEF IsRewired
    <3> QED BY <2>1, <3>1, <3>2
  <2> QED BY <2>2, <2>3
<1> QED BY <1>3, <1>6 DEF IsConnected, C

(* A barrier, or the drain, takes and makes nothing.                       *)
LEMMA SingleStage ==
  ASSUME NEW moe, NEW l, NEW M, Stage(moe, M, next_id, l), NEW r, NEW kind, NEW op, Shape(r, 0, kind, op, {}, {}, {})
  PROVE  LET C == RenumberRecords(<<r>>, next_id)
         IN  Stage(moe, M \o C, next_id + Len(C), l) /\ IsList(C) /\ IsList(M)
<1> DEFINE C == RenumberRecords(<<r>>, next_id)
           x == next_id + 1 - 1
           q == [r EXCEPT !.record_id = x]
           s == C[1]
<1> DEFINE F(i) == [[<<r>>[i] EXCEPT !.record_id = next_id + i - 1]
                              EXCEPT !.logical_dependencies = {next_id + d : d \in <<r>>[i].logical_dependencies}]
<1>1. C = [i \in 1 .. 1 |-> F(i)]
  BY DEF RenumberRecords
<1>n. next_id \in Nat /\ IsList(M) /\ \A i \in 1 .. Len(M) : M[i].record_id < next_id
  BY DEF Stage, Linked, Below
<1>3. IsRecord(r) /\ r.inputs = {} /\ r.outputs = {} /\ r.logical_dependencies = {}
  BY DEF Shape
<1>2. s = [q EXCEPT !.logical_dependencies = {}]
  <2>1. <<r>>[1] = r
    OBVIOUS
  <2>2. {next_id + d : d \in r.logical_dependencies} = {}
    BY <1>3
  <2>3. F(1) = [[<<r>>[1] EXCEPT !.record_id = next_id + 1 - 1]
                       EXCEPT !.logical_dependencies = {next_id + d : d \in <<r>>[1].logical_dependencies}]
    OBVIOUS
  <2> HIDE DEF F, C
  <2>4. s = F(1)
    BY <1>1
  <2> QED BY <2>1, <2>2, <2>3, <2>4
<1> HIDE DEF F
<1>4. C = [i \in 1 .. 1 |-> C[i]]
  BY <1>1
<1>x. x = next_id
  BY <1>n
<1> HIDE DEF C, x
<1>5. Shape(q, x, r.kind, r.op, {}, {}, {})
  <2>1. Shape(q, x, r.kind, r.op, r.inputs, r.outputs, r.logical_dependencies)
    BY <1>3, ReplaceField
  <2> QED BY <1>3, <2>1
<1> HIDE DEF q
<1>6. IsList(C) /\ Len(C) = 1
  BY <1>4, ListOfFunction
<1>8. IsRecord(s) /\ s.record_id = next_id /\ s.inputs = {} /\ s.logical_dependencies = {}
  <2> DEFINE y == [q EXCEPT !.logical_dependencies = {}]
  <2>1. IsRecord(q)
    BY <1>5 DEF Shape
  <2>2. Shape(y, q.record_id, q.kind, q.op, q.inputs, q.outputs, {})
    BY <2>1, ReplaceField
  <2> HIDE DEF y
  <2>3. s = y
    BY <1>2 DEF y
  <2> HIDE DEF s
  <2> QED BY <1>5, <1>x, <2>2, <2>3 DEF Shape
<1> HIDE DEF s
<1>9. \A k \in 1 .. 1 : k = 1 /\ \A i \in 1 .. k - 1 : FALSE
  OBVIOUS
<1>10. Arrives(moe, M, C, 1)
  BY <1>8, <1>9, <1>n DEF Arrives, s
<1>11. Follow(moe, M, C)
  BY <1>6, <1>9, <1>10 DEF Follow
<1>12. next_id + Len(C) \in Nat /\ next_id <= next_id + Len(C) /\ \A j \in 1 .. Len(C) : C[j].record_id < next_id + Len(C)
  BY <1>6, <1>8, <1>9, <1>n DEF s
<1>13. Stage(moe, M \o C, next_id + Len(C), l)
  BY <1>11, <1>12, <1>n, StageFollow
<1> QED BY <1>6, <1>13, <1>n DEF C

(***************************************************************************)
(* Attention while decoding: what is left when records are dropped.        *)
(***************************************************************************)
(* p: where in the list C the elements of K are from.                      *)
KeptBy(p, K, C, S) ==
  /\ IsList(K)
  /\ \A j \in 1 .. Len(K) : p[j] \in S /\ K[j] = C[p[j]]
  /\ \A i, j \in 1 .. Len(K) : i < j => p[i] < p[j]
  /\ \A i \in S : \E j \in 1 .. Len(K) : p[j] = i
IsKept(K, C, S) == \E p : KeptBy(p, K, C, S)

LEMMA KeepMore ==
  ASSUME NEW K, NEW C, NEW k \in Nat, NEW S, S \subseteq 1 .. k, IsKept(K, C, S)
  PROVE  IsKept(K \o <<C[k + 1]>>, C, S \cup {k + 1})
<1>1. PICK p : KeptBy(p, K, C, S)
  BY DEF IsKept
<1> DEFINE e == C[k + 1]
           N == K \o <<e>>
           q == [j \in 1 .. Len(K) + 1 |-> IF j <= Len(K) THEN p[j] ELSE k + 1]
<1>2. IsList(K) /\ Len(K) \in Nat
  BY <1>1, ListIs DEF KeptBy
<1>3. IsList(<<e>>) /\ Len(<<e>>) = 1 /\ <<e>>[1] = e
  BY <1>2, ListAppend
<1>4. IsList(N) /\ Len(N) = Len(K) + 1 /\ (\A i \in 1 .. Len(K) : N[i] = K[i]) /\ N[Len(K) + 1] = e
  BY <1>2, <1>3, ListConcat
<1>5. (\A j \in 1 .. Len(K) : q[j] = p[j]) /\ q[Len(K) + 1] = k + 1
  BY <1>2
<1> HIDE DEF N, q
<1>6. \A j \in 1 .. Len(N) : j \in 1 .. Len(K) \/ j = Len(K) + 1
  BY <1>2, <1>4
<1>7. \A j \in 1 .. Len(K) : p[j] \in S /\ p[j] \in 1 .. k /\ K[j] = C[p[j]]
  BY <1>1 DEF KeptBy
<1>8. ASSUME NEW j \in 1 .. Len(N) PROVE q[j] \in S \cup {k + 1} /\ N[j] = C[q[j]]
  BY <1>4, <1>5, <1>6, <1>7
<1>9. ASSUME NEW i \in 1 .. Len(N), NEW j \in 1 .. Len(N), i < j PROVE q[i] < q[j]
  <2>1. i \in 1 .. Len(K)
    BY <1>2, <1>4, <1>6, <1>9
  <2>2. CASE j \in 1 .. Len(K)
    BY <1>1, <1>5, <1>9, <2>1, <2>2 DEF KeptBy
  <2>3. CASE j = Len(K) + 1
    BY <1>5, <1>7, <2>1, <2>3
  <2> QED BY <1>6, <2>2, <2>3
<1>10. ASSUME NEW i \in S \cup {k + 1} PROVE \E j \in 1 .. Len(N) : q[j] = i
  <2>1. CASE i \in S
    <3>1. PICK j \in 1 .. Len(K) : p[j] = i
      BY <1>1, <2>1 DEF KeptBy
    <3> QED BY <1>2, <1>4, <1>5, <3>1
  <2>2. CASE i = k + 1
    <3>1. Len(K) + 1 \in 1 .. Len(N)
      BY <1>2, <1>4
    <3> QED BY <1>5, <2>2, <3>1
  <2> QED BY <2>1, <2>2
<1>11. KeptBy(q, N, C, S \cup {k + 1})
  BY <1>4, <1>8, <1>9, <1>10 DEF KeptBy
<1> QED BY <1>11 DEF IsKept, N

(* The loop keeps what it is told to keep, in its order.                   *)
LEMMA KeepingIs ==
  ASSUME NEW C, IsList(C), NEW kept, kept \subseteq 1 .. Len(C)
  PROVE  IsKept(Keeping(C, kept), C, kept)
<1> DEFINE n == Len(C)
           chunk == [p \in (DOMAIN C) \X Nat |-> IF p[1] \in kept THEN <<C[p[1]]>> ELSE <<>>]
<1>0. n \in Nat /\ DOMAIN C = 1 .. n
  BY ListIs
<1>1. PICK a : IsLoop(a, <<>>, chunk, n)
  BY <1>0, AppendEachIs
<1>2. /\ a[0] = <<>> /\ Keeping(C, kept) = a[n]
      /\ \A i \in 1 .. n : a[i] = a[i - 1] \o chunk[<<i, Len(a[i - 1])>>]
  BY <1>1 DEF IsLoop, Keeping
<1> DEFINE Kept(k) == kept \cap 1 .. k
           T == {k \in Nat : k <= n => IsKept(a[k], C, Kept(k))}
<1>3. 0 \in T
  <2>1. Kept(0) = {}
    OBVIOUS
  <2>2. KeptBy(<<>>, <<>>, C, {})
    BY EmptyList DEF KeptBy
  <2>3. IsKept(<<>>, C, {})
    BY <2>2 DEF IsKept
  <2> QED BY <1>2, <2>1, <2>3
<1>4. ASSUME NEW k \in Nat, k \in T PROVE k + 1 \in T
  <2> SUFFICES ASSUME k + 1 <= n PROVE IsKept(a[k + 1], C, Kept(k + 1))
    OBVIOUS
  <2> DEFINE K == a[k]
  <2>1. IsKept(K, C, Kept(k)) /\ k + 1 \in 1 .. n /\ (k + 1) - 1 = k
    BY <1>0, <1>4
  <2>2. IsList(K) /\ Len(K) \in Nat
    <3>1. PICK p : KeptBy(p, K, C, Kept(k))
      BY <2>1 DEF IsKept
    <3> QED BY <3>1, ListIs DEF KeptBy
  <2>3. a[k + 1] = K \o chunk[<<k + 1, Len(K)>>]
    <3>1. a[k + 1] = a[(k + 1) - 1] \o chunk[<<k + 1, Len(a[(k + 1) - 1])>>]
      BY <1>2, <2>1
    <3> QED BY <2>1, <3>1
  <2>4. chunk[<<k + 1, Len(K)>>] = IF k + 1 \in kept THEN <<C[k + 1]>> ELSE <<>>
    <3>1. <<k + 1, Len(K)>> \in (DOMAIN C) \X Nat
      BY <1>0, <2>1, <2>2
    <3> QED BY <3>1
  <2> HIDE DEF K, chunk
  <2>5. CASE k + 1 \in kept
    <3>1. a[k + 1] = K \o <<C[k + 1]>>
      BY <2>3, <2>4, <2>5
    <3>2. Kept(k + 1) = Kept(k) \cup {k + 1} /\ Kept(k) \subseteq 1 .. k
      BY <1>0, <2>5
    <3> HIDE DEF Kept
    <3>3. IsKept(K \o <<C[k + 1]>>, C, Kept(k) \cup {k + 1})
      BY <2>1, <3>2, KeepMore
    <3> QED BY <3>1, <3>2, <3>3
  <2>6. CASE k + 1 \notin kept
    <3>1. a[k + 1] = K
      BY <2>2, <2>3, <2>4, <2>6, ConcatEmpty
    <3>2. Kept(k + 1) = Kept(k)
      BY <1>0, <2>6
    <3> QED BY <2>1, <3>1, <3>2
  <2> QED BY <2>5, <2>6
<1>5. IsKept(a[n], C, Kept(n))
  <2> HIDE DEF T
  <2>1. \A k \in Nat : k \in T => k + 1 \in T
    BY <1>4
  <2>2. n \in T
    BY <1>0, <1>3, <2>1, InductionSet
  <2> QED BY <1>0, <2>2 DEF T
<1>6. Kept(n) = kept
  OBVIOUS
<1> QED BY <1>2, <1>5, <1>6

(* What the i-th of the records C takes is there, or made by one before it *)
(* that is kept.                                                           *)
Drawn(moe, M, C, S, n, i) ==
  /\ IsRecord(C[i]) /\ C[i].record_id = n + i - 1
  /\ \A t \in C[i].outputs : SourceOf(moe, t) = t
  /\ \A d \in C[i].logical_dependencies : Known(M, d) \/ \E h \in S : h < i /\ d = n + h - 1
  /\ \A t \in C[i].inputs : Reaches(moe, M, t) \/ \E h \in S : h < i /\ SourceOf(moe, t) \in C[h].outputs
AllDrawn(moe, M, C, S, n) == \A i \in S : Drawn(moe, M, C, S, n, i)
OwnSources(moe, K) == \A r \in Range(K) : \A t \in r.outputs : SourceOf(moe, t) = t

LEMMA KeptFollow ==
  ASSUME NEW moe, NEW M, NEW n, NEW l, Stage(moe, M, n, l), NEW C, NEW m \in Nat, NEW S, S \subseteq 1 .. m,
         NEW K, IsKept(K, C, S), AllDrawn(moe, M, C, S, n)
  PROVE  Stage(moe, M \o K, n + m, l) /\ IsList(K) /\ IsList(M) /\ OwnSources(moe, K)
<1>0. IsList(M) /\ Len(M) \in Nat /\ n \in Nat
  BY ListIs DEF Stage, Linked
<1>1. PICK p : KeptBy(p, K, C, S)
  BY DEF IsKept
<1>2. IsList(K) /\ Len(K) \in Nat
  BY <1>1, ListIs DEF KeptBy
<1>3. \A j \in 1 .. Len(K) : p[j] \in S /\ p[j] \in 1 .. m /\ K[j] = C[p[j]]
  BY <1>1 DEF KeptBy
<1>4. \A j \in 1 .. Len(K) : IsRecord(K[j]) /\ K[j].record_id = n + p[j] - 1 /\ K[j].record_id \in Nat /\ K[j].record_id >= n
  BY <1>0, <1>3 DEF Drawn, AllDrawn
<1>5. ASSUME NEW j \in 1 .. Len(K), NEW h \in S, h < p[j] PROVE \E i \in 1 .. j - 1 : p[i] = h
  <2>1. PICK i \in 1 .. Len(K) : p[i] = h
    BY <1>1 DEF KeptBy
  <2>2. i < j
    <3>1. p[i] \in Nat /\ p[j] \in Nat
      BY <1>3
    <3>2. j < i => p[j] < p[i]
      BY <1>1 DEF KeptBy
    <3> QED BY <1>2, <1>5, <2>1, <3>1, <3>2
  <2>3. i \in 1 .. j - 1
    BY <1>2, <2>2
  <2> QED BY <2>1, <2>3
<1>6. ASSUME NEW j \in 1 .. Len(K) PROVE Arrives(moe, M, K, j)
  <2>1. \A i \in 1 .. Len(M) : M[i].record_id < K[j].record_id
    <3> SUFFICES ASSUME NEW i \in 1 .. Len(M) PROVE M[i].record_id < K[j].record_id
      OBVIOUS
    <3>1. M[i].record_id < n
      BY DEF Stage, Below
    <3>2. M[i].record_id \in Nat
      BY DEF Stage, Linked, Arrives
    <3> QED BY <1>0, <1>4, <3>1, <3>2
  <2>2. ASSUME NEW i \in 1 .. j - 1 PROVE i \in 1 .. Len(K) /\ K[i].record_id < K[j].record_id
    <3>1. i \in 1 .. Len(K) /\ i < j
      BY <1>2
    <3>2. p[i] < p[j] /\ p[i] \in Nat /\ p[j] \in Nat
      BY <1>1, <1>3, <3>1 DEF KeptBy
    <3> QED BY <1>0, <1>4, <3>1, <3>2
  <2>3. ASSUME NEW d \in K[j].logical_dependencies PROVE Known(M, d) \/ \E i \in 1 .. j - 1 : K[i].record_id = d
    <3>1. Known(M, d) \/ \E h \in S : h < p[j] /\ d = n + h - 1
      BY <1>3 DEF Drawn, AllDrawn
    <3>2. ASSUME NEW h \in S, h < p[j], d = n + h - 1 PROVE \E i \in 1 .. j - 1 : K[i].record_id = d
      <4>1. PICK i \in 1 .. j - 1 : p[i] = h
        BY <1>5, <3>2
      <4> QED BY <1>4, <2>2, <3>2, <4>1
    <3> QED BY <3>1, <3>2
  <2>4. ASSUME NEW t \in K[j].inputs
        PROVE  Reaches(moe, M, t) \/ \E i \in 1 .. j - 1 : SourceOf(moe, t) \in K[i].outputs
    <3>1. Reaches(moe, M, t) \/ \E h \in S : h < p[j] /\ SourceOf(moe, t) \in C[h].outputs
      BY <1>3 DEF Drawn, AllDrawn
    <3>2. ASSUME NEW h \in S, h < p[j], SourceOf(moe, t) \in C[h].outputs
          PROVE  \E i \in 1 .. j - 1 : SourceOf(moe, t) \in K[i].outputs
      <4>1. PICK i \in 1 .. j - 1 : p[i] = h
        BY <1>5, <3>2
      <4> QED BY <1>3, <2>2, <3>2, <4>1
    <3> QED BY <3>1, <3>2
  <2>5. \A i \in 1 .. j - 1 : K[i].record_id < K[j].record_id
    BY <2>2
  <2> QED BY <1>4, <2>1, <2>3, <2>4, <2>5 DEF Arrives
<1>7. Follow(moe, M, K)
  BY <1>2, <1>6 DEF Follow
<1>8. n + m \in Nat /\ n <= n + m /\ \A j \in 1 .. Len(K) : K[j].record_id < n + m
  BY <1>0, <1>3, <1>4
<1>9. Stage(moe, M \o K, n + m, l)
  BY <1>7, <1>8, StageFollow
<1>10. \A r \in Range(K) : \A t \in r.outputs : SourceOf(moe, t) = t
  <2> SUFFICES ASSUME NEW r \in Range(K), NEW t \in r.outputs PROVE SourceOf(moe, t) = t
    OBVIOUS
  <2>1. PICK j \in 1 .. Len(K) : K[j] = r
    BY <1>2, ListIs
  <2> QED BY <1>3, <2>1 DEF Drawn, AllDrawn
<1> QED BY <1>0, <1>2, <1>9, <1>10 DEF OwnSources

(* What the heads share: the first residency of Q, at position e.          *)
SharedBy(G, n, e) ==
  /\ e \in 1 .. Len(G) /\ IsQ(G[e]) /\ Min(Residencies(G)) = n + e - 1
  /\ \A i \in 1 .. Len(G) : IsQ(G[i]) => e <= i
  /\ \A i \in 1 .. Len(G) : n + i - 1 \in Residencies(G) <=> IsQ(G[i])

LEMMA FirstResidency ==
  ASSUME NEW L, NEW mode, Good(L, mode), NEW G, NEW n \in Nat, NEW l, IsLift(G, L, n, l), \E i \in 1 .. Len(L) : IsQ(L[i])
  PROVE  \E e : SharedBy(G, n, e)
<1> DEFINE T == {i \in 1 .. Len(G) : IsQ(G[i])}
           R == Residencies(G)
<1>1. Len(L) \in Nat /\ Len(G) = Len(L) /\ IsList(G)
  BY GoodIds DEF IsLift
<1>2. \A i \in 1 .. Len(G) : G[i].record_id = n + i - 1 /\ G[i].op = L[i].op
  BY <1>1, LiftedRecord
<1>3. T # {} /\ T \in SUBSET Nat
  BY <1>1, <1>2 DEF IsQ
<1> HIDE DEF T
<1>4. PICK e \in T : \A i \in T : e <= i
  BY <1>3, LeastNat
<1>5. \A d : d \in R <=> \E i \in T : d = n + i - 1
  <2>1. \A r : r \in Range(G) <=> \E i \in 1 .. Len(G) : G[i] = r
    BY <1>1, ListIs
  <2>2. \A d : d \in R <=> \E r \in Range(G) : IsQ(r) /\ r.record_id = d
    BY DEF Residencies, Ids, IsQ
  <2>3. \A i : i \in T <=> i \in 1 .. Len(G) /\ IsQ(G[i])
    BY DEF T
  <2> HIDE DEF R
  <2>4. ASSUME NEW d \in R PROVE \E i \in T : d = n + i - 1
    <3>1. PICK r \in Range(G) : IsQ(r) /\ r.record_id = d
      BY <2>2
    <3>2. PICK i \in 1 .. Len(G) : G[i] = r
      BY <2>1
    <3> QED BY <1>2, <2>3, <3>1, <3>2
  <2>5. ASSUME NEW i \in T PROVE n + i - 1 \in R
    <3>1. i \in 1 .. Len(G) /\ IsQ(G[i]) /\ G[i].record_id = n + i - 1
      BY <1>2, <2>3
    <3>2. G[i] \in Range(G)
      BY <2>1, <3>1
    <3> QED BY <2>2, <3>1, <3>2
  <2> QED BY <2>4, <2>5
<1> HIDE DEF R
<1>6. T \subseteq 1 .. Len(G)
  BY DEF T
<1>7. R \in SUBSET Nat /\ n + e - 1 \in R
  BY <1>1, <1>5, <1>6
<1>8. Min(R) = n + e - 1
  <2>1. Min(R) \in R /\ Min(R) <= n + e - 1
    BY <1>7, MinNat
  <2>2. PICK i \in T : Min(R) = n + i - 1
    BY <1>5, <2>1
  <2> QED BY <1>1, <1>4, <1>6, <2>1, <2>2
<1>9. ASSUME NEW i \in 1 .. Len(G) PROVE n + i - 1 \in R <=> IsQ(G[i])
  <2>1. i \in T <=> IsQ(G[i])
    BY DEF T
  <2>2. \A h \in T : n + i - 1 = n + h - 1 => h = i
    BY <1>1, <1>6
  <2> QED BY <1>5, <2>1, <2>2
<1>10. IsQ(G[e]) /\ e \in 1 .. Len(G) /\ \A i \in 1 .. Len(G) : IsQ(G[i]) => e <= i
  BY <1>4 DEF T
<1> QED BY <1>8, <1>9, <1>10 DEF SharedBy, R

(* Attention while decoding, generated and about to be connected.          *)
Decoding(M, n, L, G, e) ==
  /\ Stage(isMoE, M, n, layer) /\ Good(L, "decode") /\ IsLift(G, L, n, layer) /\ SharedBy(G, n, e)
  /\ Made(M, Cached("K", layer)) /\ Made(M, Cached("V", layer)) /\ Made(M, Moved(layer, Whole("Q")))
  /\ Known(M, ids.q) /\ Known(M, ids.k_write) /\ Known(M, ids.v_write)
KeptRecords(G, e) == {i \in 1 .. Len(G) : IsQ(G[i]) => i = e}

LEMMA DecodingIs ==
  ASSUME NEW M, NEW n, NEW L, NEW G, NEW e, Decoding(M, n, L, G, e)
  PROVE  /\ n \in Nat /\ Len(L) \in Nat /\ Len(G) = Len(L) /\ IsList(G) /\ DOMAIN G = 1 .. Len(G)
         /\ \A i \in 1 .. Len(G) :
              /\ IsRecord(G[i]) /\ G[i].record_id = n + i - 1 /\ G[i].op = L[i].op /\ G[i].kind = L[i].kind
              /\ \A t \in G[i].outputs : SourceOf(isMoE, t) = t
<1>1. n \in Nat /\ Good(L, "decode") /\ IsLift(G, L, n, layer)
  BY DEF Decoding, Stage
<1>2. Len(L) \in Nat /\ Len(G) = Len(L) /\ IsList(G)
  BY <1>1, GoodIds DEF IsLift
<1>3. DOMAIN G = 1 .. Len(G)
  BY <1>2, ListIs
<1>4. ASSUME NEW i \in 1 .. Len(G)
      PROVE  /\ IsRecord(G[i]) /\ G[i].record_id = n + i - 1 /\ G[i].op = L[i].op /\ G[i].kind = L[i].kind
             /\ \A moe : \A t \in G[i].outputs : SourceOf(moe, t) = t
  <2>1. i \in 1 .. Len(L)
    BY <1>2
  <2> QED BY <1>1, <2>1, LiftedRecord
<1> QED BY <1>1, <1>2, <1>3, <1>4

(* Where the record is that has number d.                                  *)
Earlier(L, n, j, d) == \E h \in 1 .. j - 1 : h - 1 \in L[j].logical_dependencies /\ d = n + h - 1

LEMMA LiftedDependency ==
  ASSUME NEW M, NEW n, NEW L, NEW G, NEW e, Decoding(M, n, L, G, e), NEW j \in 1 .. Len(G),
         NEW d \in G[j].logical_dependencies
  PROVE  Earlier(L, n, j, d)
<1>1. n \in Nat /\ j \in 1 .. Len(L)
  BY DecodingIs
<1>2. IsLift(G, L, n, layer)
  BY DEF Decoding
<1>3. Good(L, "decode")
  BY DEF Decoding
<1> DEFINE D == G[j].logical_dependencies
<1>4. \A c \in D : Earlier(L, n, j, c)
  <2>1. \A c \in D : \E i \in 1 .. j - 1 : i - 1 \in L[j].logical_dependencies /\ c = n + i - 1 /\ G[i].record_id = c
    BY <1>1, <1>2, <1>3, LiftedRecord
  <2> HIDE DEF D
  <2> QED BY <2>1 DEF Earlier
<1> QED BY <1>4

LEMMA LiftedShares ==
  ASSUME NEW M, NEW n, NEW L, NEW G, NEW e, Decoding(M, n, L, G, e), NEW j \in 1 .. Len(G)
  PROVE  /\ G[j].kind = "AttentionScore" => G[j].op = "AttentionScore" /\ ~IsQ(G[j]) /\ e < j
         /\ ~IsQ(G[j]) /\ G[j].kind # "AttentionScore" =>
              /\ \A t \in G[j].inputs : t.name # "Q"
              /\ \A d \in G[j].logical_dependencies : \E h \in KeptRecords(G, e) : h < j /\ d = n + h - 1
<1>1. /\ n \in Nat /\ Len(L) \in Nat /\ Len(G) = Len(L) /\ \A i \in 1 .. Len(G) : G[i].op = L[i].op /\ G[i].kind = L[i].kind
      /\ e \in 1 .. Len(G) /\ \A i \in 1 .. Len(G) : IsQ(G[i]) => e <= i
  BY DecodingIs DEF Decoding, SharedBy
<1>2. Joins(<<>>, L, j, "decode") /\ Shares(<<>>, L, j)
  BY <1>1 DEF Decoding, Good, Joins
<1>3. L[j].logical_dependencies \subseteq 0 .. j - 2 /\ \A d \in L[j].logical_dependencies : At(<<>>, L, d) = L[d + 1]
  BY <1>1, <1>2, EmptyList DEF Joins, At
<1>4. \A i \in 1 .. Len(G) : IsQ(G[i]) <=> IsQ(L[i])
  BY <1>1 DEF IsQ
<1>5. ASSUME G[j].kind = "AttentionScore" PROVE G[j].op = "AttentionScore" /\ ~IsQ(G[j]) /\ e < j
  <2>1. L[j].op = "AttentionScore" /\ \E d \in L[j].logical_dependencies : IsQ(L[d + 1])
    BY <1>1, <1>2, <1>3, <1>5 DEF Shares
  <2>2. PICK d \in L[j].logical_dependencies : IsQ(L[d + 1])
    BY <2>1
  <2>3. d + 1 \in 1 .. Len(G) /\ d + 1 < j
    BY <1>1, <1>3
  <2>4. ~IsQ(L[j])
    BY <2>1 DEF IsQ
  <2> QED BY <1>1, <1>4, <2>1, <2>2, <2>3, <2>4
<1>6. ASSUME ~IsQ(G[j]), G[j].kind # "AttentionScore", NEW t \in G[j].inputs PROVE t.name # "Q"
  <2>1. PICK u \in L[j].inputs : t = Moved(layer, u)
    BY <1>1, LiftedRecord DEF Decoding
  <2>2. u.name # "Q"
    BY <1>1, <1>2, <1>4, <1>6 DEF Shares
  <2>3. ~IsRewired("decode", L[j].op)
    BY <1>1, <1>6 DEF IsRewired, IsQ
  <2>4. Moved(layer, u).name = u.name
    <3>1. j \in 1 .. Len(L)
      BY <1>1
    <3> QED BY <2>3, <3>1, LiftedInputs DEF Decoding
  <2> QED BY <2>1, <2>2, <2>4
<1>7. ASSUME ~IsQ(G[j]), G[j].kind # "AttentionScore", NEW d \in G[j].logical_dependencies
      PROVE  \E h \in KeptRecords(G, e) : h < j /\ d = n + h - 1
  <2>1. PICK h \in 1 .. j - 1 : h - 1 \in L[j].logical_dependencies /\ d = n + h - 1
    BY <1>7, LiftedDependency DEF Earlier
  <2>2. h \in 1 .. Len(G) /\ h < j /\ (h - 1) + 1 = h
    BY <1>1
  <2>3. ~IsQ(L[h])
    BY <1>1, <1>2, <1>3, <1>4, <1>7, <2>1, <2>2 DEF Shares
  <2> QED BY <1>4, <2>1, <2>2, <2>3 DEF KeptRecords
<1> QED BY <1>5, <1>6, <1>7

(* What a kept record takes, Q aside, is there or made by one that is kept.*)
LEMMA LiftedOthers ==
  ASSUME NEW M, NEW n, NEW L, NEW G, NEW e, Decoding(M, n, L, G, e), NEW j \in 1 .. Len(G), ~IsQ(G[j]),
         NEW t \in G[j].inputs, t.name # "Q"
  PROVE  \/ Reaches(isMoE, M, t)
         \/ \E h \in KeptRecords(G, e) : h < j /\ ~IsQ(G[h]) /\ SourceOf(isMoE, t) \in G[h].outputs
<1>1. /\ n \in Nat /\ Len(L) \in Nat /\ Len(G) = Len(L) /\ \A i \in 1 .. Len(G) : G[i].op = L[i].op
  BY DecodingIs
<1>2. PICK u \in L[j].inputs : t = Moved(layer, u)
  BY <1>1, LiftedRecord DEF Decoding
<1>3. ~IsRewired("decode", L[j].op) /\ j \in 1 .. Len(L)
  BY <1>1 DEF IsRewired, IsQ
<1>4. \/ Reaches(isMoE, M, t)
      \/ \E i \in 1 .. j - 1 : u \in L[i].outputs /\ SourceOf(isMoE, t) \in G[i].outputs /\ t.name = u.name
  BY <1>2, <1>3, LiftedInputs DEF Decoding
<1>5. ASSUME NEW i \in 1 .. j - 1, u \in L[i].outputs, SourceOf(isMoE, t) \in G[i].outputs, t.name = u.name
      PROVE  \E h \in KeptRecords(G, e) : h < j /\ ~IsQ(G[h]) /\ SourceOf(isMoE, t) \in G[h].outputs
  <2>1. i \in 1 .. Len(G) /\ i < j
    BY <1>1
  <2>2. Shares(<<>>, L, i)
    BY <1>1, <2>1 DEF Decoding, Good, Joins
  <2>3. ~IsQ(L[i])
    BY <1>5, <2>2 DEF Shares
  <2>4. ~IsQ(G[i])
    BY <1>1, <2>1, <2>3 DEF IsQ
  <2> QED BY <1>5, <2>1, <2>4 DEF KeptRecords
<1> QED BY <1>4, <1>5
(* The connection of one record.                                           *)
DecodeStep(r, residencies, keep) ==
  CASE r.kind = "AttentionScore" ->
         [r EXCEPT !.inputs = {t \in @ : t.name # "Q"} \cup {Visible(OfLayer("Q"))},
                   !.logical_dependencies = {ids.q, keep} \cup (@ \ residencies)]
    [] r.record_id = keep ->
         [r EXCEPT !.inputs = {OfLayer("Q")}, !.outputs = {Visible(OfLayer("Q"))},
                   !.logical_dependencies = {ids.q}]
    [] r.op = "kv_cache_k_tile_read" -> [r EXCEPT !.logical_dependencies = {ids.k_write}]
    [] r.op = "kv_cache_v_tile_read" -> [r EXCEPT !.logical_dependencies = {ids.v_write} \cup @]
    [] OTHER -> r
Stepped(G, n, e) == [i \in 1 .. Len(G) |-> DecodeStep(G[i], Residencies(G), n + e - 1)]

VisibleQ == Visible(OfLayer("Q"))

LEMMA VisibleQIs ==
  ASSUME NEW M, layer \in Nat, Made(M, Moved(layer, Whole("Q")))
  PROVE  SourceOf(isMoE, VisibleQ) = VisibleQ /\ Reaches(isMoE, M, OfLayer("Q"))
<1> DEFINE W == Whole("Q")
           T == Moved(layer, W)
<1>1. OfShape(W, "Q", "plain") /\ Local(W)
  BY WholeShape, LocalTensors
<1>2. T = [W EXCEPT !.layer = layer] /\ OfLayer("Q") = T
  BY <1>1, SourceIs DEF Moved, OfShape
<1> HIDE DEF W
<1>3. T = [layer |-> layer, name |-> W.name, place |-> W.place, head |-> W.head, tile |-> W.tile, tile2 |-> W.tile2]
  BY <1>1, <1>2 DEF OfShape, IsTensor
<1>4. Reaches(isMoE, M, T)
  BY <1>1, LocalReaches DEF W
<1> HIDE DEF T
<1>5. VisibleQ = [T EXCEPT !.place = "pim_visible"]
  BY <1>2 DEF VisibleQ, Visible, Placed
<1>6. VisibleQ.place = "pim_visible"
  BY <1>3, <1>5
<1>7. SourceOf(isMoE, VisibleQ) = VisibleQ
  BY <1>6 DEF SourceOf
<1> QED BY <1>2, <1>4, <1>7

(* Inputs, outputs and dependencies of a record replaced.                  *)
WithAll(r, ins, outs, deps) == [r EXCEPT !.inputs = ins, !.outputs = outs, !.logical_dependencies = deps]

LEMMA ReplacedAll ==
  ASSUME NEW r, IsRecord(r), NEW ins, NEW outs, NEW deps
  PROVE  Shape(WithAll(r, ins, outs, deps), r.record_id, r.kind, r.op, ins, outs, deps)
<1> DEFINE q == [r EXCEPT !.inputs = ins]
           p == [q EXCEPT !.outputs = outs]
<1>1. Shape(q, r.record_id, r.kind, r.op, ins, r.outputs, r.logical_dependencies)
  BY ReplaceField
<1>2. WithAll(r, ins, outs, deps) = [p EXCEPT !.logical_dependencies = deps]
  BY DEF WithAll
<1> HIDE DEF q
<1>3. IsRecord(q)
  BY <1>1 DEF Shape
<1>4. Shape(p, q.record_id, q.kind, q.op, q.inputs, outs, q.logical_dependencies)
  BY <1>3, ReplaceField
<1> HIDE DEF p
<1>5. IsRecord(p)
  BY <1>4 DEF Shape
<1>6. Shape([p EXCEPT !.logical_dependencies = deps], p.record_id, p.kind, p.op, p.inputs, p.outputs, deps)
  BY <1>5, ReplaceField
<1> QED BY <1>1, <1>2, <1>4, <1>6 DEF Shape

(* The residency that stays.                                               *)
LEMMA SharedStepped ==
  ASSUME NEW M, NEW n, NEW L, NEW G, NEW e, Decoding(M, n, L, G, e)
  PROVE  LET C == Stepped(G, n, e)
         IN  C[e].outputs = {VisibleQ} /\ Drawn(isMoE, M, C, KeptRecords(G, e), n, e)
<1> DEFINE r == G[e]
           C == Stepped(G, n, e)
<1>1. e \in 1 .. Len(G) /\ IsQ(r) /\ layer \in Nat /\ n \in Nat
  BY DEF Decoding, SharedBy, Stage
<1>2. IsRecord(r) /\ r.record_id = n + e - 1
  BY <1>1, DecodingIs
<1>3. r.kind # "AttentionScore"
  BY <1>1, LiftedShares
<1>4. C[e] = DecodeStep(r, Residencies(G), n + e - 1)
  BY <1>1 DEF Stepped
<1>5. SourceOf(isMoE, VisibleQ) = VisibleQ /\ Reaches(isMoE, M, OfLayer("Q"))
  BY <1>1, VisibleQIs DEF Decoding
<1> HIDE DEF r, C
<1>6. r.op # "kv_cache_k_tile_read" /\ r.op # "kv_cache_v_tile_read"
  BY <1>1 DEF IsQ
<1>7. C[e] = [r EXCEPT !.inputs = {OfLayer("Q")}, !.outputs = {VisibleQ}, !.logical_dependencies = {ids.q}]
  BY <1>2, <1>3, <1>4, <1>6 DEF DecodeStep, VisibleQ
<1> DEFINE ins == {OfLayer("Q")}
           outs == {VisibleQ}
           deps == {ids.q}
<1>8. Known(M, ids.q)
  BY DEF Decoding
<1> HIDE DEF ins, outs, deps
<1>9. C[e] = WithAll(r, ins, outs, deps)
  BY <1>7 DEF WithAll, ins, outs, deps
<1>10. Shape(C[e], r.record_id, r.kind, r.op, ins, outs, deps)
  BY <1>2, <1>9, ReplacedAll
<1> QED BY <1>2, <1>5, <1>8, <1>10 DEF Shape, Drawn, ins, outs, deps, C

(* A record that stays and is no residency of Q.                           *)
LEMMA OtherStepped ==
  ASSUME NEW M, NEW n, NEW L, NEW G, NEW e, Decoding(M, n, L, G, e), NEW i \in 1 .. Len(G), ~IsQ(G[i])
  PROVE  LET C == Stepped(G, n, e)
         IN  /\ C[i].outputs = G[i].outputs /\ IsRecord(C[i]) /\ C[i].record_id = G[i].record_id
             /\ \A t \in C[i].inputs : (t = VisibleQ /\ e < i) \/ (t \in G[i].inputs /\ t.name # "Q")
             /\ \A d \in C[i].logical_dependencies :
                  Known(M, d) \/ \E h \in KeptRecords(G, e) : h < i /\ d = n + h - 1
<1> DEFINE r == G[i]
           C == Stepped(G, n, e)
           R == Residencies(G)
           keep == n + e - 1
           Before(d) == Known(M, d) \/ \E h \in KeptRecords(G, e) : h < i /\ d = n + h - 1
<1>1. n \in Nat /\ e \in 1 .. Len(G) /\ IsQ(G[e]) /\ e # i /\ e \in Nat /\ i \in Nat /\ Len(G) \in Nat
  <2>1. e \in 1 .. Len(G) /\ IsQ(G[e])
    BY DEF Decoding, SharedBy
  <2>2. n \in Nat /\ Len(G) \in Nat
    BY DecodingIs
  <2> QED BY <2>1, <2>2
<1>2. IsRecord(r) /\ r.record_id = n + i - 1
  BY DecodingIs
<1>3. r.record_id # keep
  BY <1>1, <1>2
<1>4. C[i] = DecodeStep(r, R, keep)
  BY DEF Stepped
<1>5. Before(ids.q) /\ Before(ids.k_write) /\ Before(ids.v_write)
  BY DEF Decoding
<1> HIDE DEF C, R, keep
<1>6. CASE r.kind = "AttentionScore"
  <2> DEFINE ins == {t \in r.inputs : t.name # "Q"} \cup {VisibleQ}
             deps == {ids.q, keep} \cup (r.logical_dependencies \ R)
  <2>1. e < i /\ r.op = "AttentionScore"
    BY <1>6, LiftedShares
  <2>2. C[i] = [r EXCEPT !.inputs = ins, !.logical_dependencies = deps]
    BY <1>3, <1>4, <1>6, <2>1 DEF DecodeStep, VisibleQ
  <2>3. \A d \in deps : Before(d)
    <3>1. Before(keep)
      BY <1>1, <2>1 DEF keep, KeptRecords
    <3>2. ASSUME NEW d \in r.logical_dependencies, d \notin R PROVE Before(d)
      <4>1. PICK h \in 1 .. i - 1 : d = n + h - 1
        BY <3>2, LiftedDependency DEF Earlier
      <4>2. h \in 1 .. Len(G) /\ h < i
        BY <1>1
      <4>3. n + h - 1 \in R <=> IsQ(G[h])
        BY <4>2 DEF Decoding, SharedBy, R
      <4>4. h \in KeptRecords(G, e)
        BY <3>2, <4>1, <4>2, <4>3 DEF KeptRecords
      <4> QED BY <4>1, <4>2, <4>4
    <3> QED BY <1>5, <3>1, <3>2
  <2>4. \A t \in ins : t = VisibleQ \/ (t \in G[i].inputs /\ t.name # "Q")
    OBVIOUS
  <2> HIDE DEF ins, deps, Before, r
  <2>5. Shape(C[i], r.record_id, r.kind, r.op, ins, r.outputs, deps)
    <3>1. C[i] = With(r, ins, deps)
      BY <2>2 DEF With
    <3>2. Shape(With(r, ins, deps), r.record_id, r.kind, r.op, ins, r.outputs, deps)
      BY <1>2, Rewired DEF With
    <3> QED BY <3>1, <3>2
  <2> QED BY <2>1, <2>3, <2>4, <2>5 DEF Shape, Before, r, C
<1>7. CASE r.kind # "AttentionScore"
  <2>1. (\A t \in r.inputs : t.name # "Q") /\ \A d \in r.logical_dependencies : Before(d)
    BY <1>7, LiftedShares
  <2> HIDE DEF Before, r
  <2>2. CASE r.op = "kv_cache_k_tile_read"
    <3>1. C[i] = [r EXCEPT !.logical_dependencies = {ids.k_write}]
      BY <1>3, <1>4, <1>7, <2>2 DEF DecodeStep
    <3>2. Shape(C[i], r.record_id, r.kind, r.op, r.inputs, r.outputs, {ids.k_write})
      BY <1>2, <3>1, ReplaceField
    <3> QED BY <1>5, <2>1, <3>2 DEF Shape, Before, r, C
  <2>3. CASE r.op = "kv_cache_v_tile_read"
    <3> DEFINE deps == {ids.v_write} \cup r.logical_dependencies
    <3>1. C[i] = [r EXCEPT !.logical_dependencies = deps]
      BY <1>3, <1>4, <1>7, <2>3 DEF DecodeStep
    <3>2. \A d \in deps : Before(d)
      BY <1>5, <2>1
    <3> HIDE DEF deps
    <3>3. Shape(C[i], r.record_id, r.kind, r.op, r.inputs, r.outputs, deps)
      BY <1>2, <3>1, ReplaceField
    <3> QED BY <2>1, <3>2, <3>3 DEF Shape, Before, r, C
  <2>4. CASE r.op # "kv_cache_k_tile_read" /\ r.op # "kv_cache_v_tile_read"
    <3>1. C[i] = r
      BY <1>3, <1>4, <1>7, <2>4 DEF DecodeStep
    <3> QED BY <1>2, <2>1, <3>1 DEF Before, r, C
  <2> QED BY <2>2, <2>3, <2>4
<1> QED BY <1>6, <1>7

LEMMA OtherDrawn ==
  ASSUME NEW M, NEW n, NEW L, NEW G, NEW e, Decoding(M, n, L, G, e), NEW i \in 1 .. Len(G), ~IsQ(G[i])
  PROVE  Drawn(isMoE, M, Stepped(G, n, e), KeptRecords(G, e), n, i)
<1> DEFINE C == Stepped(G, n, e)
           S == KeptRecords(G, e)
<1>1. /\ C[i].outputs = G[i].outputs /\ IsRecord(C[i]) /\ C[i].record_id = G[i].record_id
      /\ \A t \in C[i].inputs : (t = VisibleQ /\ e < i) \/ (t \in G[i].inputs /\ t.name # "Q")
      /\ \A d \in C[i].logical_dependencies : Known(M, d) \/ \E h \in S : h < i /\ d = n + h - 1
  BY OtherStepped
<1>2. C[e].outputs = {VisibleQ} /\ e \in S /\ SourceOf(isMoE, VisibleQ) = VisibleQ
  <2>1. layer \in Nat /\ Made(M, Moved(layer, Whole("Q"))) /\ e \in 1 .. Len(G)
    BY DEF Decoding, SharedBy, Stage
  <2> QED BY <2>1, SharedStepped, VisibleQIs DEF KeptRecords
<1>3. \A h \in S : ~IsQ(G[h]) => C[h].outputs = G[h].outputs
  BY OtherStepped DEF KeptRecords
<1>4. ASSUME NEW t \in C[i].inputs PROVE Reaches(isMoE, M, t) \/ \E h \in S : h < i /\ SourceOf(isMoE, t) \in C[h].outputs
  <2>1. CASE t = VisibleQ /\ e < i
    BY <1>2, <2>1
  <2>2. CASE t \in G[i].inputs /\ t.name # "Q"
    <3>1. \/ Reaches(isMoE, M, t)
          \/ \E h \in S : h < i /\ ~IsQ(G[h]) /\ SourceOf(isMoE, t) \in G[h].outputs
      BY <2>2, LiftedOthers
    <3> HIDE DEF C, S
    <3> QED BY <1>3, <3>1
  <2> QED BY <1>1, <2>1, <2>2
<1>5. G[i].record_id = n + i - 1 /\ \A t \in G[i].outputs : SourceOf(isMoE, t) = t
  BY DecodingIs
<1> HIDE DEF C, S
<1>6. Drawn(isMoE, M, C, S, n, i)
  BY <1>1, <1>4, <1>5 DEF Drawn
<1> QED BY <1>6 DEF C, S

(* So attention comes after what is there, and says what it makes.         *)
LEMMA DecodeConnected ==
  ASSUME NEW M, NEW n, NEW L, NEW G, NEW e, Decoding(M, n, L, G, e)
  PROVE  LET K == ConnectDecodeAttention(G)
         IN  Stage(isMoE, M \o K, n + Len(L), layer) /\ IsList(K) /\ IsList(M) /\ OwnSources(isMoE, K)
<1> DEFINE C == Stepped(G, n, e)
           S == KeptRecords(G, e)
           K == ConnectDecodeAttention(G)
<1>1. /\ n \in Nat /\ Len(L) \in Nat /\ Len(G) = Len(L) /\ DOMAIN G = 1 .. Len(G)
      /\ \A i \in 1 .. Len(G) : G[i].record_id = n + i - 1
  BY DecodingIs
<1>2. Min(Residencies(G)) = n + e - 1 /\ e \in 1 .. Len(G)
  BY DEF Decoding, SharedBy
<1>3. K = Keeping(C, S)
  <2> DEFINE keep == n + e - 1
             T == {i \in DOMAIN G : G[i].op = "q_operand_residency" => G[i].record_id = keep}
  <2>1. K = Keeping([i \in DOMAIN G |-> DecodeStep(G[i], Residencies(G), keep)], T)
    BY <1>2 DEF ConnectDecodeAttention, DecodeStep
  <2>2. C = [i \in DOMAIN G |-> DecodeStep(G[i], Residencies(G), keep)]
    BY <1>1 DEF Stepped
  <2>3. T = S
    <3>1. \A i \in 1 .. Len(G) : G[i].record_id = keep <=> i = e
      BY <1>1, <1>2
    <3> QED BY <1>1, <3>1 DEF KeptRecords, IsQ
  <2> QED BY <2>1, <2>2, <2>3
<1> HIDE DEF K
<1>4. IsList(C) /\ Len(C) = Len(L)
  <2>1. C = [i \in 1 .. Len(G) |-> C[i]]
    BY DEF Stepped
  <2> HIDE DEF C
  <2> QED BY <1>1, <2>1, ListOfFunction
<1>5. S \subseteq 1 .. Len(L)
  BY <1>1 DEF KeptRecords
<1>6. AllDrawn(isMoE, M, C, S, n)
  <2> SUFFICES ASSUME NEW i \in S PROVE Drawn(isMoE, M, C, S, n, i)
    BY DEF AllDrawn
  <2>1. CASE i = e
    BY <2>1, SharedStepped
  <2>2. CASE i # e
    <3>1. i \in 1 .. Len(G) /\ ~IsQ(G[i])
      BY <2>2 DEF KeptRecords
    <3> QED BY <3>1, OtherDrawn
  <2> QED BY <2>1, <2>2
<1> HIDE DEF C, S
<1>7. IsKept(K, C, S)
  BY <1>3, <1>4, <1>5, KeepingIs
<1>8. Stage(isMoE, M, n, layer)
  BY DEF Decoding
<1>9. Len(L) \in Nat
  BY <1>1
<1>10. Stage(isMoE, M \o K, n + Len(L), layer) /\ IsList(K) /\ IsList(M) /\ OwnSources(isMoE, K)
  BY <1>5, <1>6, <1>7, <1>8, <1>9, KeptFollow
<1> QED BY <1>10 DEF K
(***************************************************************************)
(* The invariant: the trace with the block that is being appended is       *)
(* linked, and what the next block connects to is there.                   *)
(***************************************************************************)
IsIds(d) ==
  d = [q |-> d.q, k |-> d.k, v |-> d.v, k_write |-> d.k_write, v_write |-> d.v_write, o |-> d.o,
       terminals |-> d.terminals, contexts |-> d.contexts]

Ready(M, at, d, l, moe) ==
  /\ at \in {"cache_writes", "attention"} =>
       /\ Known(M, d.q) /\ Known(M, d.k) /\ Known(M, d.v)
       /\ Made(M, Moved(l, Whole("Q"))) /\ Made(M, Moved(l, Whole("K"))) /\ Made(M, Moved(l, Whole("V")))
  /\ at = "attention" =>
       Known(M, d.k_write) /\ Known(M, d.v_write) /\ Made(M, Cached("K", l)) /\ Made(M, Cached("V", l))
  /\ at = "o_projection" =>
       (\A x \in d.terminals : Known(M, x)) /\ (\A t \in d.contexts : Made(M, t) /\ SourceOf(moe, t) = t)
  /\ at = "feed_forward" => Known(M, d.o) /\ Made(M, Moved(l, Whole("attention_output")))
  /\ at = "transition" => Made(M, ResultOf(moe, l))

Accepted == workload \in Workloads /\ Supported(workload)

IInv ==
  /\ Accepted /\ PhaseFits
  /\ IsIds(ids) /\ IsList(trace) /\ IsList(block)
  /\ Stage(isMoE, trace \o block, next_id, layer)
  /\ Ready(trace \o block, pc, ids, layer, isMoE)

LEMMA InitInv == Init /\ PhaseFits => IInv
<1> SUFFICES ASSUME Init, PhaseFits PROVE IInv
  OBVIOUS
<1>1. trace = <<>> /\ block = <<>> /\ next_id = 0 /\ layer = 0 /\ pc = "layer_start"
  BY DEF Init
<1>2. IsList(<<>>) /\ Len(<<>>) = 0 /\ <<>> \o <<>> = <<>>
  BY EmptyList, ConcatEmpty
<1>3. Stage(isMoE, <<>>, 0, 0)
  BY <1>2 DEF Stage, Linked, Below
<1>4. Ready(<<>>, "layer_start", ids, 0, isMoE)
  BY DEF Ready
<1>5. IsIds(ids) /\ Accepted
  BY DEF Init, IsIds, Accepted
<1> QED BY <1>1, <1>2, <1>3, <1>4, <1>5 DEF IInv

(* Before a block is generated, and after.                                 *)
LEMMA BeforeBlock ==
  ASSUME IInv, block = <<>>
  PROVE  /\ Stage(isMoE, trace, next_id, layer) /\ Ready(trace, pc, ids, layer, isMoE)
         /\ next_id \in Nat /\ layer \in Nat /\ IsList(trace)
<1>1. trace \o block = trace /\ IsList(trace)
  BY ConcatEmpty DEF IInv
<1> QED BY <1>1 DEF IInv, Stage

LEMMA AfterBlock ==
  ASSUME IInv, workload' = workload, trace' = trace, IsIds(ids'), IsList(block'),
         Stage(isMoE, trace \o block', next_id', layer'), Ready(trace \o block', pc', ids', layer', isMoE)
  PROVE  IInv'
<1>1. isMoE' = isMoE /\ Accepted' /\ PhaseFits'
  BY DEF isMoE, IInv, Accepted, Supported, PhaseFits, isPrefill, attention
<1> QED BY <1>1 DEF IInv

(***************************************************************************)
(* What the manifests say.                                                 *)
(***************************************************************************)
LEMMA Manifests ==
  ASSUME Accepted
  PROVE  /\ attention.num_heads \in Nat \ {0}
         /\ IsList(CacheTiles(attention)) /\ IsList(QueryTiles(attention)) /\ IsList(KeyTiles(attention))
         /\ isMoE => IsList(feedForward.selected_experts)
         /\ ~isMoE => IsList(TileRanges(feedForward.hidden_size, feedForward.ffn_activation_tile_size))
<1>1. workload \in Workloads /\ ValidAttention(attention)
  BY DEF Accepted, Supported, attention
<1>2. /\ attention.num_heads \in Int /\ attention.seq_len \in Int /\ attention.past_len \in Int
      /\ attention.score_tile_tokens \in Int /\ attention.context_tile_tokens \in Int
  BY <1>1, WorkloadsAssumption DEF attention
<1>3. /\ attention.num_heads > 0 /\ attention.seq_len > 0 /\ attention.score_tile_tokens > 0
      /\ attention.context_tile_tokens > 0 /\ attention.past_len >= 0
  BY <1>1 DEF ValidAttention
<1>4. IsList(CacheTiles(attention))
  BY <1>2, <1>3, TilesAreList DEF CacheTiles
<1>5. IsList(QueryTiles(attention))
  BY <1>2, <1>3, TilesAreList DEF QueryTiles
<1>6. IsList(KeyTiles(attention))
  BY <1>2, <1>3, TilesAreList DEF KeyTiles
<1>7. ASSUME isMoE PROVE IsList(feedForward.selected_experts)
  BY <1>1, <1>7, WorkloadsAssumption DEF IsList, isMoE, feedForward
<1>8. ASSUME ~isMoE PROVE IsList(TileRanges(feedForward.hidden_size, feedForward.ffn_activation_tile_size))
  <2>1. feedForward.hidden_size \in Int /\ feedForward.ffn_activation_tile_size \in Int
    BY <1>1, <1>8, WorkloadsAssumption DEF isMoE, feedForward
  <2>2. ValidFFN(feedForward)
    BY <1>8 DEF Accepted, Supported, isMoE, feedForward
  <2>3. feedForward.hidden_size > 0 /\ feedForward.ffn_activation_tile_size > 0
    BY <2>2 DEF ValidFFN
  <2> QED BY <2>1, <2>3, TilesAreList
<1> QED BY <1>2, <1>3, <1>4, <1>5, <1>6, <1>7, <1>8

(***************************************************************************)
(* The steps.                                                              *)
(***************************************************************************)
LEMMA SingleInv ==
  ASSUME IInv, NEW r, NEW kind, NEW op, Shape(r, 0, kind, op, {}, {}, {}), block = <<>>
  PROVE  LET C == RenumberRecords(<<r>>, next_id)
         IN  Stage(isMoE, trace \o C, next_id + Len(C), layer) /\ IsList(C)
<1>1. Stage(isMoE, trace, next_id, layer)
  BY BeforeBlock
<1> QED BY <1>1, SingleStage

LEMMA LayerStartInv == ASSUME IInv, LayerStart PROVE IInv'
<1> DEFINE r == Barrier("layer_start")
           C == RenumberRecords(<<r>>, next_id)
<1>1. /\ block = <<>> /\ block' = C /\ next_id' = next_id + Len(C) /\ pc' = "projections"
      /\ workload' = workload /\ trace' = trace /\ layer' = layer /\ ids' = ids
  BY DEF LayerStart, Emit
<1>2. Shape(r, 0, "Barrier", "layer_start", {}, {}, {})
  BY RecordShape DEF Barrier
<1> HIDE DEF r
<1>3. Stage(isMoE, trace \o C, next_id + Len(C), layer) /\ IsList(C)
  BY <1>1, <1>2, SingleInv
<1> HIDE DEF C
<1>4. Ready(trace \o C, "projections", ids, layer, isMoE)
  BY DEF Ready
<1>5. IsIds(ids')
  BY <1>1 DEF IInv
<1> QED BY <1>1, <1>3, <1>4, <1>5, AfterBlock

LEMMA FinalDrainInv == ASSUME IInv, FinalDrain PROVE IInv'
<1> DEFINE C == RenumberRecords(<<Drain>>, next_id)
<1>1. /\ block = <<>> /\ block' = C /\ next_id' = next_id + Len(C) /\ pc' = "done"
      /\ workload' = workload /\ trace' = trace /\ layer' = layer /\ ids' = ids
  BY DEF FinalDrain, Emit
<1>2. Shape(Drain, 0, "Drain", "final_drain", {}, {}, {})
  BY RecordShape DEF Drain
<1>3. Stage(isMoE, trace \o C, next_id + Len(C), layer) /\ IsList(C)
  BY <1>1, <1>2, SingleInv
<1> HIDE DEF C
<1>4. Ready(trace \o C, "done", ids, layer, isMoE)
  BY DEF Ready
<1>5. IsIds(ids')
  BY <1>1 DEF IInv
<1> QED BY <1>1, <1>3, <1>4, <1>5, AfterBlock

LEMMA LayerTransitionInv == ASSUME IInv, LayerTransition PROVE IInv'
<1> DEFINE r == Barrier("layer_transition")
           C == RenumberRecords(<<r>>, next_id)
           more == layer + 1 < attention.num_layers
<1>1. /\ pc = "transition" /\ block = <<>> /\ block' = C /\ next_id' = next_id + Len(C)
      /\ pc' = IF more THEN "layer_start" ELSE "drain"
      /\ workload' = workload /\ trace' = trace /\ layer' = (IF more THEN layer + 1 ELSE layer) /\ ids' = ids
  BY DEF LayerTransition, Emit
<1>2. Shape(r, 0, "Barrier", "layer_transition", {}, {}, {})
  BY RecordShape DEF Barrier
<1> HIDE DEF r, more
<1>3. Stage(isMoE, trace \o C, next_id + Len(C), layer) /\ IsList(C)
  BY <1>1, <1>2, SingleInv
<1> HIDE DEF C
<1>4. pc' \in {"layer_start", "drain"}
  BY <1>1
<1>5. Ready(trace \o C, pc', ids, layer', isMoE)
  BY <1>4 DEF Ready
<1>6. IsIds(ids')
  BY <1>1 DEF IInv
<1>7. layer \in Nat /\ IsList(trace) /\ Made(trace, ResultOf(isMoE, layer))
  BY <1>1, BeforeBlock DEF Ready
<1>8. Made(trace \o C, ResultOf(isMoE, layer))
  BY <1>3, <1>7, KnownConcat
<1>9. Stage(isMoE, trace \o C, next_id', layer')
  <2>1. CASE layer' = layer
    BY <1>1, <1>3, <2>1
  <2>2. CASE layer' = layer + 1
    <3>1. layer' \in Nat /\ layer' - 1 = layer
      BY <1>7, <2>2
    <3> QED BY <1>1, <1>3, <1>8, <3>1 DEF Stage
  <2> QED BY <1>1, <2>1, <2>2
<1> QED BY <1>1, <1>3, <1>5, <1>6, <1>9, AfterBlock
(* A block that starts from nothing.                                       *)
LEMMA FitsEmpty ==
  ASSUME NEW c, NEW outs, NEW mode, Fits(<<>>, c, outs, mode)
  PROVE  Good(c, mode) /\ \A t \in outs : Made(c, t)
<1>1. Good(<<>>, mode) /\ <<>> \o c = c
  BY GoodEmpty, ConcatEmpty DEF Fits
<1>2. Good(<<>> \o c, mode) /\ \A t \in outs : Made(<<>> \o c, t)
  BY <1>1, FitsGood
<1> QED BY <1>1, <1>2

(* Every record of what is appended is known, and what it makes is made.   *)
LEMMA RangeKnown ==
  ASSUME NEW M, NEW C, IsList(M), IsList(C), NEW r \in Range(C)
  PROVE  Known(M \o C, r.record_id) /\ \A t \in r.outputs : Made(M \o C, t)
<1>1. PICK j \in 1 .. Len(C) : C[j] = r
  BY ListIs
<1> QED BY <1>1, KnownConcat, ContinuesConcat

LEMMA MovedPlaced ==
  ASSUME NEW l, NEW name, NEW place
  PROVE  Moved(l, Placed(Whole(name), place)) = [Placed(Whole(name), place) EXCEPT !.layer = l]
BY WholeShape DEF Moved, OfShape

LEMMA MovedIs ==
  ASSUME NEW l
  PROVE  /\ Moved(l, Placed(Whole("K"), "kv_cache")) = Cached("K", l)
         /\ Moved(l, Placed(Whole("V"), "kv_cache")) = Cached("V", l)
         /\ Moved(l, Placed(Whole("combined"), "materialized")) = ResultOf(TRUE, l)
         /\ Moved(l, Whole("hidden_out")) = ResultOf(FALSE, l)
<1>1. Placed(Whole("hidden_out"), "plain") = Whole("hidden_out")
  BY DEF Placed, Whole, Tensor
<1> QED BY <1>1, MovedPlaced DEF Cached, ResultOf

LEMMA ProjectionsInv == ASSUME IInv, Projections PROVE IInv'
<1> DEFINE kv_dim == attention.kv_heads * attention.head_dim
           L == QKVProjections(feedForward, QDim, kv_dim)
           G == Generated(L)
           N == trace \o G
<1>0. Len(<<>>) = 0 /\ Good(<<>>, "projections")
  BY EmptyList, GoodEmpty
<1> HIDE DEF kv_dim
<1>1. Fits(<<>>, L, {Whole("Q"), Whole("K"), Whole("V")}, "projections")
  BY <1>0, QKVFits
<1> DEFINE outs == {Whole("Q"), Whole("K"), Whole("V")}
<1> HIDE DEF outs
<1>2. Good(L, "projections") /\ \A t \in outs : Made(L, t)
  BY <1>1, FitsEmpty DEF outs
<1>3. Len(L) = 3 /\ L[1].op = "q_projection" /\ L[2].op = "k_projection" /\ L[3].op = "v_projection"
  <2>1. \A m, id, op, input, output, dim : Projection(m, id, op, input, output, dim).op = op
    BY RecordShape DEF Projection, Shape
  <2> DEFINE a == Projection(feedForward, 0, "q_projection", Whole("hidden"), Whole("Q"), QDim)
             b == Projection(feedForward, 1, "k_projection", Whole("hidden"), Whole("K"), kv_dim)
             c == Projection(feedForward, 2, "v_projection", Whole("hidden"), Whole("V"), kv_dim)
  <2>2. L = <<a, b, c>>
    BY DEF QKVProjections
  <2>3. a.op = "q_projection" /\ b.op = "k_projection" /\ c.op = "v_projection"
    BY <2>1
  <2> HIDE DEF a, b, c, L
  <2> QED BY <2>2, <2>3, ListOfThree
<1>4. /\ pc = "projections" /\ block = <<>> /\ block' = G /\ next_id' = next_id + Len(G) /\ pc' = "cache_writes"
      /\ workload' = workload /\ trace' = trace /\ layer' = layer
      /\ ids' = [ids EXCEPT !.q = IdOf(G, "q_projection"), !.k = IdOf(G, "k_projection"), !.v = IdOf(G, "v_projection")]
  BY DEF Projections, Emit, kv_dim
<1> HIDE DEF L
<1>5. /\ Stage(isMoE, trace, next_id, layer) /\ next_id \in Nat /\ layer \in Nat /\ IsList(trace)
  BY <1>4, BeforeBlock
<1>6. IsLift(G, L, next_id, layer)
  BY <1>2, <1>5, GeneratedIs
<1> HIDE DEF G
<1>7. IsConnected(isMoE, trace, G, G, "projections")
  BY <1>2, <1>5, <1>6, UnchangedConnected
<1>8. "projections" # "decode"
  OBVIOUS
<1>9. /\ Stage(isMoE, N, next_id + Len(L), layer) /\ IsList(G) /\ Len(G) = Len(L)
      /\ \A j \in 1 .. Len(L) : Known(N, G[j].record_id)
      /\ \A t : Made(L, t) => Made(N, Moved(layer, t))
  BY <1>2, <1>5, <1>6, <1>7, <1>8, ConnectedStage
<1>10. ASSUME NEW op \in {"q_projection", "k_projection", "v_projection"} PROVE Known(N, IdOf(G, op))
  <2>1. PICK j \in 1 .. Len(L) : L[j].op = op
    BY <1>3
  <2>2. G[j].op = op
    BY <1>2, <1>5, <1>6, <2>1, LiftedRecord
  <2>3. \A x : x \in Range(G) <=> \E i \in 1 .. Len(G) : G[i] = x
    BY <1>9, ListIs
  <2>4. \E x \in Range(G) : x.op = op
    BY <1>9, <2>2, <2>3
  <2> DEFINE r == CHOOSE x \in Range(G) : x.op = op
  <2>5. r \in Range(G)
    BY <2>4
  <2>6. IdOf(G, op) = r.record_id
    BY DEF IdOf
  <2> HIDE DEF r, N
  <2>7. PICK i \in 1 .. Len(G) : G[i] = r
    BY <2>3, <2>5
  <2> QED BY <1>9, <2>6, <2>7
<1> DEFINE q == IdOf(G, "q_projection")
           k == IdOf(G, "k_projection")
           v == IdOf(G, "v_projection")
<1> HIDE DEF q, k, v
<1>11. ids' = [ids EXCEPT !.q = q, !.k = k, !.v = v]
  BY <1>4 DEF q, k, v
<1>12. IsIds(ids') /\ ids'.q = q /\ ids'.k = k /\ ids'.v = v
  <2>1. IsIds(ids)
    BY DEF IInv
  <2>2. ids' = [q |-> q, k |-> k, v |-> v, k_write |-> ids.k_write, v_write |-> ids.v_write, o |-> ids.o,
                terminals |-> ids.terminals, contexts |-> ids.contexts]
    BY <1>11, <2>1 DEF IsIds
  <2> QED BY <2>2 DEF IsIds
<1>13. Known(N, q) /\ Known(N, k) /\ Known(N, v)
  BY <1>10 DEF q, k, v
<1>14. Made(N, Moved(layer, Whole("Q"))) /\ Made(N, Moved(layer, Whole("K"))) /\ Made(N, Moved(layer, Whole("V")))
  BY <1>2, <1>9 DEF outs
<1> HIDE DEF N
<1>15. Ready(N, "cache_writes", ids', layer, isMoE)
  BY <1>12, <1>13, <1>14 DEF Ready
<1> QED BY <1>4, <1>9, <1>12, <1>15, AfterBlock DEF N

LEMMA CacheWritesInv == ASSUME IInv, CacheWrites PROVE IInv'
<1> DEFINE L == IF isPrefill THEN PrefillCacheWrites ELSE DecodeCacheWrites
           G == Generated(L)
           C == [i \in DOMAIN G |-> ConnectCacheWrite(G[i])]
           N == trace \o C
<1>1. L \in {DecodeCacheWrites, PrefillCacheWrites}
  OBVIOUS
<1>2. /\ pc = "cache_writes" /\ block = <<>> /\ block' = C /\ next_id' = next_id + Len(G) /\ pc' = "attention"
      /\ workload' = workload /\ trace' = trace /\ layer' = layer
      /\ ids' = [ids EXCEPT !.k_write = G[1].record_id, !.v_write = G[2].record_id]
  BY DEF CacheWrites, Emit
<1> HIDE DEF L
<1>3. /\ Good(L, "cache_writes") /\ Len(L) = 2
      /\ Made(L, Placed(Whole("K"), "kv_cache")) /\ Made(L, Placed(Whole("V"), "kv_cache"))
  BY <1>1, CacheWritesAre
<1>4. /\ Stage(isMoE, trace, next_id, layer) /\ next_id \in Nat /\ layer \in Nat /\ IsList(trace)
      /\ Ready(trace, "cache_writes", ids, layer, isMoE)
  BY <1>2, BeforeBlock
<1>5. /\ Known(trace, ids.q) /\ Known(trace, ids.k) /\ Known(trace, ids.v) /\ Made(trace, Moved(layer, Whole("Q")))
      /\ Made(trace, Moved(layer, Whole("K"))) /\ Made(trace, Moved(layer, Whole("V")))
  BY <1>4 DEF Ready
<1>6. IsLift(G, L, next_id, layer)
  BY <1>3, <1>4, GeneratedIs
<1> HIDE DEF G
<1>7. IsConnected(isMoE, trace, C, G, "cache_writes")
  BY <1>1, <1>4, <1>5, <1>6, CacheWritesConnected
<1> HIDE DEF C
<1>8. "cache_writes" # "decode"
  OBVIOUS
<1>9. /\ Stage(isMoE, N, next_id + Len(L), layer) /\ IsList(C)
      /\ \A j \in 1 .. Len(L) : Known(N, G[j].record_id)
      /\ \A t : Made(L, t) => Made(N, Moved(layer, t))
  BY <1>3, <1>4, <1>6, <1>7, <1>8, ConnectedStage
<1>10. /\ \A d : Known(trace, d) => Known(N, d)
       /\ \A t : Made(trace, t) => Made(N, t)
  BY <1>4, <1>9, KnownConcat
<1>11. Len(G) = Len(L)
  BY <1>6 DEF IsLift
<1>12. /\ IsIds(ids') /\ ids'.q = ids.q /\ ids'.k = ids.k /\ ids'.v = ids.v
       /\ ids'.k_write = G[1].record_id /\ ids'.v_write = G[2].record_id
  <2> DEFINE k_write == G[1].record_id
             v_write == G[2].record_id
  <2>1. IsIds(ids)
    BY DEF IInv
  <2>2. ids' = [ids EXCEPT !.k_write = k_write, !.v_write = v_write]
    BY <1>2
  <2> HIDE DEF k_write, v_write
  <2>3. ids' = [q |-> ids.q, k |-> ids.k, v |-> ids.v, k_write |-> k_write, v_write |-> v_write, o |-> ids.o,
                terminals |-> ids.terminals, contexts |-> ids.contexts]
    BY <2>1, <2>2 DEF IsIds
  <2> QED BY <2>3 DEF IsIds, k_write, v_write
<1>13. Known(N, G[1].record_id) /\ Known(N, G[2].record_id)
  BY <1>3, <1>9
<1>14. Made(N, Cached("K", layer)) /\ Made(N, Cached("V", layer))
  BY <1>3, <1>9, MovedIs
<1> HIDE DEF N
<1>15. Ready(N, "attention", ids', layer, isMoE)
  BY <1>5, <1>10, <1>12, <1>13, <1>14 DEF Ready
<1> QED BY <1>2, <1>9, <1>11, <1>12, <1>15, AfterBlock DEF N
LEMMA OutputProjectionInv == ASSUME IInv, OutputProjection PROVE IInv'
<1> DEFINE L == OProjection(feedForward, QDim)
           G == Generated(L)
           C == <<ConnectOProjection(G[1])>>
           N == trace \o C
<1>1. Len(<<>>) = 0 /\ Good(<<>>, "o_projection")
  BY EmptyList, GoodEmpty
<1>2. Fits(<<>>, L, {Whole("attention_output")}, "o_projection")
  BY <1>1, OProjectionFits
<1> DEFINE outs == {Whole("attention_output")}
<1> HIDE DEF outs
<1>3. Good(L, "o_projection") /\ \A t \in outs : Made(L, t)
  BY <1>2, FitsEmpty DEF outs
<1>4. Len(L) = 1
  <2> DEFINE r == Projection(feedForward, 0, "o_projection", Whole("attention_context"), Whole("attention_output"), QDim)
  <2>1. L = <<r>>
    BY DEF OProjection
  <2> HIDE DEF r, L
  <2> QED BY <2>1, EmptyList, ListAppend
<1>5. /\ pc = "o_projection" /\ block = <<>> /\ block' = C /\ next_id' = next_id + Len(G) /\ pc' = "feed_forward"
      /\ workload' = workload /\ trace' = trace /\ layer' = layer
      /\ ids' = [ids EXCEPT !.o = G[1].record_id]
  BY DEF OutputProjection, Emit
<1> HIDE DEF L
<1>6. /\ Stage(isMoE, trace, next_id, layer) /\ next_id \in Nat /\ layer \in Nat /\ IsList(trace)
      /\ Ready(trace, "o_projection", ids, layer, isMoE)
  BY <1>5, BeforeBlock
<1>7. (\A x \in ids.terminals : Known(trace, x)) /\ (\A t \in ids.contexts : Made(trace, t) /\ SourceOf(isMoE, t) = t)
  BY <1>6 DEF Ready
<1>8. IsLift(G, L, next_id, layer)
  BY <1>3, <1>6, GeneratedIs
<1> HIDE DEF G
<1>9. IsConnected(isMoE, trace, C, G, "o_projection")
  BY <1>3, <1>4, <1>6, <1>7, <1>8, OProjectionConnected
<1> HIDE DEF C
<1>10. "o_projection" # "decode"
  OBVIOUS
<1>11. /\ Stage(isMoE, N, next_id + Len(L), layer) /\ IsList(C)
       /\ \A j \in 1 .. Len(L) : Known(N, G[j].record_id)
       /\ \A t : Made(L, t) => Made(N, Moved(layer, t))
  BY <1>3, <1>6, <1>8, <1>9, <1>10, ConnectedStage
<1>12. Len(G) = Len(L)
  BY <1>8 DEF IsLift
<1>13. IsIds(ids') /\ ids'.o = G[1].record_id
  <2> DEFINE o == G[1].record_id
  <2>1. IsIds(ids)
    BY DEF IInv
  <2>2. ids' = [ids EXCEPT !.o = o]
    BY <1>5
  <2> HIDE DEF o
  <2>3. ids' = [q |-> ids.q, k |-> ids.k, v |-> ids.v, k_write |-> ids.k_write, v_write |-> ids.v_write, o |-> o,
                terminals |-> ids.terminals, contexts |-> ids.contexts]
    BY <2>1, <2>2 DEF IsIds
  <2> QED BY <2>3 DEF IsIds, o
<1>14. Known(N, G[1].record_id) /\ Made(N, Moved(layer, Whole("attention_output")))
  BY <1>3, <1>4, <1>11 DEF outs
<1> HIDE DEF N
<1>15. Ready(N, "feed_forward", ids', layer, isMoE)
  BY <1>13, <1>14 DEF Ready
<1> QED BY <1>5, <1>11, <1>12, <1>13, <1>15, AfterBlock DEF N

LEMMA FeedForwardInv == ASSUME IInv, FeedForward PROVE IInv'
<1> DEFINE L == IF isMoE THEN MoE(feedForward) ELSE FFN(feedForward)
           G == Generated(L)
           C == [i \in DOMAIN G |-> ConnectFeedForward(G[i])]
           N == trace \o C
<1>1. /\ pc = "feed_forward" /\ block = <<>> /\ block' = C /\ next_id' = next_id + Len(G) /\ pc' = "transition"
      /\ workload' = workload /\ trace' = trace /\ layer' = layer /\ ids' = ids
  BY DEF FeedForward, Emit
<1> DEFINE result == IF isMoE THEN Placed(Whole("combined"), "materialized") ELSE Whole("hidden_out")
<1>2. Good(L, "feed_forward") /\ Made(L, result)
  <2>1. CASE isMoE
    <3>1. IsList(feedForward.selected_experts)
      BY <2>1, Manifests DEF IInv
    <3>2. Good(MoE(feedForward), "feed_forward") /\ Made(MoE(feedForward), Placed(Whole("combined"), "materialized"))
      BY <3>1, MoEGood
    <3> QED BY <2>1, <3>2
  <2>2. CASE ~isMoE
    <3>1. IsList(TileRanges(feedForward.hidden_size, feedForward.ffn_activation_tile_size))
      BY <2>2, Manifests DEF IInv
    <3>2. Good(FFN(feedForward), "feed_forward") /\ Made(FFN(feedForward), Whole("hidden_out"))
      BY <3>1, FFNGood
    <3> QED BY <2>2, <3>2
  <2> QED BY <2>1, <2>2
<1>3. Moved(layer, result) = ResultOf(isMoE, layer)
  BY MovedIs DEF ResultOf
<1> HIDE DEF L, result
<1>4. /\ Stage(isMoE, trace, next_id, layer) /\ next_id \in Nat /\ layer \in Nat /\ IsList(trace)
      /\ Ready(trace, "feed_forward", ids, layer, isMoE)
  BY <1>1, BeforeBlock
<1>5. Known(trace, ids.o) /\ Made(trace, Moved(layer, Whole("attention_output")))
  BY <1>4 DEF Ready
<1>6. IsLift(G, L, next_id, layer)
  BY <1>2, <1>4, GeneratedIs
<1> HIDE DEF G
<1>7. IsConnected(isMoE, trace, C, G, "feed_forward")
  BY <1>2, <1>4, <1>5, <1>6, FeedForwardConnected
<1> HIDE DEF C
<1>8. "feed_forward" # "decode"
  OBVIOUS
<1>9. /\ Stage(isMoE, N, next_id + Len(L), layer) /\ IsList(C)
      /\ \A t : Made(L, t) => Made(N, Moved(layer, t))
  BY <1>2, <1>4, <1>6, <1>7, <1>8, ConnectedStage
<1>10. Len(G) = Len(L) /\ IsIds(ids')
  BY <1>1, <1>6 DEF IsLift, IInv
<1>11. Made(N, ResultOf(isMoE, layer))
  BY <1>2, <1>3, <1>9
<1> HIDE DEF N
<1>12. Ready(N, "transition", ids', layer, isMoE)
  BY <1>11 DEF Ready
<1> QED BY <1>1, <1>9, <1>10, <1>12, AfterBlock DEF N

(* Attention, in either phase.                                             *)
LEMMA PrefillStage ==
  ASSUME IInv, block = <<>>, pc = "attention", isPrefill
  PROVE  LET G == Generated(PrefillAttention(attention))
             C == ConnectPrefillAttention(G)
         IN  Stage(isMoE, trace \o C, next_id + Len(G), layer) /\ IsList(C) /\ OwnSources(isMoE, C)
<1> DEFINE L == PrefillAttention(attention)
           G == Generated(L)
           C == ConnectPrefillAttention(G)
<1>1. Good(L, "prefill")
  <2>1. attention.num_heads \in Nat /\ IsList(QueryTiles(attention)) /\ IsList(KeyTiles(attention))
    BY Manifests DEF IInv
  <2> QED BY <2>1, PrefillAttentionGood
<1> HIDE DEF L
<1>2. /\ Stage(isMoE, trace, next_id, layer) /\ next_id \in Nat /\ layer \in Nat /\ IsList(trace)
      /\ Ready(trace, "attention", ids, layer, isMoE)
  BY BeforeBlock
<1>3. /\ Known(trace, ids.q) /\ Known(trace, ids.k) /\ Known(trace, ids.v) /\ Made(trace, Moved(layer, Whole("Q")))
      /\ Made(trace, Moved(layer, Whole("K"))) /\ Made(trace, Moved(layer, Whole("V")))
  BY <1>2 DEF Ready
<1>4. IsLift(G, L, next_id, layer)
  BY <1>1, <1>2, GeneratedIs
<1> HIDE DEF G
<1>5. IsConnected(isMoE, trace, C, G, "prefill")
  BY <1>1, <1>2, <1>3, <1>4, PrefillConnected
<1> HIDE DEF C
<1>6. "prefill" # "decode"
  OBVIOUS
<1>7. Stage(isMoE, trace \o C, next_id + Len(L), layer) /\ IsList(C) /\ Len(C) = Len(L)
  BY <1>1, <1>2, <1>4, <1>5, <1>6, ConnectedStage
<1>8. Len(G) = Len(L)
  BY <1>4 DEF IsLift
<1>9. OwnSources(isMoE, C)
  <2> SUFFICES ASSUME NEW r \in Range(C), NEW t \in r.outputs PROVE SourceOf(isMoE, t) = t
    BY DEF OwnSources
  <2>1. PICK j \in 1 .. Len(C) : C[j] = r
    BY <1>7, ListIs
  <2>2. r.outputs = G[j].outputs
    BY <1>5, <1>7, <1>8, <2>1 DEF IsConnected
  <2>3. \A u \in G[j].outputs : SourceOf(isMoE, u) = u
    BY <1>1, <1>2, <1>4, <1>7, LiftedRecord
  <2> QED BY <2>2, <2>3
<1> QED BY <1>7, <1>8, <1>9 DEF C, G, L

LEMMA DecodeStage ==
  ASSUME IInv, block = <<>>, pc = "attention"
  PROVE  LET G == Generated(DecodeAttention(attention))
             C == ConnectDecodeAttention(G)
         IN  Stage(isMoE, trace \o C, next_id + Len(G), layer) /\ IsList(C) /\ OwnSources(isMoE, C)
<1> DEFINE L == DecodeAttention(attention)
           G == Generated(L)
           C == ConnectDecodeAttention(G)
<1>1. Good(L, "decode") /\ \E i \in 1 .. Len(L) : IsQ(L[i])
  <2>1. attention.num_heads \in Nat \ {0} /\ IsList(CacheTiles(attention))
    BY Manifests DEF IInv
  <2> QED BY <2>1, DecodeAttentionGood
<1> HIDE DEF L
<1>2. /\ Stage(isMoE, trace, next_id, layer) /\ next_id \in Nat
      /\ Ready(trace, "attention", ids, layer, isMoE)
  BY BeforeBlock
<1>3. /\ Made(trace, Cached("K", layer)) /\ Made(trace, Cached("V", layer)) /\ Made(trace, Moved(layer, Whole("Q")))
      /\ Known(trace, ids.q) /\ Known(trace, ids.k_write) /\ Known(trace, ids.v_write)
  BY <1>2 DEF Ready
<1>4. IsLift(G, L, next_id, layer)
  BY <1>1, <1>2, GeneratedIs
<1> HIDE DEF G
<1>5. PICK e : SharedBy(G, next_id, e)
  BY <1>1, <1>2, <1>4, FirstResidency
<1>6. Decoding(trace, next_id, L, G, e)
  BY <1>1, <1>2, <1>3, <1>4, <1>5 DEF Decoding
<1>7. Stage(isMoE, trace \o C, next_id + Len(L), layer) /\ IsList(C) /\ OwnSources(isMoE, C)
  BY <1>6, DecodeConnected
<1>8. Len(G) = Len(L)
  BY <1>4 DEF IsLift
<1> QED BY <1>7, <1>8 DEF G, L

(* Where the phase fits, attention is generated the way it is connected.   *)
LEMMA DispatchFits == ASSUME IInv PROVE isPrefill <=> attention.phase = "prefill"
<1>1. ASSUME isPrefill PROVE attention.phase = "prefill"
  BY <1>1 DEF IInv, Accepted, Supported, ValidPrefill, isPrefill, attention
<1>2. ASSUME ~isPrefill PROVE attention.phase # "prefill"
  BY <1>2 DEF IInv, PhaseFits
<1> QED BY <1>1, <1>2

LEMMA AttentionInv == ASSUME IInv, Attention PROVE IInv'
<1> DEFINE G == Generated(IF attention.phase = "prefill" THEN PrefillAttention(attention) ELSE DecodeAttention(attention))
           C == IF isPrefill THEN ConnectPrefillAttention(G) ELSE ConnectDecodeAttention(G)
           T == Terminals(C)
           N == trace \o C
<1>1. /\ pc = "attention" /\ block = <<>> /\ block' = C /\ next_id' = next_id + Len(G) /\ pc' = "o_projection"
      /\ workload' = workload /\ trace' = trace /\ layer' = layer
      /\ ids' = [ids EXCEPT !.terminals = Ids(T), !.contexts = UNION {r.outputs : r \in T}]
  BY DEF Attention, Emit
<1>2. Stage(isMoE, N, next_id + Len(G), layer) /\ IsList(C) /\ OwnSources(isMoE, C)
  <2>1. isPrefill <=> attention.phase = "prefill"
    BY DispatchFits
  <2>2. CASE isPrefill
    BY <1>1, <2>1, <2>2, PrefillStage
  <2>3. CASE ~isPrefill
    BY <1>1, <2>1, <2>3, DecodeStage
  <2> QED BY <2>2, <2>3
<1> HIDE DEF G, C
<1>3. T \subseteq Range(C)
  BY DEF Terminals
<1> HIDE DEF T
<1>4. IsList(trace)
  BY <1>1, BeforeBlock
<1>5. \A r \in Range(C) : Known(N, r.record_id) /\ \A t \in r.outputs : Made(N, t)
  BY <1>2, <1>4, RangeKnown
<1> DEFINE terminals == Ids(T)
           contexts == UNION {r.outputs : r \in T}
<1>6. \A x \in terminals : Known(N, x)
  BY <1>3, <1>5 DEF Ids
<1>7. \A t \in contexts : Made(N, t) /\ SourceOf(isMoE, t) = t
  BY <1>2, <1>3, <1>5 DEF OwnSources
<1>8. ids' = [ids EXCEPT !.terminals = terminals, !.contexts = contexts]
  BY <1>1
<1> HIDE DEF terminals, contexts, N
<1>9. IsIds(ids') /\ ids'.terminals = terminals /\ ids'.contexts = contexts
  <2>1. IsIds(ids)
    BY DEF IInv
  <2>2. ids' = [q |-> ids.q, k |-> ids.k, v |-> ids.v, k_write |-> ids.k_write, v_write |-> ids.v_write, o |-> ids.o,
                terminals |-> terminals, contexts |-> contexts]
    BY <1>8, <2>1 DEF IsIds
  <2> QED BY <2>2 DEF IsIds
<1>10. Ready(N, "o_projection", ids', layer, isMoE)
  BY <1>6, <1>7, <1>9 DEF Ready
<1> QED BY <1>1, <1>2, <1>9, <1>10, AfterBlock DEF N
(* Appending the next record of the block leaves the whole as it was.      *)
LEMMA Extended ==
  ASSUME IInv, Extend
  PROVE  /\ IsList(trace') /\ IsList(block') /\ trace' \o block' = trace \o block
         /\ Len(trace') = Len(trace) + 1 /\ Len(trace) \in Nat /\ trace'[Len(trace')] = Head(block)
         /\ Range(trace') = Range(trace) \cup {Head(block)}
         /\ Len(trace) + 1 \in 1 .. Len(trace \o block) /\ (trace \o block)[Len(trace) + 1] = Head(block)
         /\ \A i \in 1 .. Len(trace) : (trace \o block)[i] = trace[i]
<1> DEFINE e == Head(block)
           q == Tail(block)
<1>1. block # <<>> /\ trace' = Append(trace, e) /\ block' = q
  BY DEF Extend
<1>2. IsList(trace) /\ IsList(block) /\ Len(trace) \in Nat
  BY ListIs DEF IInv
<1>3. IsList(q) /\ block = <<e>> \o q /\ Len(block) \in Nat /\ Len(block) > 0 /\ block[1] = e
  <2>1. PICK S : block \in Seq(S)
    BY <1>2 DEF IsList
  <2>2. q \in Seq(S) /\ e \in S /\ Len(block) \in Nat /\ Len(block) > 0 /\ block[1] = e
    BY <1>1, <2>1
  <2>3. block = <<e>> \o q
    BY <1>1, <2>1
  <2> QED BY <2>2, <2>3 DEF IsList
<1> HIDE DEF e, q
<1>4. /\ trace' = trace \o <<e>> /\ IsList(<<e>>) /\ Len(<<e>>) = 1 /\ <<e>>[1] = e
      /\ IsList(trace') /\ Len(trace') = Len(trace) + 1
  BY <1>1, <1>2, ListAppend
<1>5. trace' \o block' = trace \o block
  <2> DEFINE u == <<e>>
  <2>1. IsList(u) /\ IsList(trace) /\ IsList(q)
    BY <1>2, <1>3, <1>4
  <2>2. trace' = trace \o u /\ block = u \o q /\ block' = q
    BY <1>1, <1>3, <1>4
  <2> HIDE DEF u
  <2>3. (trace \o u) \o q = trace \o (u \o q)
    BY <2>1, ConcatAssociates
  <2> QED BY <2>2, <2>3
<1>6. Range(trace') = Range(trace) \cup {e} /\ trace'[Len(trace) + 1] = e
  <2>1. 1 \in 1 .. Len(<<e>>)
    BY <1>4
  <2>2. Range(trace \o <<e>>) = Range(trace) \cup Range(<<e>>) /\ (trace \o <<e>>)[Len(trace) + 1] = <<e>>[1]
    BY <1>2, <1>4, <2>1, ListConcat
  <2>3. Range(<<e>>) = {e}
    BY DEF Range
  <2> QED BY <1>4, <2>2, <2>3
<1>7. /\ Len(trace \o block) = Len(trace) + Len(block)
      /\ \A i \in 1 .. Len(trace) : (trace \o block)[i] = trace[i]
      /\ \A i \in 1 .. Len(block) : (trace \o block)[Len(trace) + i] = block[i]
  BY <1>2, ListConcat
<1>8. 1 \in 1 .. Len(block) /\ Len(trace) + 1 \in 1 .. Len(trace \o block)
  BY <1>2, <1>3, <1>7
<1> QED BY <1>1, <1>2, <1>3, <1>4, <1>5, <1>6, <1>7, <1>8 DEF e

LEMMA ExtendInv == ASSUME IInv, Extend PROVE IInv'
<1>1. /\ workload' = workload /\ layer' = layer /\ pc' = pc /\ next_id' = next_id /\ ids' = ids
  BY DEF Extend
<1>2. IsList(trace') /\ IsList(block') /\ trace' \o block' = trace \o block
  BY Extended
<1>3. isMoE' = isMoE /\ Accepted' /\ PhaseFits'
  BY <1>1 DEF isMoE, IInv, Accepted, Supported, PhaseFits, isPrefill, attention
<1> QED BY <1>1, <1>2, <1>3 DEF IInv

(* The invariant is one: no record in a trace comes twice or before what   *)
(* it depends on and takes, for all workloads the generators accept whose  *)
(* phase fits.                                                             *)
LEMMA NextInv == IInv /\ [Next]_vars => IInv'
<1> SUFFICES ASSUME IInv, [Next]_vars PROVE IInv'
  OBVIOUS
<1>1. CASE LayerStart
  BY <1>1, LayerStartInv
<1>2. CASE Projections
  BY <1>2, ProjectionsInv
<1>3. CASE CacheWrites
  BY <1>3, CacheWritesInv
<1>4. CASE Attention
  BY <1>4, AttentionInv
<1>5. CASE OutputProjection
  BY <1>5, OutputProjectionInv
<1>6. CASE FeedForward
  BY <1>6, FeedForwardInv
<1>7. CASE LayerTransition
  BY <1>7, LayerTransitionInv
<1>8. CASE FinalDrain
  BY <1>8, FinalDrainInv
<1>9. CASE Extend
  BY <1>9, ExtendInv
<1>10. CASE UNCHANGED vars
  BY <1>10 DEF IInv, vars, isMoE, Accepted, Supported, PhaseFits, isPrefill, attention
<1> QED BY <1>1, <1>2, <1>3, <1>4, <1>5, <1>6, <1>7, <1>8, <1>9, <1>10 DEF Next

(***************************************************************************)
(* The refinement.                                                         *)
(***************************************************************************)
Current == IF trace = <<>> THEN Drain ELSE [Last(trace) EXCEPT !.inputs = Operands(Last(trace))]
Performed == Ids(Range(trace))
MadeSoFar == UNION {r.outputs : r \in Range(trace)}

LEMMA ExtendPerforms == ASSUME IInv, Extend PROVE Graph!Perform
<1> DEFINE N == trace \o block
           k == Len(trace) + 1
           e == Head(block)
           o == {SourceOf(isMoE, t) : t \in e.inputs}
<1>1. /\ IsList(trace') /\ Len(trace') = k /\ Len(trace) \in Nat /\ trace'[k] = e
      /\ Range(trace') = Range(trace) \cup {e} /\ k \in 1 .. Len(N) /\ N[k] = e
      /\ \A i \in 1 .. k - 1 : N[i] = trace[i]
  BY Extended
<1>2. isMoE' = isMoE
  BY DEF Extend, isMoE
<1>3. Linked(isMoE, N) /\ IsList(trace)
  BY DEF IInv, Stage
<1> HIDE DEF N
<1>4. Arrives(isMoE, <<>>, N, k)
  BY <1>1, <1>3 DEF Linked
<1> HIDE DEF e, k
<1>5. IsRecord(e) /\ e.record_id \in Nat
  BY <1>1, <1>4 DEF Arrives
<1>6. k - 1 = Len(trace)
  BY <1>1 DEF k
<1>7. \A r : r \in Range(trace) <=> \E i \in 1 .. k - 1 : N[i] = r
  BY <1>1, <1>3, <1>6, ListIs
<1>8. \A r \in Range(trace) : r.record_id < e.record_id
  BY <1>1, <1>4, <1>7 DEF Arrives
<1>9. e.record_id \notin Performed
  <2> SUFFICES ASSUME NEW r \in Range(trace), r.record_id = e.record_id PROVE FALSE
    BY DEF Performed, Ids
  <2> QED BY <1>5, <1>8
<1>10. e.logical_dependencies \subseteq Performed
  <2> SUFFICES ASSUME NEW d \in e.logical_dependencies PROVE \E r \in Range(trace) : r.record_id = d
    BY DEF Performed, Ids
  <2>1. ~Known(<<>>, d)
    BY EmptyList DEF Known
  <2>2. \E i \in 1 .. k - 1 : N[i].record_id = d
    BY <1>1, <1>4, <2>1 DEF Arrives
  <2> QED BY <1>7, <2>2
<1>11. \A t \in o : Given(t) \/ t \in MadeSoFar
  <2> SUFFICES ASSUME NEW t \in e.inputs PROVE Given(SourceOf(isMoE, t)) \/ SourceOf(isMoE, t) \in MadeSoFar
    OBVIOUS
  <2> DEFINE s == SourceOf(isMoE, t)
  <2>1. ~Made(<<>>, s)
    BY EmptyList DEF Made
  <2>2. Given(s) \/ \E i \in 1 .. k - 1 : s \in N[i].outputs
    BY <1>1, <1>4, <2>1 DEF Arrives, Reaches
  <2> HIDE DEF s
  <2>3. ASSUME NEW i \in 1 .. k - 1, s \in N[i].outputs PROVE s \in MadeSoFar
    <3>1. N[i] \in Range(trace)
      BY <1>7
    <3> QED BY <2>3, <3>1 DEF MadeSoFar
  <2> QED BY <2>2, <2>3 DEF s
<1>12. Performed' = Performed \cup {e.record_id}
  BY <1>1 DEF Performed, Ids
<1>13. MadeSoFar \cup e.outputs \subseteq MadeSoFar'
  BY <1>1 DEF MadeSoFar
<1>14. Last(trace') = e /\ trace' # <<>>
  <2>1. Len(trace') # 0
    BY <1>1 DEF k
  <2> QED BY <1>1, <2>1, EmptyList DEF Last
<1>15. \A t : Source(t)' = SourceOf(isMoE, t)
  BY <1>2 DEF Source, SourceOf, Result, ResultOf
<1>16. Operands(Last(trace))' = o
  <2>1. (Last(trace))' = e
    BY <1>14
  <2> QED BY <1>15, <2>1 DEF Operands
<1> HIDE DEF o
<1>17. Current' = [e EXCEPT !.inputs = o]
  BY <1>14, <1>16 DEF Current
<1>18. Shape([e EXCEPT !.inputs = o], e.record_id, e.kind, e.op, o, e.outputs, e.logical_dependencies)
  BY <1>5, ReplaceField
<1>19. /\ Current'.record_id = e.record_id /\ Current'.logical_dependencies = e.logical_dependencies
       /\ Current'.inputs = o /\ Current'.outputs = e.outputs
  BY <1>17, <1>18 DEF Shape
<1>20. /\ Current'.record_id \notin Performed /\ Current'.logical_dependencies \subseteq Performed
       /\ (\A t \in Current'.inputs : Given(t) \/ t \in MadeSoFar)
       /\ Performed' = Performed \cup {Current'.record_id}
       /\ MadeSoFar \cup Current'.outputs \subseteq MadeSoFar'
  BY <1>9, <1>10, <1>11, <1>12, <1>13, <1>19
<1> QED BY <1>20 DEF Graph!Perform, Current, Performed, MadeSoFar

LEMMA Stutters ==
  ASSUME workload' = workload, trace' = trace
  PROVE  UNCHANGED <<Current, Performed, MadeSoFar>>
BY DEF Current, Performed, MadeSoFar, Operands, Source, Result, isMoE

(* For every workload a generator accepts (decoding or prefill, dense or   *)
(* with a mixture of experts, any number of layers, heads, tiles and       *)
(* experts, overlapped or not) whose attention is of the phase that the    *)
(* generator connects, the generated trace is an execution of the tensor   *)
(* graph, read in the order it is written.                                 *)
THEOREM AlwaysImplementsTensorGraph == Spec /\ PhaseFits => ImplementsTensorGraph
<1>1. Init => Graph!Init
  BY DEF Init, Graph!Init, Ids, Range
<1>2. IInv /\ [Next]_vars => [Graph!Perform]_<<Current, Performed, MadeSoFar>>
  <2> SUFFICES ASSUME IInv, [Next]_vars PROVE [Graph!Perform]_<<Current, Performed, MadeSoFar>>
    OBVIOUS
  <2>1. CASE Extend
    BY <2>1, ExtendPerforms
  <2>2. CASE workload' = workload /\ trace' = trace
    BY <2>2, Stutters
  <2>3. Extend \/ (workload' = workload /\ trace' = trace)
    BY DEF Next, LayerStart, Projections, CacheWrites, Attention, OutputProjection, FeedForward, LayerTransition,
           FinalDrain, Emit, vars
  <2> QED BY <2>1, <2>2, <2>3
<1>3. IInv /\ [Next]_vars =>
        [Graph!Perform]_<<IF trace = <<>> THEN Drain ELSE [Last(trace) EXCEPT !.inputs = Operands(Last(trace))],
                          Ids(Range(trace)), UNION {r.outputs : r \in Range(trace)}>>
  BY <1>2 DEF Current, Performed, MadeSoFar
<1> QED BY <1>1, <1>3, InitInv, NextInv, PTL DEF Spec, ImplementsTensorGraph, Graph!Spec

(***************************************************************************)
(* Overlapping only reorders a block. A round of a loop adds to a block's  *)
(* shapes a set that does not depend on what was appended before it, so    *)
(* the shapes of a block are the union over its rounds, in any order.      *)
(***************************************************************************)
(* What the records that c[j] depends on make, when c follows L, and its   *)
(* shape.                                                                  *)
Outputs(L, c, deps) == UNION {At(L, c, d).outputs : d \in deps}
ShapeIn(L, c, j) == <<c[j].op, c[j].inputs, c[j].outputs, Outputs(L, c, c[j].logical_dependencies)>>

(* What makes a tensor makes no other, but a softmax makes the             *)
(* probabilities of all the tiles of a head. Attention is of its own kind. *)
Pure(r) ==
  /\ (\E t : r.outputs = {t}) \/ \A t \in r.outputs : t.name = "probability"
  /\ r.op \in {"AttentionScore", "AttentionContext"} => r.kind = r.op

Follows(L, c, j) ==
  /\ c[j].record_id = Len(L) + j - 1 /\ c[j].logical_dependencies \subseteq 0 .. Len(L) + j - 2
  /\ Pure(c[j])
Numbered(L) == IsList(L) /\ \A i \in 1 .. Len(L) : Follows(<<>>, L, i)

(* The records c add the shapes S to a block, and a block that grew to M.  *)
Adds(L, c, S) ==
  IsList(c) /\ (\A j \in 1 .. Len(c) : Follows(L, c, j)) /\ S = {ShapeIn(L, c, j) : j \in 1 .. Len(c)}
Grows(L, M, S) == Numbered(M) /\ Continues(M, L) /\ Shapes(M) = Shapes(L) \cup S

LEMMA NumberedIds ==
  ASSUME NEW L, Numbered(L)
  PROVE  /\ IsList(L) /\ Len(L) \in Nat
         /\ \A i \in 1 .. Len(L) : /\ L[i] \in Range(L) /\ L[i].record_id = i - 1
                                   /\ L[i].logical_dependencies \subseteq 0 .. i - 2 /\ Pure(L[i])
         /\ \A r \in Range(L) : \E i \in 1 .. Len(L) : L[i] = r
         /\ \A d : At(<<>>, L, d) = IF d < 0 THEN <<>>[d + 1] ELSE L[d - 0 + 1]
<1>1. IsList(L) /\ Len(L) \in Nat /\ Len(<<>>) = 0 /\ \A i \in 1 .. Len(L) : Follows(<<>>, L, i)
  BY ListIs, EmptyList DEF Numbered
<1>2. \A i \in 1 .. Len(L) : L[i].record_id = i - 1 /\ L[i].logical_dependencies \subseteq 0 .. i - 2 /\ Pure(L[i])
  BY <1>1 DEF Follows
<1>3. \A d : At(<<>>, L, d) = IF d < 0 THEN <<>>[d + 1] ELSE L[d - 0 + 1]
  BY <1>1 DEF At
<1> QED BY <1>1, <1>2, <1>3, ListIs

(* The shapes of a block are those of its records, one by one.             *)
LEMMA ShapesAre ==
  ASSUME NEW L, Numbered(L)
  PROVE  \A s : s \in Shapes(L) <=> \E i \in 1 .. Len(L) : s = ShapeIn(<<>>, L, i)
<1> DEFINE Deps(r) == {x \in Range(L) : x.record_id \in r.logical_dependencies}
           Of(r) == <<r.op, r.inputs, r.outputs, UNION {d.outputs : d \in Deps(r)}>>
<1>1. /\ Len(L) \in Nat
      /\ \A i \in 1 .. Len(L) : /\ L[i] \in Range(L) /\ L[i].record_id = i - 1
                                /\ L[i].logical_dependencies \subseteq 0 .. i - 2
      /\ \A r \in Range(L) : \E i \in 1 .. Len(L) : L[i] = r
      /\ \A d : At(<<>>, L, d) = IF d < 0 THEN <<>>[d + 1] ELSE L[d - 0 + 1]
  BY NumberedIds
<1>2. \A d \in Nat : At(<<>>, L, d) = L[d + 1]
  BY <1>1
<1>3. ASSUME NEW i \in 1 .. Len(L)
      PROVE  UNION {d.outputs : d \in Deps(L[i])} = Outputs(<<>>, L, L[i].logical_dependencies)
  <2>1. ASSUME NEW x \in Deps(L[i]) PROVE \E d \in L[i].logical_dependencies : At(<<>>, L, d) = x
    <3>1. PICK k \in 1 .. Len(L) : L[k] = x
      BY <1>1
    <3>2. k - 1 \in L[i].logical_dependencies /\ k - 1 \in Nat /\ (k - 1) + 1 = k
      BY <1>1, <3>1
    <3>3. At(<<>>, L, k - 1) = L[(k - 1) + 1]
      BY <1>2, <3>2
    <3> QED BY <3>1, <3>2, <3>3
  <2>2. ASSUME NEW d \in L[i].logical_dependencies PROVE At(<<>>, L, d) \in Deps(L[i])
    <3>1. d \in 0 .. i - 2
      BY <1>1
    <3>2. d \in Nat /\ d + 1 \in 1 .. Len(L) /\ (d + 1) - 1 = d
      BY <1>1, <3>1
    <3>3. At(<<>>, L, d) = L[d + 1] /\ L[d + 1] \in Range(L) /\ L[d + 1].record_id = d
      BY <1>1, <1>2, <3>2
    <3> QED BY <3>3
  <2> HIDE DEF Deps
  <2> QED BY <2>1, <2>2 DEF Outputs
<1>4. Shapes(L) = {Of(r) : r \in Range(L)}
  BY DEF Shapes
<1>5. \A i \in 1 .. Len(L) : Of(L[i]) = ShapeIn(<<>>, L, i)
  BY <1>3 DEF ShapeIn
<1> HIDE DEF Of
<1> QED BY <1>1, <1>4, <1>5

(* A tensor was made if a shape says so.                                   *)
LEMMA MadeShape ==
  ASSUME NEW L, Numbered(L), NEW s, s \in Shapes(L), NEW t, t \in s[3]
  PROVE  Made(L, t)
<1>1. PICK i \in 1 .. Len(L) : s = ShapeIn(<<>>, L, i)
  BY ShapesAre
<1>2. s[3] = L[i].outputs
  BY <1>1 DEF ShapeIn
<1> QED BY <1>2 DEF Made

(* The makers of tensors make nothing else, unless they are probabilities. *)
LEMMA MakersMake ==
  ASSUME NEW L, Numbered(L), NEW tensors, \A t \in tensors : Made(L, t) /\ t.name # "probability", NEW c
  PROVE  /\ Ids(Makers(L, tensors)) \subseteq 0 .. Len(L) - 1
         /\ Outputs(L, c, Ids(Makers(L, tensors))) = tensors
<1> DEFINE ids0 == Ids(Makers(L, tensors))
<1>1. /\ Len(L) \in Nat
      /\ \A i \in 1 .. Len(L) : L[i] \in Range(L) /\ L[i].record_id = i - 1 /\ Pure(L[i])
      /\ \A r \in Range(L) : \E i \in 1 .. Len(L) : L[i] = r
  BY NumberedIds
<1>2. \A d : d \in ids0 <=> \E r \in Range(L) : r.record_id = d /\ r.outputs \cap tensors # {}
  BY DEF Ids, Makers
<1> HIDE DEF ids0
<1>3. ASSUME NEW d \in ids0
      PROVE  d \in 0 .. Len(L) - 1 /\ At(L, c, d) = L[d + 1] /\ L[d + 1].outputs \subseteq tensors
  <2>1. PICK r \in Range(L) : r.record_id = d /\ r.outputs \cap tensors # {}
    BY <1>2
  <2>2. PICK i \in 1 .. Len(L) : L[i] = r
    BY <1>1
  <2>3. d = i - 1 /\ d \in 0 .. Len(L) - 1 /\ d + 1 = i
    BY <1>1, <2>1, <2>2
  <2>4. Pure(r)
    BY <1>1, <2>2
  <2>5. r.outputs \subseteq tensors
    BY <2>1, <2>4 DEF Pure
  <2> QED BY <1>1, <2>2, <2>3, <2>5 DEF At
<1>4. ASSUME NEW t \in tensors PROVE \E d \in ids0 : t \in At(L, c, d).outputs
  <2>1. PICK i \in 1 .. Len(L) : t \in L[i].outputs
    BY DEF Made
  <2>2. i - 1 \in ids0 /\ (i - 1) + 1 = i
    BY <1>1, <1>2, <2>1
  <2>3. At(L, c, i - 1) = L[(i - 1) + 1]
    BY <1>3, <2>2
  <2> QED BY <2>1, <2>2, <2>3
<1>5. Outputs(L, c, ids0) = tensors
  BY <1>3, <1>4 DEF Outputs
<1> QED BY <1>3, <1>5 DEF ids0

LEMMA AddsGrows ==
  ASSUME NEW L, Numbered(L), NEW c, NEW S, Adds(L, c, S)
  PROVE  Grows(L, L \o c, S)
<1> DEFINE M == L \o c
<1>0. IsList(L) /\ Len(L) \in Nat /\ IsList(c) /\ Len(c) \in Nat
  BY NumberedIds, ListIs DEF Adds
<1>1. /\ IsList(M) /\ Len(M) = Len(L) + Len(c)
      /\ \A i \in 1 .. Len(L) : M[i] = L[i]
      /\ \A i \in 1 .. Len(c) : M[Len(L) + i] = c[i]
  BY <1>0, ListConcat
<1>c. Continues(M, L)
  BY <1>0, ContinuesConcat
<1>e. Len(<<>>) = 0
  BY EmptyList
<1> HIDE DEF M
<1>2. ASSUME NEW i \in 1 .. Len(L) PROVE Follows(<<>>, M, i) /\ ShapeIn(<<>>, M, i) = ShapeIn(<<>>, L, i)
  <2>1. Follows(<<>>, L, i) /\ M[i] = L[i] /\ i \in 1 .. Len(M)
    BY <1>0, <1>1 DEF Numbered
  <2>2. Follows(<<>>, M, i) /\ L[i].logical_dependencies \subseteq 0 .. i - 2
    BY <2>1, <1>e DEF Follows
  <2>3. \A d \in L[i].logical_dependencies : At(<<>>, M, d) = At(<<>>, L, d)
    <3>1. \A d \in 0 .. i - 2 : d + 1 \in 1 .. Len(L) /\ ~(d < 0) /\ d - 0 + 1 = d + 1
      BY <1>0
    <3>2. \A d \in 0 .. i - 2 : At(<<>>, M, d) = M[d + 1] /\ At(<<>>, L, d) = L[d + 1]
      BY <3>1, <1>e DEF At
    <3> QED BY <2>2, <3>1, <3>2, <1>1
  <2>4. Outputs(<<>>, M, L[i].logical_dependencies) = Outputs(<<>>, L, L[i].logical_dependencies)
    BY <2>3 DEF Outputs
  <2> QED BY <2>1, <2>2, <2>4 DEF ShapeIn
<1>3. ASSUME NEW j \in 1 .. Len(c)
      PROVE  Follows(<<>>, M, Len(L) + j) /\ ShapeIn(<<>>, M, Len(L) + j) = ShapeIn(L, c, j)
  <2> DEFINE i == Len(L) + j
  <2>1. Follows(L, c, j) /\ M[i] = c[j] /\ i \in 1 .. Len(M) /\ i \in Nat
    BY <1>0, <1>1 DEF Adds
  <2>2. Follows(<<>>, M, i) /\ c[j].logical_dependencies \subseteq 0 .. i - 2
    <3>1. /\ c[j].record_id = Len(L) + j - 1 /\ c[j].logical_dependencies \subseteq 0 .. Len(L) + j - 2
          /\ Pure(c[j])
      BY <2>1 DEF Follows
    <3>2. Len(<<>>) + i - 1 = Len(L) + j - 1 /\ Len(<<>>) + i - 2 = Len(L) + j - 2 /\ i - 2 = Len(L) + j - 2
      BY <2>1, <1>e, <1>0
    <3>3. /\ M[i].record_id = Len(<<>>) + i - 1 /\ M[i].logical_dependencies \subseteq 0 .. Len(<<>>) + i - 2
          /\ Pure(M[i])
      BY <2>1, <3>1, <3>2
    <3> QED BY <3>1, <3>2, <3>3 DEF Follows
  <2>3. ASSUME NEW d \in 0 .. i - 2 PROVE At(<<>>, M, d) = At(L, c, d)
    <3>1. At(<<>>, M, d) = M[d + 1]
      BY <1>e, <2>1 DEF At
    <3>2. CASE d < Len(L)
      BY <3>1, <3>2, <1>0, <1>1 DEF At
    <3>3. CASE ~(d < Len(L))
      <4>1. d - Len(L) + 1 \in 1 .. Len(c) /\ Len(L) + (d - Len(L) + 1) = d + 1
        BY <3>3, <1>0
      <4>2. M[d + 1] = c[d - Len(L) + 1]
        BY <4>1, <1>1
      <4> QED BY <3>1, <3>3, <4>2 DEF At
    <3> QED BY <3>2, <3>3
  <2> HIDE DEF i
  <2>4. Outputs(<<>>, M, c[j].logical_dependencies) = Outputs(L, c, c[j].logical_dependencies)
    BY <2>2, <2>3 DEF Outputs
  <2> QED BY <2>1, <2>2, <2>4 DEF ShapeIn, i
<1>4. ASSUME NEW i \in 1 .. Len(M) PROVE i \in 1 .. Len(L) \/ \E j \in 1 .. Len(c) : i = Len(L) + j
  <2>1. i \in 1 .. Len(L) \/ i - Len(L) \in 1 .. Len(c)
    BY <1>0, <1>1
  <2>2. i = Len(L) + (i - Len(L))
    BY <1>0
  <2> QED BY <2>1, <2>2
<1>5. Numbered(M)
  <2>1. \A i \in 1 .. Len(M) : Follows(<<>>, M, i)
    BY <1>2, <1>3, <1>4
  <2> QED BY <1>1, <2>1 DEF Numbered
<1>6. \A s : s \in Shapes(M) <=> \E i \in 1 .. Len(M) : s = ShapeIn(<<>>, M, i)
  BY <1>5, ShapesAre
<1>7. \A s : s \in Shapes(L) <=> \E i \in 1 .. Len(L) : s = ShapeIn(<<>>, L, i)
  BY ShapesAre
<1>8. \A s : s \in S <=> \E j \in 1 .. Len(c) : s = ShapeIn(L, c, j)
  BY DEF Adds
<1>9. \A i \in 1 .. Len(L) : i \in 1 .. Len(M)
  BY <1>0, <1>1
<1>10. \A j \in 1 .. Len(c) : Len(L) + j \in 1 .. Len(M)
  BY <1>0, <1>1
<1>11. ASSUME NEW s \in Shapes(M) PROVE s \in Shapes(L) \cup S
  <2>1. PICK i \in 1 .. Len(M) : s = ShapeIn(<<>>, M, i)
    BY <1>6
  <2>2. CASE i \in 1 .. Len(L)
    BY <2>1, <2>2, <1>2, <1>7
  <2>3. CASE \E j \in 1 .. Len(c) : i = Len(L) + j
    BY <2>1, <2>3, <1>3, <1>8
  <2> QED BY <2>2, <2>3, <1>4
<1>12. ASSUME NEW s \in Shapes(L) \cup S PROVE s \in Shapes(M)
  <2>1. CASE s \in Shapes(L)
    BY <2>1, <1>2, <1>6, <1>7, <1>9
  <2>2. CASE s \in S
    BY <2>2, <1>3, <1>6, <1>8, <1>10
  <2> QED BY <2>1, <2>2
<1>13. Shapes(M) = Shapes(L) \cup S
  BY <1>11, <1>12
<1> QED BY <1>5, <1>13, <1>c DEF Grows, M

LEMMA GrowsTransitive ==
  ASSUME NEW L, NEW M, NEW N, NEW S, NEW T, Numbered(L), Grows(L, M, S), Grows(M, N, T)
  PROVE  Grows(L, N, S \cup T)
<1>1. IsList(L)
  BY DEF Numbered
<1>2. Continues(N, L)
  BY <1>1, ContinuesTransitive DEF Grows
<1> QED BY <1>2 DEF Grows

LEMMA AppendGrows ==
  ASSUME NEW L, Numbered(L), NEW r, Follows(L, <<r>>, 1)
  PROVE  /\ Grows(L, Append(L, r), {ShapeIn(L, <<r>>, 1)})
         /\ Len(Append(L, r)) = Len(L) + 1 /\ Append(L, r)[Len(L) + 1] = r
<1>1. IsList(L) /\ Len(L) \in Nat
  BY NumberedIds
<1>2. Append(L, r) = L \o <<r>> /\ IsList(<<r>>) /\ Len(<<r>>) = 1 /\ <<r>>[1] = r
  BY <1>1, ListAppend
<1> DEFINE c == <<r>>
<1>3. c = <<r>>
  OBVIOUS
<1> HIDE DEF c
<1>4. Adds(L, c, {ShapeIn(L, c, 1)})
  <2>1. \A j \in 1 .. Len(c) : j = 1
    BY <1>2, <1>3
  <2>2. 1 \in 1 .. Len(c)
    BY <1>2, <1>3
  <2>3. {ShapeIn(L, c, 1)} = {ShapeIn(L, c, j) : j \in 1 .. Len(c)}
    BY <2>1, <2>2
  <2> QED BY <1>2, <1>3, <2>1, <2>3 DEF Adds
<1>5. Grows(L, L \o c, {ShapeIn(L, c, 1)})
  BY <1>4, AddsGrows
<1>6. Len(L \o <<r>>) = Len(L) + 1 /\ (L \o <<r>>)[Len(L) + 1] = r
  <2>1. 1 \in 1 .. Len(<<r>>)
    BY <1>2
  <2> QED BY <1>1, <1>2, <2>1, ContinuesConcat
<1> QED BY <1>2, <1>3, <1>5, <1>6

(* Every round of a loop adds shapes of its own.                           *)
Draws(records, chunk, shapes, n) ==
  \A i \in 1 .. n : \A L : Numbered(L) /\ Continues(L, records) => Adds(L, chunk[<<i, Len(L)>>], shapes[i])

LEMMA EachGrows ==
  ASSUME NEW records, NEW chunk, NEW shapes, NEW n \in Nat, Numbered(records), Draws(records, chunk, shapes, n)
  PROVE  Grows(records, AppendEach(records, chunk, n), UNION {shapes[i] : i \in 1 .. n})
<1>0. PICK a : IsLoop(a, records, chunk, n)
  BY AppendEachIs
<1>1. /\ a[0] = records /\ AppendEach(records, chunk, n) = a[n]
      /\ \A i \in 1 .. n : a[i] = a[i - 1] \o chunk[<<i, Len(a[i - 1])>>]
  BY <1>0 DEF IsLoop
<1> DEFINE All(k) == UNION {shapes[i] : i \in 1 .. k}
           P(k) == Grows(records, a[k], All(k))
           T == {k \in Nat : k <= n => P(k)}
<1>2. 0 \in T
  <2>1. Continues(records, records)
    BY NumberedIds DEF Continues
  <2>2. All(0) = {}
    OBVIOUS
  <2>3. Grows(records, records, {})
    BY <2>1 DEF Grows
  <2>4. Grows(records, a[0], All(0))
    BY <1>1, <2>2, <2>3
  <2> QED BY <2>4
<1>3. ASSUME NEW k \in Nat, k \in T PROVE k + 1 \in T
  <2> SUFFICES ASSUME k + 1 <= n PROVE P(k + 1)
    OBVIOUS
  <2> DEFINE L == a[k]
             c == chunk[<<k + 1, Len(a[k])>>]
             M == a[k + 1]
  <2>1. Grows(records, L, All(k)) /\ k + 1 \in 1 .. n
    BY <1>3
  <2>2. M = L \o c
    <3>1. (k + 1) - 1 = k
      OBVIOUS
    <3>2. a[k + 1] = a[(k + 1) - 1] \o chunk[<<k + 1, Len(a[(k + 1) - 1])>>]
      BY <2>1, <1>1, Zenon
    <3> QED BY <3>1, <3>2, Zenon
  <2>3. Numbered(L) /\ Continues(L, records)
    BY <2>1 DEF Grows
  <2>4. Adds(L, c, shapes[k + 1])
    BY <2>1, <2>3 DEF Draws
  <2>5. All(k + 1) = All(k) \cup shapes[k + 1]
    <3>1. \A i : i \in 1 .. k + 1 <=> i \in 1 .. k \/ i = k + 1
      OBVIOUS
    <3> QED BY <3>1
  <2> HIDE DEF L, c, M, All
  <2>6. Grows(L, M, shapes[k + 1])
    BY <2>2, <2>3, <2>4, AddsGrows
  <2>7. Grows(records, M, All(k) \cup shapes[k + 1])
    BY <2>1, <2>6, GrowsTransitive
  <2> QED BY <2>5, <2>7 DEF M
<1>4. n \in T
  <2> HIDE DEF T
  <2>1. \A k \in Nat : k \in T => k + 1 \in T
    BY <1>3
  <2> QED BY <1>2, <2>1, InductionSet
<1>5. P(n)
  BY <1>4
<1> QED BY <1>1, <1>5

(* The shapes a head adds when it is scored, and when it is weighed. They  *)
(* depend on the number of its tiles, and on nothing else.                 *)
PerTile(n, name, head) == {Tensor(name, head, i, 0) : i \in 1 .. n}

TileScored(head, i) ==
  LET Q == Visible(Tensor("Q", head, 0, 0))
      K == Tensor("K.tile", head, i, 0)
      R == Placed(K, "resident")
  IN  {<<"kv_cache_k_tile_read", {K}, {R}, {}>>,
       <<"AttentionScore", {Q, R}, {Tensor("score", head, i, 0)}, {Q, R}>>}
ScoreShapes(n, head) ==
  LET Q == Tensor("Q", head, 0, 0)
  IN  {<<"q_operand_residency", {Q}, {Visible(Q)}, {}>>} \cup UNION {TileScored(head, i) : i \in 1 .. n}

TileWeighed(head, i, probabilities) ==
  LET P == Tensor("probability", head, i, 0)
      V == Tensor("V.tile", head, i, 0)
      R == Placed(V, "resident")
  IN  {<<"attention_probability_residency", {P}, {Visible(P)}, probabilities>>,
       <<"kv_cache_v_tile_read", {V}, {R}, probabilities>>,
       <<"AttentionContext", {Visible(P), R}, {Tensor("context", head, i, 0)}, {Visible(P), R} \cup probabilities>>}
ReductionShapes(contexts, output) ==
  {s \in {<<"attention_context_reduction_accounting", contexts, {output}, contexts>>} : Cardinality(contexts) > 1}
WeighShapes(n, head) ==
  LET scores        == PerTile(n, "score", head)
      probabilities == PerTile(n, "probability", head)
  IN  {<<"attention_softmax_accounting", scores, probabilities, scores>>}
      \cup (UNION {TileWeighed(head, i, probabilities) : i \in 1 .. n})
      \cup ReductionShapes(PerTile(n, "context", head), Tensor("context_reduced", head, 0, 0))

LEMMA ScoreTileAdds ==
  ASSUME NEW m, NEW head, NEW i, NEW query, NEW L, Numbered(L), query \in 0 .. Len(L) - 1,
         L[query + 1].outputs = {Visible(Tensor("Q", head, 0, 0))}
  PROVE  Adds(L, ScoreTile(m, head, i, query, Len(L)), TileScored(head, i))
<1> DEFINE id == Len(L)
           K == Tensor("K.tile", head, i, 0)
           Q == Visible(Tensor("Q", head, 0, 0))
           S == Tensor("score", head, i, 0)
           R == Placed(K, "resident")
           a == CacheRead(id, "kv_cache_k_tile_read", K, {})
           b == AttentionRecord(m, id + 1, "AttentionScore", {Q, R}, S, {query, id}, OneQuery,
                                CacheTiles(m)[i], CacheTiles(m)[i].tokens)
           c == <<a, b>>
<1>1. ScoreTile(m, head, i, query, Len(L)) = c
  BY DEF ScoreTile
<1>2. Shape(a, id, "HostRead", "kv_cache_k_tile_read", {K}, {R}, {})
  BY RecordShape DEF CacheRead
<1>3. Shape(b, id + 1, "AttentionScore", "AttentionScore", {Q, R}, {S}, {query, id})
  BY AttentionShape
<1>s. TileScored(head, i) = {<<"kv_cache_k_tile_read", {K}, {R}, {}>>, <<"AttentionScore", {Q, R}, {S}, {Q, R}>>}
  BY DEF TileScored
<1> HIDE DEF a, b
<1>4. IsList(c) /\ Len(c) = 2 /\ c[1] = a /\ c[2] = b
  BY ListOfTwo
<1>5. Len(L) \in Nat /\ IsList(L)
  BY NumberedIds
<1>q. L[query + 1].outputs = {Q}
  OBVIOUS
<1> HIDE DEF c, K, Q, S, R
<1>6. Len(L) + 1 - 1 = id /\ Len(L) + 2 - 1 = id + 1 /\ {query, id} \subseteq 0 .. Len(L) + 2 - 2
  BY <1>5
<1>7. Follows(L, c, 1)
  BY <1>2, <1>4, <1>6 DEF Follows, Shape, Pure
<1>8. Follows(L, c, 2)
  BY <1>3, <1>4, <1>6 DEF Follows, Shape, Pure
<1>9. ShapeIn(L, c, 1) = <<"kv_cache_k_tile_read", {K}, {R}, {}>>
  BY <1>2, <1>4 DEF Shape, ShapeIn, Outputs
<1>10. ShapeIn(L, c, 2) = <<"AttentionScore", {Q, R}, {S}, {Q, R}>>
  <2>1. ShapeIn(L, c, 2) = <<"AttentionScore", {Q, R}, {S}, Outputs(L, c, {query, id})>>
    BY <1>3, <1>4 DEF Shape, ShapeIn
  <2>2. At(L, c, query) = L[query + 1] /\ At(L, c, id) = c[1]
    BY <1>5 DEF At
  <2>3. c[1].outputs = {R}
    BY <1>2, <1>4 DEF Shape
  <2>4. Outputs(L, c, {query, id}) = At(L, c, query).outputs \cup At(L, c, id).outputs
    BY DEF Outputs
  <2>5. Outputs(L, c, {query, id}) = {Q, R}
    BY <1>q, <2>2, <2>3, <2>4
  <2> QED BY <2>1, <2>5
<1>11. \A j : j \in 1 .. Len(c) <=> j = 1 \/ j = 2
  BY <1>4
<1>12. TileScored(head, i) = {ShapeIn(L, c, j) : j \in 1 .. Len(c)}
  BY <1>9, <1>10, <1>11, <1>s
<1>13. \A j \in 1 .. Len(c) : Follows(L, c, j)
  BY <1>7, <1>8, <1>11
<1> QED BY <1>1, <1>4, <1>12, <1>13 DEF Adds

LEMMA ContextTileAdds ==
  ASSUME NEW m, NEW head, NEW i, NEW softmax, NEW L, Numbered(L), softmax \in 0 .. Len(L) - 1
  PROVE  Adds(L, ContextTile(m, head, i, softmax, Len(L)), TileWeighed(head, i, L[softmax + 1].outputs))
<1> DEFINE id == Len(L)
           P == Tensor("probability", head, i, 0)
           V == Tensor("V.tile", head, i, 0)
           C == Tensor("context", head, i, 0)
           R == Placed(V, "resident")
           U == Visible(P)
           T == L[softmax + 1].outputs
           a == Residency(id, "attention_probability_residency", P, U, {softmax})
           b == CacheRead(id + 1, "kv_cache_v_tile_read", V, {softmax})
           d == AttentionRecord(m, id + 2, "AttentionContext", {U, R}, C, {id, softmax, id + 1}, OneQuery,
                                CacheTiles(m)[i], CacheTiles(m)[i].tokens)
           c == <<a, b, d>>
           s1 == <<"attention_probability_residency", {P}, {U}, T>>
           s2 == <<"kv_cache_v_tile_read", {V}, {R}, T>>
           s3 == <<"AttentionContext", {U, R}, {C}, {U, R} \cup T>>
<1>1. ContextTile(m, head, i, softmax, Len(L)) = c
  BY DEF ContextTile
<1>2. /\ Shape(a, id, "PIMOperandResidency", "attention_probability_residency", {P}, {U}, {softmax})
      /\ Shape(b, id + 1, "HostRead", "kv_cache_v_tile_read", {V}, {R}, {softmax})
  BY RecordShape DEF Residency, CacheRead
<1>3. Shape(d, id + 2, "AttentionContext", "AttentionContext", {U, R}, {C}, {id, softmax, id + 1})
  BY AttentionShape
<1>s. TileWeighed(head, i, T) = {s1, s2, s3}
  BY DEF TileWeighed
<1> HIDE DEF a, b, d
<1>4. IsList(c) /\ Len(c) = 3 /\ c[1] = a /\ c[2] = b /\ c[3] = d
  BY ListOfThree
<1>5. Len(L) \in Nat /\ IsList(L)
  BY NumberedIds
<1>t. L[softmax + 1].outputs = T
  OBVIOUS
<1> HIDE DEF c, P, V, C, R, U, T
<1>6. /\ Len(L) + 1 - 1 = id /\ Len(L) + 2 - 1 = id + 1 /\ Len(L) + 3 - 1 = id + 2
      /\ {softmax} \subseteq 0 .. Len(L) + 1 - 2 /\ {softmax} \subseteq 0 .. Len(L) + 2 - 2
      /\ {id, softmax, id + 1} \subseteq 0 .. Len(L) + 3 - 2
  BY <1>5
<1>7. Follows(L, c, 1) /\ Follows(L, c, 2)
  BY <1>2, <1>4, <1>6 DEF Follows, Shape, Pure
<1>8. Follows(L, c, 3)
  BY <1>3, <1>4, <1>6 DEF Follows, Shape, Pure
<1>9. At(L, c, softmax) = L[softmax + 1] /\ At(L, c, id) = c[1] /\ At(L, c, id + 1) = c[2]
  BY <1>5 DEF At
<1>10. Outputs(L, c, {softmax}) = T
  BY <1>9, <1>t DEF Outputs
<1>11. ShapeIn(L, c, 1) = s1
  BY <1>2, <1>4, <1>10 DEF Shape, ShapeIn
<1>12. ShapeIn(L, c, 2) = s2
  BY <1>2, <1>4, <1>10 DEF Shape, ShapeIn
<1>13. ShapeIn(L, c, 3) = s3
  <2>1. ShapeIn(L, c, 3) = <<"AttentionContext", {U, R}, {C}, Outputs(L, c, {id, softmax, id + 1})>>
    BY <1>3, <1>4 DEF Shape, ShapeIn
  <2>2. c[1].outputs = {U} /\ c[2].outputs = {R}
    BY <1>2, <1>4 DEF Shape
  <2>3. Outputs(L, c, {id, softmax, id + 1})
          = At(L, c, id).outputs \cup At(L, c, softmax).outputs \cup At(L, c, id + 1).outputs
    BY DEF Outputs
  <2>4. Outputs(L, c, {id, softmax, id + 1}) = {U, R} \cup T
    BY <1>9, <1>t, <2>2, <2>3
  <2> QED BY <2>1, <2>4
<1>14. \A j : j \in 1 .. Len(c) <=> j = 1 \/ j = 2 \/ j = 3
  BY <1>4
<1> HIDE DEF s1, s2, s3
<1>15. TileWeighed(head, i, T) = {ShapeIn(L, c, j) : j \in 1 .. Len(c)}
  BY <1>11, <1>12, <1>13, <1>14, <1>s
<1>16. \A j \in 1 .. Len(c) : Follows(L, c, j)
  BY <1>7, <1>8, <1>14
<1> QED BY <1>1, <1>4, <1>15, <1>16 DEF Adds, T

LEMMA AddScoresGrows ==
  ASSUME NEW m, IsList(CacheTiles(m)), NEW records, NEW head, Numbered(records)
  PROVE  Grows(records, AddScores(m, records, head), ScoreShapes(Len(CacheTiles(m)), head))
<1> DEFINE query == Len(records)
           n == Len(CacheTiles(m))
           Q == Tensor("Q", head, 0, 0)
           r == Residency(query, "q_operand_residency", Q, Visible(Q), {})
           base == Append(records, r)
           chunk == [p \in (DOMAIN CacheTiles(m)) \X Nat |-> ScoreTile(m, head, p[1], query, p[2])]
           shapes == [i \in 1 .. n |-> TileScored(head, i)]
           first == {<<"q_operand_residency", {Q}, {Visible(Q)}, {}>>}
           M == AppendEach(base, chunk, n)
<1>1. AddScores(m, records, head) = M
  BY DEF AddScores
<1>2. n \in Nat /\ DOMAIN CacheTiles(m) = 1 .. n /\ query \in Nat /\ IsList(records)
  BY ListIs, NumberedIds
<1>3. Shape(r, query, "PIMOperandResidency", "q_operand_residency", {Q}, {Visible(Q)}, {})
  BY RecordShape DEF Residency
<1>s. ScoreShapes(n, head) = first \cup UNION {TileScored(head, i) : i \in 1 .. n}
  BY DEF ScoreShapes
<1>q. Visible(Q) = Visible(Tensor("Q", head, 0, 0))
  OBVIOUS
<1> HIDE DEF r, Q
<1>4. Follows(records, <<r>>, 1) /\ {ShapeIn(records, <<r>>, 1)} = first
  <2>1. <<r>>[1] = r
    OBVIOUS
  <2> DEFINE c == <<r>>
  <2>2. c[1] = r
    BY <2>1
  <2> HIDE DEF c
  <2>5. Pure(r)
    BY <1>3 DEF Shape, Pure
  <2>6. Len(records) + 1 - 1 = query
    BY <1>2
  <2>3. Follows(records, c, 1)
    BY <1>3, <2>2, <2>5, <2>6 DEF Follows, Shape
  <2>4. ShapeIn(records, c, 1) = <<"q_operand_residency", {Q}, {Visible(Q)}, {}>>
    BY <1>3, <2>2 DEF Shape, ShapeIn, Outputs
  <2> QED BY <2>3, <2>4 DEF c
<1>5. Grows(records, base, first) /\ Len(base) = query + 1 /\ base[query + 1] = r
  BY <1>4, AppendGrows
<1> HIDE DEF base, first
<1>6. Draws(base, chunk, shapes, n)
  <2> SUFFICES ASSUME NEW i \in 1 .. n, NEW L, Numbered(L), Continues(L, base)
               PROVE  Adds(L, chunk[<<i, Len(L)>>], shapes[i])
    BY DEF Draws
  <2>1. Len(L) \in Nat
    BY NumberedIds
  <2>2. chunk[<<i, Len(L)>>] = ScoreTile(m, head, i, query, Len(L))
    <3>1. <<i, Len(L)>> \in (DOMAIN CacheTiles(m)) \X Nat
      BY <1>2, <2>1
    <3> QED BY <3>1
  <2>3. shapes[i] = TileScored(head, i)
    OBVIOUS
  <2>4. L[query + 1] = r /\ query \in 0 .. Len(L) - 1
    BY <1>2, <1>5, <2>1 DEF Continues
  <2>5. L[query + 1].outputs = {Visible(Tensor("Q", head, 0, 0))}
    BY <1>3, <1>q, <2>4 DEF Shape
  <2> HIDE DEF chunk, shapes
  <2> QED BY <2>2, <2>3, <2>4, <2>5, ScoreTileAdds
<1>7. Numbered(base)
  BY <1>5 DEF Grows
<1>8. UNION {shapes[i] : i \in 1 .. n} = UNION {TileScored(head, i) : i \in 1 .. n}
  OBVIOUS
<1> HIDE DEF chunk, shapes
<1>9. Grows(base, M, UNION {shapes[i] : i \in 1 .. n})
  BY <1>2, <1>6, <1>7, EachGrows
<1> HIDE DEF M
<1>10. Grows(records, M, first \cup UNION {TileScored(head, i) : i \in 1 .. n})
  <2> DEFINE U == UNION {TileScored(head, i) : i \in 1 .. n}
  <2>1. Grows(base, M, U)
    BY <1>8, <1>9
  <2> HIDE DEF U
  <2>2. Grows(records, M, first \cup U)
    BY <1>5, <2>1, GrowsTransitive
  <2> QED BY <2>2 DEF U
<1> QED BY <1>1, <1>10, <1>s DEF n

(* What the scored tiles of a head made.                                   *)
LEMMA Scored ==
  ASSUME NEW L, Numbered(L), NEW n, NEW head, ScoreShapes(n, head) \subseteq Shapes(L)
  PROVE  \A t \in PerTile(n, "score", head) : Made(L, t)
<1> SUFFICES ASSUME NEW i \in 1 .. n PROVE Made(L, Tensor("score", head, i, 0))
  BY DEF PerTile
<1> DEFINE Q == Visible(Tensor("Q", head, 0, 0))
           R == Placed(Tensor("K.tile", head, i, 0), "resident")
           t == Tensor("score", head, i, 0)
           s == <<"AttentionScore", {Q, R}, {t}, {Q, R}>>
<1>1. s \in TileScored(head, i)
  BY DEF TileScored
<1> HIDE DEF s
<1>2. s \in ScoreShapes(n, head)
  BY <1>1 DEF ScoreShapes
<1>3. t \in s[3]
  <2> HIDE DEF Q, R, t
  <2> QED BY DEF s
<1> QED BY <1>2, <1>3, MadeShape

(* An accounting of tensors that were made adds one shape.                 *)
LEMMA AccountingGrows ==
  ASSUME NEW L, Numbered(L), NEW r, r.record_id = Len(L), Pure(r), r.logical_dependencies = Ids(Makers(L, r.inputs)),
         \A t \in r.inputs : Made(L, t) /\ t.name # "probability"
  PROVE  /\ Grows(L, Append(L, r), {<<r.op, r.inputs, r.outputs, r.inputs>>})
         /\ Len(Append(L, r)) = Len(L) + 1 /\ Append(L, r)[Len(L) + 1] = r
<1> DEFINE deps == Ids(Makers(L, r.inputs))
           c == <<r>>
<1>2. deps \subseteq 0 .. Len(L) - 1 /\ Outputs(L, c, deps) = r.inputs
  BY MakersMake
<1>3. Len(L) \in Nat
  BY NumberedIds
<1>d. r.logical_dependencies = deps
  OBVIOUS
<1> HIDE DEF deps
<1>4. c[1] = r
  OBVIOUS
<1> HIDE DEF c
<1>5. Follows(L, c, 1)
  <2>1. Len(L) + 1 - 1 = Len(L) /\ Len(L) + 1 - 2 = Len(L) - 1
    BY <1>3
  <2> QED BY <1>d, <1>2, <1>4, <2>1 DEF Follows
<1>6. ShapeIn(L, c, 1) = <<r.op, r.inputs, r.outputs, r.inputs>>
  BY <1>d, <1>2, <1>4 DEF ShapeIn
<1>7. Follows(L, <<r>>, 1) /\ ShapeIn(L, <<r>>, 1) = <<r.op, r.inputs, r.outputs, r.inputs>>
  BY <1>5, <1>6 DEF c
<1> QED BY <1>7, AppendGrows

LEMMA AddReductionGrows ==
  ASSUME NEW L, Numbered(L), NEW contexts, NEW output, \A t \in contexts : Made(L, t) /\ t.name # "probability"
  PROVE  Grows(L, AddReduction(L, contexts, output), ReductionShapes(contexts, output))
<1> DEFINE s == <<"attention_context_reduction_accounting", contexts, {output}, contexts>>
<1>s. ReductionShapes(contexts, output) = {x \in {s} : Cardinality(contexts) > 1}
  BY DEF ReductionShapes
<1>1. CASE Cardinality(contexts) > 1
  <2> DEFINE r == Record(Len(L), "PIMElementwise", "attention_context_reduction_accounting",
                         contexts, {output}, Ids(Makers(L, contexts)))
  <2>1. AddReduction(L, contexts, output) = Append(L, r)
    BY <1>1 DEF AddReduction
  <2>2. Shape(r, Len(L), "PIMElementwise", "attention_context_reduction_accounting", contexts, {output},
              Ids(Makers(L, contexts)))
    BY RecordShape
  <2> HIDE DEF r
  <2>5. /\ r.record_id = Len(L) /\ r.logical_dependencies = Ids(Makers(L, r.inputs)) /\ r.inputs = contexts
        /\ r.outputs = {output} /\ r.op = "attention_context_reduction_accounting"
    BY <2>2 DEF Shape
  <2>6. Pure(r)
    BY <2>5 DEF Pure
  <2>3. Grows(L, Append(L, r), {<<r.op, r.inputs, r.outputs, r.inputs>>})
    BY <2>5, <2>6, AccountingGrows
  <2>7. <<r.op, r.inputs, r.outputs, r.inputs>> = s
    BY <2>5
  <2>4. ReductionShapes(contexts, output) = {s}
    BY <1>1, <1>s
  <2> HIDE DEF s
  <2> QED BY <2>1, <2>3, <2>4, <2>7
<1>2. CASE ~(Cardinality(contexts) > 1)
  <2>1. AddReduction(L, contexts, output) = L
    BY <1>2 DEF AddReduction
  <2>2. Continues(L, L)
    BY NumberedIds DEF Continues
  <2>3. ReductionShapes(contexts, output) = {}
    BY <1>2, <1>s
  <2> QED BY <2>1, <2>2, <2>3 DEF Grows
<1> QED BY <1>1, <1>2

LEMMA AddContextsGrows ==
  ASSUME NEW m, IsList(CacheTiles(m)), NEW records, NEW head, Numbered(records),
         ScoreShapes(Len(CacheTiles(m)), head) \subseteq Shapes(records)
  PROVE  Grows(records, AddContexts(m, records, head), WeighShapes(Len(CacheTiles(m)), head))
<1> DEFINE softmax == Len(records)
           n == Len(CacheTiles(m))
           Tiles(name) == {Tensor(name, head, i, 0) : i \in DOMAIN CacheTiles(m)}
           scores == PerTile(n, "score", head)
           probabilities == PerTile(n, "probability", head)
           contexts == PerTile(n, "context", head)
           output == Tensor("context_reduced", head, 0, 0)
           r == Softmax(records, scores, probabilities)
           base == Append(records, r)
           chunk == [p \in (DOMAIN CacheTiles(m)) \X Nat |-> ContextTile(m, head, p[1], softmax, p[2])]
           shapes == [i \in 1 .. n |-> TileWeighed(head, i, probabilities)]
           first == {<<"attention_softmax_accounting", scores, probabilities, scores>>}
           each == UNION {TileWeighed(head, i, probabilities) : i \in 1 .. n}
           M == AppendEach(base, chunk, n)
<1>2. n \in Nat /\ DOMAIN CacheTiles(m) = 1 .. n /\ softmax \in Nat /\ IsList(records)
  BY ListIs, NumberedIds
<1>1. AddContexts(m, records, head) = AddReduction(M, contexts, output)
  <2>1. \A name : PerTile(n, name, head) = {Tensor(name, head, i, 0) : i \in DOMAIN CacheTiles(m)}
    BY <1>2 DEF PerTile
  <2>2. AddContexts(m, records, head) =
          AddReduction(AppendEach(Append(records, Softmax(records, Tiles("score"), Tiles("probability"))), chunk, n),
                       Tiles("context"), output)
    BY DEF AddContexts
  <2>3. Tiles("score") = scores /\ Tiles("probability") = probabilities /\ Tiles("context") = contexts
    BY <2>1
  <2> HIDE DEF Tiles, scores, probabilities, contexts, output, chunk, n
  <2> QED BY <2>2, <2>3
<1>s. WeighShapes(n, head) = first \cup each \cup ReductionShapes(contexts, output)
  BY DEF WeighShapes
<1>3. \A t \in scores : Made(records, t) /\ t.name # "probability"
  <2>1. \A i : Tensor("score", head, i, 0).name = "score"
    BY TensorShape DEF OfShape
  <2>2. \A t \in scores : Made(records, t)
    BY Scored
  <2>3. \A t \in scores : \E i : t = Tensor("score", head, i, 0)
    BY DEF PerTile
  <2> QED BY <2>1, <2>2, <2>3
<1>4. \A t \in probabilities : t.name = "probability"
  <2>1. \A i : Tensor("probability", head, i, 0).name = "probability"
    BY TensorShape DEF OfShape
  <2> QED BY <2>1 DEF PerTile
<1>5. \A t \in contexts : t.name # "probability" /\ \E i \in 1 .. n : t = Tensor("context", head, i, 0)
  <2>1. \A i : Tensor("context", head, i, 0).name = "context"
    BY TensorShape DEF OfShape
  <2> QED BY <2>1 DEF PerTile
<1> HIDE DEF scores, probabilities, contexts, output
<1>8. Grows(records, base, first) /\ Len(base) = softmax + 1 /\ base[softmax + 1] = r /\ r.outputs = probabilities
  <2>1. Shape(r, Len(records), "AttentionSoftmax", "attention_softmax_accounting", scores, probabilities,
              Ids(Makers(records, scores)))
    BY RecordShape DEF Softmax
  <2> HIDE DEF r
  <2>2. /\ r.record_id = Len(records) /\ r.logical_dependencies = Ids(Makers(records, r.inputs)) /\ r.inputs = scores
        /\ r.outputs = probabilities /\ r.op = "attention_softmax_accounting"
    BY <2>1 DEF Shape
  <2>3. Pure(r)
    BY <1>4, <2>2 DEF Pure
  <2>4. /\ Grows(records, Append(records, r), {<<r.op, r.inputs, r.outputs, r.inputs>>})
        /\ Len(Append(records, r)) = Len(records) + 1 /\ Append(records, r)[Len(records) + 1] = r
    BY <1>3, <2>2, <2>3, AccountingGrows
  <2>5. {<<r.op, r.inputs, r.outputs, r.inputs>>} = first
    BY <2>2
  <2> HIDE DEF first
  <2> QED BY <2>2, <2>4, <2>5
<1> HIDE DEF r, base, first
<1>9. Draws(base, chunk, shapes, n)
  <2> SUFFICES ASSUME NEW i \in 1 .. n, NEW L, Numbered(L), Continues(L, base)
               PROVE  Adds(L, chunk[<<i, Len(L)>>], shapes[i])
    BY DEF Draws
  <2>1. Len(L) \in Nat
    BY NumberedIds
  <2>2. chunk[<<i, Len(L)>>] = ContextTile(m, head, i, softmax, Len(L))
    <3>1. <<i, Len(L)>> \in (DOMAIN CacheTiles(m)) \X Nat
      BY <1>2, <2>1
    <3> QED BY <3>1
  <2>3. shapes[i] = TileWeighed(head, i, probabilities)
    OBVIOUS
  <2>4. L[softmax + 1] = r /\ softmax \in 0 .. Len(L) - 1
    BY <1>2, <1>8, <2>1 DEF Continues
  <2>5. L[softmax + 1].outputs = probabilities
    BY <1>8, <2>4
  <2> HIDE DEF chunk, shapes
  <2> QED BY <2>2, <2>3, <2>4, <2>5, ContextTileAdds
<1>7. Numbered(base)
  BY <1>8 DEF Grows
<1>e. UNION {shapes[i] : i \in 1 .. n} = each
  OBVIOUS
<1> HIDE DEF chunk, shapes
<1>10. Grows(base, M, each)
  <2>1. Grows(base, M, UNION {shapes[i] : i \in 1 .. n})
    BY <1>2, <1>7, <1>9, EachGrows
  <2> QED BY <2>1, <1>e
<1> HIDE DEF M
<1>11. \A t \in contexts : Made(M, t)
  <2> SUFFICES ASSUME NEW i \in 1 .. n PROVE Made(M, Tensor("context", head, i, 0))
    BY <1>5
  <2> DEFINE P == Tensor("probability", head, i, 0)
             R == Placed(Tensor("V.tile", head, i, 0), "resident")
             t == Tensor("context", head, i, 0)
             s == <<"AttentionContext", {Visible(P), R}, {t}, {Visible(P), R} \cup probabilities>>
  <2>1. s \in TileWeighed(head, i, probabilities)
    BY DEF TileWeighed
  <2> HIDE DEF s
  <2>2. s \in Shapes(M) /\ Numbered(M)
    BY <1>10, <2>1 DEF Grows
  <2>3. t \in s[3]
    <3> HIDE DEF P, R, t
    <3> QED BY DEF s
  <2> QED BY <2>2, <2>3, MadeShape
<1> HIDE DEF each
<1>12. Grows(M, AddReduction(M, contexts, output), ReductionShapes(contexts, output))
  <2>1. Numbered(M)
    BY <1>10 DEF Grows
  <2> QED BY <2>1, <1>5, <1>11, AddReductionGrows
<1>13. Grows(records, M, first \cup each)
  BY <1>8, <1>10, GrowsTransitive
<1>14. Grows(records, AddReduction(M, contexts, output), first \cup each \cup ReductionShapes(contexts, output))
  BY <1>12, <1>13, GrowsTransitive
<1> QED BY <1>1, <1>14, <1>s DEF n

(* Each head is scored and weighed, by either schedule.                    *)
LEMMA DecodePartsAll ==
  ASSUME NEW m, m.num_heads \in Nat
  PROVE  LET parts == DecodeParts(m)
         IN  /\ \A k \in 1 .. 2 * m.num_heads : parts[k].head \in 0 .. m.num_heads - 1
             /\ \A h \in 0 .. m.num_heads - 1 :
                  /\ \E k \in 1 .. 2 * m.num_heads : parts[k].does = "score" /\ parts[k].head = h
                  /\ \E k \in 1 .. 2 * m.num_heads : parts[k].does = "weigh" /\ parts[k].head = h
<1> DEFINE n == m.num_heads
           f == DecodeParts(m)
<1>1. CASE m.schedule_policy = "overlap_independent_heads"
  <2>1. f = [k \in 1 .. 2 * n |-> IF k <= n THEN Part("score", k - 1, 1) ELSE Part("weigh", k - 1 - n, 1)]
    BY <1>1 DEF DecodeParts
  <2>2. n \in Nat
    OBVIOUS
  <2> HIDE DEF f, n
  <2>3. ASSUME NEW k \in 1 .. 2 * n
        PROVE  /\ k <= n => f[k].does = "score" /\ f[k].head = k - 1
               /\ k > n => f[k].does = "weigh" /\ f[k].head = k - 1 - n
    BY <2>1, <2>2 DEF Part
  <2>4. ASSUME NEW k \in 1 .. 2 * n PROVE f[k].head \in 0 .. n - 1
    BY <2>2, <2>3
  <2>5. ASSUME NEW h \in 0 .. n - 1
        PROVE  /\ \E k \in 1 .. 2 * n : f[k].does = "score" /\ f[k].head = h
               /\ \E k \in 1 .. 2 * n : f[k].does = "weigh" /\ f[k].head = h
    <3>1. h + 1 \in 1 .. 2 * n /\ h + 1 <= n /\ (h + 1) - 1 = h
      BY <2>2
    <3>2. h + 1 + n \in 1 .. 2 * n /\ h + 1 + n > n /\ (h + 1 + n) - 1 - n = h
      BY <2>2
    <3>3. f[h + 1].does = "score" /\ f[h + 1].head = h
      BY <2>3, <3>1
    <3>4. f[h + 1 + n].does = "weigh" /\ f[h + 1 + n].head = h
      BY <2>3, <3>2
    <3> QED BY <3>1, <3>2, <3>3, <3>4
  <2> QED BY <2>4, <2>5 DEF f, n
<1>2. CASE m.schedule_policy # "overlap_independent_heads"
  <2>1. f = [k \in 1 .. 2 * n |-> Part(IF k % 2 = 1 THEN "score" ELSE "weigh", (k - 1) \div 2, 1)]
    BY <1>2 DEF DecodeParts
  <2>2. n \in Nat
    OBVIOUS
  <2> HIDE DEF f, n
  <2>3. ASSUME NEW k \in 1 .. 2 * n
        PROVE  /\ f[k].does = IF k % 2 = 1 THEN "score" ELSE "weigh"
               /\ f[k].head = (k - 1) \div 2
    BY <2>1 DEF Part
  <2>4. ASSUME NEW k \in 1 .. 2 * n PROVE f[k].head \in 0 .. n - 1
    <3>1. (k - 1) \div 2 \in 0 .. n - 1
      BY <2>2
    <3> QED BY <2>3, <3>1
  <2>5. ASSUME NEW h \in 0 .. n - 1
        PROVE  /\ \E k \in 1 .. 2 * n : f[k].does = "score" /\ f[k].head = h
               /\ \E k \in 1 .. 2 * n : f[k].does = "weigh" /\ f[k].head = h
    <3>1. 2 * h + 1 \in 1 .. 2 * n /\ (2 * h + 1) % 2 = 1 /\ ((2 * h + 1) - 1) \div 2 = h
      BY <2>2
    <3>2. 2 * h + 2 \in 1 .. 2 * n /\ (2 * h + 2) % 2 # 1 /\ ((2 * h + 2) - 1) \div 2 = h
      BY <2>2
    <3>3. f[2 * h + 1].does = "score" /\ f[2 * h + 1].head = h
      BY <2>3, <3>1
    <3>4. f[2 * h + 2].does = "weigh" /\ f[2 * h + 2].head = h
      BY <2>3, <3>2
    <3> QED BY <3>1, <3>2, <3>3, <3>4
  <2> QED BY <2>4, <2>5 DEF f, n
<1> QED BY <1>1, <1>2

LEMMA NumberedEmpty == Numbered(<<>>) /\ Shapes(<<>>) = {}
<1>1. Numbered(<<>>)
  BY EmptyList DEF Numbered
<1>2. Shapes(<<>>) = {}
  <2>1. \A s : s \notin Shapes(<<>>)
    BY <1>1, EmptyList, ShapesAre
  <2> QED BY <2>1
<1> QED BY <1>1, <1>2

(* The shapes of attention are those of its heads.                         *)
PartShapes(n, part) == IF part.does = "score" THEN ScoreShapes(n, part.head) ELSE WeighShapes(n, part.head)

LEMMA PartsGrow ==
  ASSUME NEW m, m.num_heads \in Nat, IsList(CacheTiles(m))
  PROVE  LET n == Len(CacheTiles(m))
         IN  /\ Numbered(DecodeAttention(m))
             /\ Shapes(DecodeAttention(m)) = UNION {PartShapes(n, DecodeParts(m)[k]) : k \in 1 .. 2 * m.num_heads}
<1> DEFINE parts == DecodeParts(m)
           n == Len(CacheTiles(m))
           S(k) == PartShapes(n, parts[k])
<1>1. /\ IsList(parts) /\ Len(parts) = 2 * m.num_heads
      /\ \A k \in 1 .. Len(parts) :
           \/ parts[k].does = "score"
           \/ /\ parts[k].does = "weigh"
              /\ \E j \in 1 .. k - 1 : parts[j].does = "score" /\ parts[j].head = parts[k].head
  BY DecodePartsOrder
<1>2. Len(parts) \in Nat
  BY <1>1, ListIs
<1>d. DecodeAttention(m) = AddParts(m, parts)
  BY DEF DecodeAttention
<1>l. 2 * m.num_heads = Len(parts)
  BY <1>1
<1>s. \A k : S(k) = IF parts[k].does = "score" THEN ScoreShapes(n, parts[k].head) ELSE WeighShapes(n, parts[k].head)
  BY DEF PartShapes
<1> HIDE DEF parts, S
<1>3. PICK a : IsParts(a, m, parts)
  BY <1>1, AddPartsIs
<1>4. /\ a[0] = <<>> /\ AddParts(m, parts) = a[Len(parts)]
      /\ \A k \in 1 .. Len(parts) : a[k] = AddPart(m, a[k - 1], parts[k])
  BY <1>3 DEF IsParts
<1> DEFINE All(k) == UNION {S(j) : j \in 1 .. k}
           P(k) == Numbered(a[k]) /\ Shapes(a[k]) = All(k)
           T == {k \in Nat : k <= Len(parts) => P(k)}
<1>5. 0 \in T
  <2>1. All(0) = {}
    OBVIOUS
  <2> QED BY <1>4, <2>1, NumberedEmpty
<1>6. ASSUME NEW k \in Nat, k \in T PROVE k + 1 \in T
  <2> SUFFICES ASSUME k + 1 <= Len(parts) PROVE P(k + 1)
    OBVIOUS
  <2> DEFINE L == a[k]
             M == a[k + 1]
             head == parts[k + 1].head
  <2>1. Numbered(L) /\ Shapes(L) = All(k) /\ k + 1 \in 1 .. Len(parts) /\ (k + 1) - 1 = k
    BY <1>2, <1>6
  <2>2. M = AddPart(m, L, parts[k + 1])
    BY <1>4, <2>1
  <2>3. All(k + 1) = All(k) \cup S(k + 1)
    <3>1. \A i : i \in 1 .. k + 1 <=> i \in 1 .. k \/ i = k + 1
      OBVIOUS
    <3> QED BY <3>1
  <2>4. \A j \in 1 .. k : S(j) \subseteq All(k)
    OBVIOUS
  <2> HIDE DEF L, M, All
  <2>5. CASE parts[k + 1].does = "score"
    <3>1. M = AddScores(m, L, head)
      BY <2>2, <2>5 DEF AddPart
    <3>2. S(k + 1) = ScoreShapes(n, head)
      BY <1>s, <2>5
    <3> HIDE DEF head
    <3>3. Grows(L, M, ScoreShapes(n, head))
      BY <2>1, <3>1, AddScoresGrows
    <3> QED BY <2>1, <2>3, <3>2, <3>3 DEF Grows, M
  <2>6. CASE parts[k + 1].does # "score"
    <3>1. parts[k + 1].does = "weigh"
      BY <1>1, <2>1, <2>6
    <3>2. PICK j \in 1 .. (k + 1) - 1 : parts[j].does = "score" /\ parts[j].head = head
      BY <1>1, <2>1, <2>6
    <3>3. M = AddContexts(m, L, head)
      BY <2>2, <3>1 DEF AddPart
    <3>4. S(k + 1) = WeighShapes(n, head) /\ S(j) = ScoreShapes(n, head)
      BY <1>s, <2>6, <3>2
    <3>5. ScoreShapes(n, head) \subseteq Shapes(L)
      BY <2>1, <2>4, <3>2, <3>4
    <3> HIDE DEF head
    <3>6. Grows(L, M, WeighShapes(n, head))
      BY <2>1, <3>3, <3>5, AddContextsGrows
    <3> QED BY <2>1, <2>3, <3>4, <3>6 DEF Grows, M
  <2> QED BY <2>5, <2>6
<1>7. Len(parts) \in T
  <2> HIDE DEF T
  <2>1. \A k \in Nat : k \in T => k + 1 \in T
    BY <1>6
  <2> QED BY <1>2, <1>5, <2>1, InductionSet
<1>8. P(Len(parts))
  BY <1>2, <1>7
<1>9. Numbered(DecodeAttention(m)) /\ Shapes(DecodeAttention(m)) = UNION {S(k) : k \in 1 .. 2 * m.num_heads}
  BY <1>4, <1>8, <1>d, <1>l
<1> QED BY <1>9 DEF S, parts

LEMMA DecodeShapes ==
  ASSUME NEW m, m.num_heads \in Nat, IsList(CacheTiles(m))
  PROVE  LET n == Len(CacheTiles(m))
         IN  Shapes(DecodeAttention(m)) =
               UNION {ScoreShapes(n, h) \cup WeighShapes(n, h) : h \in 0 .. m.num_heads - 1}
<1> DEFINE n == Len(CacheTiles(m))
           f == DecodeParts(m)
           S == Shapes(DecodeAttention(m))
           K == 1 .. 2 * m.num_heads
           H == 0 .. m.num_heads - 1
<1>1. S = UNION {PartShapes(n, f[k]) : k \in K}
  BY PartsGrow
<1>2. \A k \in K : f[k].head \in H
  BY DecodePartsAll
<1>3. \A h \in H : /\ \E k \in K : f[k].does = "score" /\ f[k].head = h
                   /\ \E k \in K : f[k].does = "weigh" /\ f[k].head = h
  BY DecodePartsAll
<1> HIDE DEF S, K, H, f, n
<1>4. \A x : x \in S <=> \E k \in K : x \in PartShapes(n, f[k])
  BY <1>1
<1>5. ASSUME NEW x \in S PROVE \E h \in H : x \in ScoreShapes(n, h) \cup WeighShapes(n, h)
  BY <1>2, <1>4 DEF PartShapes
<1>6. ASSUME NEW h \in H, NEW x \in ScoreShapes(n, h) \cup WeighShapes(n, h) PROVE x \in S
  <2>1. CASE x \in ScoreShapes(n, h)
    BY <2>1, <1>3, <1>4 DEF PartShapes
  <2>2. CASE x \in WeighShapes(n, h)
    <3>1. PICK k \in K : f[k].does = "weigh" /\ f[k].head = h
      BY <1>3
    <3>2. PartShapes(n, f[k]) = WeighShapes(n, h)
      BY <3>1 DEF PartShapes
    <3> QED BY <2>2, <3>2, <1>4
  <2> QED BY <2>1, <2>2
<1>7. S = UNION {ScoreShapes(n, h) \cup WeighShapes(n, h) : h \in H}
  BY <1>5, <1>6
<1> QED BY <1>7 DEF S, H, n

(* A serialized manifest has the fields of the manifest.                   *)
LEMMA SerializedFields ==
  ASSUME NEW m
  PROVE  /\ {"num_heads", "past_len", "score_tile_tokens"} \subseteq DOMAIN m =>
              /\ Serialized(m).num_heads = m.num_heads /\ Serialized(m).past_len = m.past_len
              /\ Serialized(m).score_tile_tokens = m.score_tile_tokens
         /\ {"seq_len", "hidden_size", "num_experts", "selected_experts", "datatype"} \subseteq DOMAIN m =>
              /\ Serialized(m).seq_len = m.seq_len /\ Serialized(m).hidden_size = m.hidden_size
              /\ Serialized(m).num_experts = m.num_experts /\ Serialized(m).datatype = m.datatype
              /\ Serialized(m).selected_experts = m.selected_experts
BY DEF Serialized

(* The shapes an expert adds.                                              *)
ExpertShapes(e) ==
  LET T(name) == Tensor(name, e, 0, 0)
      DI      == Whole("dispatched")
      Rup     == Resident("expert_up_weight", e)
      Rgate   == Resident("expert_gate_weight", e)
      Rdown   == Resident("expert_down_weight", e)
      B       == Placed(T("expert_gated"), "bank_local")
      Weight(name)               == <<"weight_residency", {T(name)}, {Resident(name, e)}, {}>>
      Of(op, inputs, output)     == <<op, inputs, {output}, inputs>>
      Project(inputs, output)    == Of("moe_expert_projection", inputs, output)
  IN  {Weight("expert_up_weight"), Project({DI, Rup}, T("expert_up")),
       Weight("expert_gate_weight"), Project({DI, Rgate}, T("expert_gate")),
       Weight("expert_down_weight"),
       Of("gate_activation", {T("expert_gate")}, T("expert_activated")),
       Of("gated_multiply", {T("expert_activated"), T("expert_up")}, T("expert_gated")),
       Of("expert_intermediate_residency", {T("expert_gated")}, B),
       Project({B, Rdown}, T("expert_output")),
       Of("expert_output_residency", {T("expert_output")}, Visible(T("expert_output")))}

LEMMA RoutingNumbered ==
  ASSUME NEW m
  PROVE  Numbered(Routing(m)) /\ Len(Routing(m)) = 7 /\ Routing(m)[7].outputs = {Whole("dispatched")}
<1> DEFINE HI == Whole("hidden")
           RI == Whole("router_input")
           W0 == Tensor("router_weight", 0, 0, 0)
           RW == Resident("router_weight", 0)
           RL == Whole("router_logits")
           RV == Visible(Whole("router_logits"))
           TK == Whole("topk_experts")
           DA == Whole("dispatch_accounted")
           DI == Whole("dispatched")
           r1 == DynamicMove(0, "moe_router_input_setup", Whole("hidden"), Whole("router_input"), {})
           r2 == WeightMove(1, "router_weight", 0)
           r3 == MoECompute(m, 2, "MoERouter", "moe_router_projection",
                            {Whole("router_input"), Resident("router_weight", 0)},
                            Whole("router_logits"), {0, 1}, m.num_experts, m.hidden_size)
           r4 == Residency(3, "moe_router_logits_residency", Whole("router_logits"),
                           Visible(Whole("router_logits")), {2})
           r5 == Accounting(4, "MoETopK", {Visible(Whole("router_logits"))}, Whole("topk_experts"), {3})
           r6 == Accounting(5, "MoEDispatch", {Whole("hidden"), Whole("topk_experts")},
                            Whole("dispatch_accounted"), {4})
           r7 == DynamicMove(6, "moe_token_dispatch_materialized", Whole("dispatch_accounted"),
                             Whole("dispatched"), {5})
           c == <<r1, r2, r3, r4, r5, r6, r7>>
<1>1. Routing(m) = c
  BY DEF Routing
<1>s1. Shape(r1, 0, "PIMDataMove", "moe_router_input_setup", {HI}, {RI}, {})
  BY RecordShape DEF DynamicMove
<1>s2. Shape(r2, 1, "PIMDataMove", "weight_residency", {W0}, {RW}, {})
  BY RecordShape DEF WeightMove
<1>s3. Shape(r3, 2, "MoERouter", "moe_router_projection", {RI, RW}, {RL}, {0, 1})
  BY RecordShape DEF MoECompute
<1>s4. Shape(r4, 3, "PIMOperandResidency", "moe_router_logits_residency", {RL}, {RV}, {2})
  BY RecordShape DEF Residency
<1>s5. Shape(r5, 4, "MoETopK", "MoETopK", {RV}, {TK}, {3})
  BY RecordShape DEF Accounting
<1>s6. Shape(r6, 5, "MoEDispatch", "MoEDispatch", {HI, TK}, {DA}, {4})
  BY RecordShape DEF Accounting
<1>s7. Shape(r7, 6, "PIMDataMove", "moe_token_dispatch_materialized", {DA}, {DI}, {5})
  BY RecordShape DEF DynamicMove
<1> HIDE DEF r1, r2, r3, r4, r5, r6, r7
<1>2. /\ IsList(c) /\ Len(c) = 7
      /\ c[1] = r1 /\ c[2] = r2 /\ c[3] = r3 /\ c[4] = r4 /\ c[5] = r5 /\ c[6] = r6 /\ c[7] = r7
  <2>1. c \in Seq({r1, r2, r3, r4, r5, r6, r7}) /\ Len(c) = 7
    OBVIOUS
  <2> QED BY <2>1 DEF IsList
<1> HIDE DEF c, HI, RI, W0, RW, RL, RV, TK, DA, DI
<1>e. Len(<<>>) = 0
  BY EmptyList
<1>f1. Follows(<<>>, c, 1)
  <2>1. Pure(r1)
    BY <1>s1 DEF Shape, Pure
  <2> QED BY <1>2, <1>s1, <1>e, <2>1 DEF Follows, Shape
<1>f2. Follows(<<>>, c, 2)
  BY <1>2, <1>s2, <1>e DEF Follows, Shape, Pure
<1>f3. Follows(<<>>, c, 3)
  <2>1. Pure(r3)
    BY <1>s3 DEF Shape, Pure
  <2> QED BY <1>2, <1>s3, <1>e, <2>1 DEF Follows, Shape
<1>f4. Follows(<<>>, c, 4)
  BY <1>2, <1>s4, <1>e DEF Follows, Shape, Pure
<1>f5. Follows(<<>>, c, 5)
  BY <1>2, <1>s5, <1>e DEF Follows, Shape, Pure
<1>f6. Follows(<<>>, c, 6)
  BY <1>2, <1>s6, <1>e DEF Follows, Shape, Pure
<1>f7. Follows(<<>>, c, 7)
  BY <1>2, <1>s7, <1>e DEF Follows, Shape, Pure
<1>3. \A j \in 1 .. Len(c) : Follows(<<>>, c, j)
  <2>1. \A j \in 1 .. 7 : j = 1 \/ j = 2 \/ j = 3 \/ j = 4 \/ j = 5 \/ j = 6 \/ j = 7
    OBVIOUS
  <2> QED BY <1>2, <2>1, <1>f1, <1>f2, <1>f3, <1>f4, <1>f5, <1>f6, <1>f7
<1>4. c[7].outputs = {DI}
  BY <1>2, <1>s7 DEF Shape
<1> QED BY <1>1, <1>2, <1>3, <1>4 DEF Numbered, DI

LEMMA ExpertAdds ==
  ASSUME NEW m, NEW e, NEW base \in Nat, NEW L, Numbered(L), Len(L) = base, base > 6,
         L[7].outputs = {Whole("dispatched")}
  PROVE  Adds(L, Expert(m, e, base), ExpertShapes(e))
<1> DEFINE DI == Whole("dispatched")
           Wup == Tensor("expert_up_weight", e, 0, 0)
           Rup == Resident("expert_up_weight", e)
           Wgate == Tensor("expert_gate_weight", e, 0, 0)
           Rgate == Resident("expert_gate_weight", e)
           Wdown == Tensor("expert_down_weight", e, 0, 0)
           Rdown == Resident("expert_down_weight", e)
           U == Tensor("expert_up", e, 0, 0)
           G == Tensor("expert_gate", e, 0, 0)
           A == Tensor("expert_activated", e, 0, 0)
           P == Tensor("expert_gated", e, 0, 0)
           B == Placed(Tensor("expert_gated", e, 0, 0), "bank_local")
           O == Tensor("expert_output", e, 0, 0)
           V == Visible(Tensor("expert_output", e, 0, 0))
           r1 == WeightMove(base, "expert_up_weight", e)
           r2 == MoECompute(m, base + 1, "MoEExpertFFN", "moe_expert_projection",
                            {Whole("dispatched"), Resident("expert_up_weight", e)},
                            Tensor("expert_up", e, 0, 0), {6, base}, m.hidden_size, m.expert_hidden_size)
           r3 == WeightMove(base + 2, "expert_gate_weight", e)
           r4 == MoECompute(m, base + 3, "MoEExpertFFN", "moe_expert_projection",
                            {Whole("dispatched"), Resident("expert_gate_weight", e)},
                            Tensor("expert_gate", e, 0, 0), {6, base + 2}, m.hidden_size, m.expert_hidden_size)
           r5 == WeightMove(base + 4, "expert_down_weight", e)
           r6 == Elementwise(base + 5, "gate_activation", {Tensor("expert_gate", e, 0, 0)},
                             Tensor("expert_activated", e, 0, 0), {base + 3})
           r7 == Elementwise(base + 6, "gated_multiply", {Tensor("expert_activated", e, 0, 0),
                             Tensor("expert_up", e, 0, 0)},
                             Tensor("expert_gated", e, 0, 0), {base + 5, base + 1})
           r8 == Residency(base + 7, "expert_intermediate_residency", Tensor("expert_gated", e, 0, 0),
                           Placed(Tensor("expert_gated", e, 0, 0), "bank_local"), {base + 6})
           r9 == MoECompute(m, base + 8, "MoEExpertFFN", "moe_expert_projection",
                            {Placed(Tensor("expert_gated", e, 0, 0), "bank_local"), Resident("expert_down_weight", e)},
                            Tensor("expert_output", e, 0, 0),
                            {base + 7, base + 4}, m.hidden_size, m.expert_hidden_size)
           r10 == Residency(base + 9, "expert_output_residency",
                            Tensor("expert_output", e, 0, 0), Visible(Tensor("expert_output", e, 0, 0)), {base + 8})
           c == <<r1, r2, r3, r4, r5, r6, r7, r8, r9, r10>>
<1>1. Expert(m, e, base) = c
  BY DEF Expert
<1>s1. Shape(r1, base, "PIMDataMove", "weight_residency", {Wup}, {Rup}, {})
  BY RecordShape DEF WeightMove
<1>s2. Shape(r2, base + 1, "MoEExpertFFN", "moe_expert_projection", {DI, Rup}, {U}, {6, base})
  BY RecordShape DEF MoECompute
<1>s3. Shape(r3, base + 2, "PIMDataMove", "weight_residency", {Wgate}, {Rgate}, {})
  BY RecordShape DEF WeightMove
<1>s4. Shape(r4, base + 3, "MoEExpertFFN", "moe_expert_projection", {DI, Rgate}, {G}, {6, base + 2})
  BY RecordShape DEF MoECompute
<1>s5. Shape(r5, base + 4, "PIMDataMove", "weight_residency", {Wdown}, {Rdown}, {})
  BY RecordShape DEF WeightMove
<1>s6. Shape(r6, base + 5, "PIMElementwise", "gate_activation", {G}, {A}, {base + 3})
  BY RecordShape DEF Elementwise
<1>s7. Shape(r7, base + 6, "PIMElementwise", "gated_multiply", {A, U}, {P}, {base + 5, base + 1})
  BY RecordShape DEF Elementwise
<1>s8. Shape(r8, base + 7, "PIMOperandResidency", "expert_intermediate_residency", {P}, {B}, {base + 6})
  BY RecordShape DEF Residency
<1>s9. Shape(r9, base + 8, "MoEExpertFFN", "moe_expert_projection", {B, Rdown}, {O}, {base + 7, base + 4})
  BY RecordShape DEF MoECompute
<1>s10. Shape(r10, base + 9, "PIMOperandResidency", "expert_output_residency", {O}, {V}, {base + 8})
  BY RecordShape DEF Residency
<1> HIDE DEF r1, r2, r3, r4, r5, r6, r7, r8, r9, r10
<1>2. /\ IsList(c) /\ Len(c) = 10
      /\ c[1] = r1 /\ c[2] = r2 /\ c[3] = r3 /\ c[4] = r4 /\ c[5] = r5
      /\ c[6] = r6 /\ c[7] = r7 /\ c[8] = r8 /\ c[9] = r9 /\ c[10] = r10
  <2>1. c \in Seq({r1, r2, r3, r4, r5, r6, r7, r8, r9, r10}) /\ Len(c) = 10
    OBVIOUS
  <2> QED BY <2>1 DEF IsList
<1> DEFINE x1 == <<"weight_residency", {Wup}, {Rup}, {}>>
<1> DEFINE x2 == <<"moe_expert_projection", {DI, Rup}, {U}, {DI, Rup}>>
<1> DEFINE x3 == <<"weight_residency", {Wgate}, {Rgate}, {}>>
<1> DEFINE x4 == <<"moe_expert_projection", {DI, Rgate}, {G}, {DI, Rgate}>>
<1> DEFINE x5 == <<"weight_residency", {Wdown}, {Rdown}, {}>>
<1> DEFINE x6 == <<"gate_activation", {G}, {A}, {G}>>
<1> DEFINE x7 == <<"gated_multiply", {A, U}, {P}, {A, U}>>
<1> DEFINE x8 == <<"expert_intermediate_residency", {P}, {B}, {P}>>
<1> DEFINE x9 == <<"moe_expert_projection", {B, Rdown}, {O}, {B, Rdown}>>
<1> DEFINE x10 == <<"expert_output_residency", {O}, {V}, {O}>>
<1>x. ExpertShapes(e) = {x1, x2, x3, x4, x5, x6, x7, x8, x9, x10}
  BY DEF ExpertShapes
<1>3. IsList(L) /\ L[7].outputs = {DI}
  BY NumberedIds
<1> HIDE DEF c, DI, Wup, Rup, Wgate, Rgate, Wdown, Rdown, U, G, A, P, B, O, V
<1>f1. Follows(L, c, 1)
  <2>1. Pure(r1)
    BY <1>s1 DEF Shape, Pure
  <2> QED BY <1>2, <1>s1, <2>1 DEF Follows, Shape
<1>f2. Follows(L, c, 2)
  <2>1. Pure(r2)
    BY <1>s2 DEF Shape, Pure
  <2> QED BY <1>2, <1>s2, <2>1 DEF Follows, Shape
<1>f3. Follows(L, c, 3)
  <2>1. Pure(r3)
    BY <1>s3 DEF Shape, Pure
  <2> QED BY <1>2, <1>s3, <2>1 DEF Follows, Shape
<1>f4. Follows(L, c, 4)
  <2>1. Pure(r4)
    BY <1>s4 DEF Shape, Pure
  <2> QED BY <1>2, <1>s4, <2>1 DEF Follows, Shape
<1>f5. Follows(L, c, 5)
  <2>1. Pure(r5)
    BY <1>s5 DEF Shape, Pure
  <2> QED BY <1>2, <1>s5, <2>1 DEF Follows, Shape
<1>f6. Follows(L, c, 6)
  <2>1. Pure(r6)
    BY <1>s6 DEF Shape, Pure
  <2> QED BY <1>2, <1>s6, <2>1 DEF Follows, Shape
<1>f7. Follows(L, c, 7)
  <2>1. Pure(r7)
    BY <1>s7 DEF Shape, Pure
  <2> QED BY <1>2, <1>s7, <2>1 DEF Follows, Shape
<1>f8. Follows(L, c, 8)
  <2>1. Pure(r8)
    BY <1>s8 DEF Shape, Pure
  <2> QED BY <1>2, <1>s8, <2>1 DEF Follows, Shape
<1>f9. Follows(L, c, 9)
  <2>1. Pure(r9)
    BY <1>s9 DEF Shape, Pure
  <2> QED BY <1>2, <1>s9, <2>1 DEF Follows, Shape
<1>f10. Follows(L, c, 10)
  <2>1. Pure(r10)
    BY <1>s10 DEF Shape, Pure
  <2> QED BY <1>2, <1>s10, <2>1 DEF Follows, Shape
<1>a. At(L, c, 6).outputs = {DI}
  <2>1. At(L, c, 6) = L[6 + 1]
    BY DEF At
  <2> QED BY <1>3, <2>1
<1>a1. At(L, c, base).outputs = {Rup}
  <2>1. At(L, c, base) = c[1]
    BY DEF At
  <2> QED BY <1>2, <1>s1, <2>1 DEF Shape
<1>a2. At(L, c, base + 1).outputs = {U}
  <2>1. At(L, c, base + 1) = c[2]
    BY DEF At
  <2> QED BY <1>2, <1>s2, <2>1 DEF Shape
<1>a3. At(L, c, base + 2).outputs = {Rgate}
  <2>1. At(L, c, base + 2) = c[3]
    BY DEF At
  <2> QED BY <1>2, <1>s3, <2>1 DEF Shape
<1>a4. At(L, c, base + 3).outputs = {G}
  <2>1. At(L, c, base + 3) = c[4]
    BY DEF At
  <2> QED BY <1>2, <1>s4, <2>1 DEF Shape
<1>a5. At(L, c, base + 4).outputs = {Rdown}
  <2>1. At(L, c, base + 4) = c[5]
    BY DEF At
  <2> QED BY <1>2, <1>s5, <2>1 DEF Shape
<1>a6. At(L, c, base + 5).outputs = {A}
  <2>1. At(L, c, base + 5) = c[6]
    BY DEF At
  <2> QED BY <1>2, <1>s6, <2>1 DEF Shape
<1>a7. At(L, c, base + 6).outputs = {P}
  <2>1. At(L, c, base + 6) = c[7]
    BY DEF At
  <2> QED BY <1>2, <1>s7, <2>1 DEF Shape
<1>a8. At(L, c, base + 7).outputs = {B}
  <2>1. At(L, c, base + 7) = c[8]
    BY DEF At
  <2> QED BY <1>2, <1>s8, <2>1 DEF Shape
<1>a9. At(L, c, base + 8).outputs = {O}
  <2>1. At(L, c, base + 8) = c[9]
    BY DEF At
  <2> QED BY <1>2, <1>s9, <2>1 DEF Shape
<1>a10. At(L, c, base + 9).outputs = {V}
  <2>1. At(L, c, base + 9) = c[10]
    BY DEF At
  <2> QED BY <1>2, <1>s10, <2>1 DEF Shape
<1>h1. ShapeIn(L, c, 1) = x1
  BY <1>2, <1>s1 DEF Shape, ShapeIn, Outputs
<1>h2. ShapeIn(L, c, 2) = x2
  <2>1. Outputs(L, c, {6, base}) = {DI, Rup}
    BY <1>a, <1>a1 DEF Outputs
  <2> QED BY <1>2, <1>s2, <2>1 DEF Shape, ShapeIn
<1>h3. ShapeIn(L, c, 3) = x3
  BY <1>2, <1>s3 DEF Shape, ShapeIn, Outputs
<1>h4. ShapeIn(L, c, 4) = x4
  <2>1. Outputs(L, c, {6, base + 2}) = {DI, Rgate}
    BY <1>a, <1>a3 DEF Outputs
  <2> QED BY <1>2, <1>s4, <2>1 DEF Shape, ShapeIn
<1>h5. ShapeIn(L, c, 5) = x5
  BY <1>2, <1>s5 DEF Shape, ShapeIn, Outputs
<1>h6. ShapeIn(L, c, 6) = x6
  <2>1. Outputs(L, c, {base + 3}) = {G}
    BY <1>a4 DEF Outputs
  <2> QED BY <1>2, <1>s6, <2>1 DEF Shape, ShapeIn
<1>h7. ShapeIn(L, c, 7) = x7
  <2>1. Outputs(L, c, {base + 5, base + 1}) = {A, U}
    BY <1>a6, <1>a2 DEF Outputs
  <2> QED BY <1>2, <1>s7, <2>1 DEF Shape, ShapeIn
<1>h8. ShapeIn(L, c, 8) = x8
  <2>1. Outputs(L, c, {base + 6}) = {P}
    BY <1>a7 DEF Outputs
  <2> QED BY <1>2, <1>s8, <2>1 DEF Shape, ShapeIn
<1>h9. ShapeIn(L, c, 9) = x9
  <2>1. Outputs(L, c, {base + 7, base + 4}) = {B, Rdown}
    BY <1>a8, <1>a5 DEF Outputs
  <2> QED BY <1>2, <1>s9, <2>1 DEF Shape, ShapeIn
<1>h10. ShapeIn(L, c, 10) = x10
  <2>1. Outputs(L, c, {base + 8}) = {O}
    BY <1>a9 DEF Outputs
  <2> QED BY <1>2, <1>s10, <2>1 DEF Shape, ShapeIn
<1> HIDE DEF x1, x2, x3, x4, x5, x6, x7, x8, x9, x10
<1>4. \A j : j \in 1 .. Len(c) <=> j = 1 \/ j = 2 \/ j = 3 \/ j = 4 \/ j = 5 \/ j = 6 \/ j = 7
                                   \/ j = 8 \/ j = 9 \/ j = 10
  BY <1>2
<1>5. \A j \in 1 .. Len(c) : Follows(L, c, j)
  BY <1>4, <1>f1, <1>f2, <1>f3, <1>f4, <1>f5, <1>f6, <1>f7, <1>f8, <1>f9, <1>f10
<1>6. {x1, x2, x3, x4, x5, x6, x7, x8, x9, x10} = {ShapeIn(L, c, j) : j \in 1 .. Len(c)}
  BY <1>4, <1>h1, <1>h2, <1>h3, <1>h4, <1>h5, <1>h6, <1>h7, <1>h8, <1>h9, <1>h10
<1> QED BY <1>1, <1>2, <1>5, <1>6, <1>x DEF Adds

(* Overlapped or not, every selected expert comes, and no other.           *)
LEMMA OrderIs ==
  ASSUME NEW m, IsList(m.selected_experts)
  PROVE  /\ IsList(ExpertOrder(m))
         /\ \A x : (\E i \in 1 .. Len(ExpertOrder(m)) : ExpertOrder(m)[i] = x)
                     <=> \E i \in 1 .. Len(m.selected_experts) : m.selected_experts[i] = x
<1> DEFINE q == m.selected_experts
           order == ExpertOrder(m)
           n == Len(q)
           even == (n + 1) \div 2
<1>1. n \in Nat
  BY ListIs
<1>2. CASE m.schedule_policy # "overlap_selected_experts"
  <2>1. order = q
    BY <1>2 DEF ExpertOrder
  <2> QED BY <2>1
<1>3. CASE m.schedule_policy = "overlap_selected_experts"
  <2> DEFINE At0(i) == IF i <= even THEN 2 * i - 1 ELSE 2 * (i - even)
  <2>1. order = [i \in 1 .. n |-> q[At0(i)]]
    BY <1>3 DEF ExpertOrder
  <2>2. order = [i \in 1 .. n |-> order[i]]
    BY <2>1
  <2>3. \A i \in 1 .. n : order[i] = q[At0(i)]
    BY <2>1
  <2>4. \A i \in 1 .. n : At0(i) \in 1 .. n
    <3> HIDE DEF order, q, n
    <3> QED BY <1>1
  <2>5. ASSUME NEW k \in 1 .. n PROVE \E i \in 1 .. n : At0(i) = k
    <3> HIDE DEF order, q, n
    <3>1. CASE k % 2 = 1
      <4>1. (k + 1) \div 2 \in 1 .. n /\ (k + 1) \div 2 <= even /\ 2 * ((k + 1) \div 2) - 1 = k
        BY <1>1, <3>1
      <4>2. At0((k + 1) \div 2) = k
        BY <4>1
      <4> QED BY <4>1, <4>2
    <3>2. CASE k % 2 # 1
      <4> DEFINE v == even + k \div 2
      <4>1. v \in 1 .. n /\ ~(v <= even) /\ 2 * (v - even) = k
        BY <1>1, <3>2
      <4> HIDE DEF v, even
      <4>2. At0(v) = k
        BY <4>1
      <4> QED BY <4>1, <4>2
    <3> QED BY <3>1, <3>2
  <2> HIDE DEF order, q, n, At0
  <2>6. IsList(order) /\ Len(order) = n
    BY <1>1, <2>2, ListOfFunction
  <2>7. ASSUME NEW i \in 1 .. n PROVE \E k \in 1 .. n : q[k] = order[i]
    BY <2>3, <2>4
  <2>8. ASSUME NEW k \in 1 .. n PROVE \E i \in 1 .. n : order[i] = q[k]
    BY <2>3, <2>5
  <2> QED BY <2>6, <2>7, <2>8 DEF order, q, n
<1> QED BY <1>2, <1>3

(* What the records of an operation make can be read off the shapes.       *)
Doing(L, op)  == {r \in Range(L) : r.op = op}
Results(R)    == UNION {r.outputs : r \in R}
MadeBy(S, op) == UNION {s[3] : s \in {x \in S : x[1] = op}}

LEMMA OperationMakes ==
  ASSUME NEW L, Numbered(L), NEW op, NEW c
  PROVE  /\ Results(Doing(L, op)) = MadeBy(Shapes(L), op)
         /\ Ids(Doing(L, op)) \subseteq 0 .. Len(L) - 1
         /\ Outputs(L, c, Ids(Doing(L, op))) = MadeBy(Shapes(L), op)
<1> DEFINE done == Doing(L, op)
           taken == Results(Doing(L, op))
           made == MadeBy(Shapes(L), op)
           deps == Ids(done)
<1>1. /\ Len(L) \in Nat
      /\ \A i \in 1 .. Len(L) : L[i] \in Range(L) /\ L[i].record_id = i - 1
      /\ \A r \in Range(L) : \E i \in 1 .. Len(L) : L[i] = r
  BY NumberedIds
<1>2. \A s : s \in Shapes(L) <=> \E i \in 1 .. Len(L) : s = ShapeIn(<<>>, L, i)
  BY ShapesAre
<1>3. \A i : ShapeIn(<<>>, L, i)[1] = L[i].op /\ ShapeIn(<<>>, L, i)[3] = L[i].outputs
  BY DEF ShapeIn
<1>4. \A t : t \in taken <=> \E i \in 1 .. Len(L) : L[i].op = op /\ t \in L[i].outputs
  BY <1>1 DEF Results, Doing
<1>5. \A t : t \in made <=> \E s \in Shapes(L) : s[1] = op /\ t \in s[3]
  BY DEF MadeBy
<1>6. \A d : d \in deps <=> \E i \in 1 .. Len(L) : L[i].op = op /\ d = i - 1
  <2>1. \A d : d \in deps <=> \E r \in done : d = r.record_id
    BY DEF Ids
  <2>2. \A r : r \in done <=> \E i \in 1 .. Len(L) : r = L[i] /\ L[i].op = op
    BY <1>1 DEF Doing
  <2> HIDE DEF deps, done
  <2> QED BY <1>1, <2>1, <2>2
<1> HIDE DEF done, taken, made, deps
<1>7. taken = made
  <2>1. ASSUME NEW t \in taken PROVE t \in made
    <3>1. PICK i \in 1 .. Len(L) : L[i].op = op /\ t \in L[i].outputs
      BY <1>4
    <3>2. ShapeIn(<<>>, L, i) \in Shapes(L)
      BY <1>2
    <3> QED BY <1>3, <1>5, <3>1, <3>2
  <2>2. ASSUME NEW t \in made PROVE t \in taken
    <3>1. PICK s \in Shapes(L) : s[1] = op /\ t \in s[3]
      BY <1>5
    <3>2. PICK i \in 1 .. Len(L) : s = ShapeIn(<<>>, L, i)
      BY <1>2
    <3> QED BY <1>3, <1>4, <3>1, <3>2
  <2> QED BY <2>1, <2>2
<1>8. deps \subseteq 0 .. Len(L) - 1
  BY <1>1, <1>6
<1>9. Outputs(L, c, deps) = taken
  <2>1. ASSUME NEW d \in deps PROVE At(L, c, d) = L[d + 1]
    BY <1>1, <1>8 DEF At
  <2>2. \A t : t \in Outputs(L, c, deps) <=> \E d \in deps : t \in L[d + 1].outputs
    BY <2>1 DEF Outputs
  <2>3. ASSUME NEW t, NEW d \in deps, t \in L[d + 1].outputs PROVE t \in taken
    <3>1. PICK i \in 1 .. Len(L) : L[i].op = op /\ d = i - 1
      BY <1>6
    <3>2. d + 1 = i
      BY <3>1
    <3> QED BY <1>4, <2>3, <3>1, <3>2
  <2>4. ASSUME NEW t \in taken PROVE \E d \in deps : t \in L[d + 1].outputs
    <3>1. PICK i \in 1 .. Len(L) : L[i].op = op /\ t \in L[i].outputs
      BY <1>4
    <3>2. i - 1 \in deps /\ (i - 1) + 1 = i
      BY <1>6, <3>1
    <3> QED BY <3>1, <3>2
  <2> QED BY <2>2, <2>3, <2>4
<1> QED BY <1>7, <1>8, <1>9 DEF done, taken, made, deps

(* The shapes of a mixture of experts: what combines them takes the        *)
(* results among the shapes S of the routing and of the experts.           *)
Combined(S) ==
  LET taken == MadeBy(S, "expert_output_residency")
      C     == Whole("combined")
  IN  S \cup {<<"MoECombine", taken, {C}, taken>>,
              <<"moe_expert_output_combine_materialized", {C}, {Placed(C, "materialized")}, {C}>>}

LEMMA MoEShapes ==
  ASSUME NEW m, IsList(m.selected_experts)
  PROVE  LET q == m.selected_experts
         IN  /\ Numbered(MoE(m))
             /\ Shapes(MoE(m)) = Combined(Shapes(Routing(m)) \cup UNION {ExpertShapes(q[i]) : i \in 1 .. Len(q)})
<1> DEFINE q == m.selected_experts
           order == ExpertOrder(m)
           n == Len(order)
           base == Routing(m)
           chunk == [p \in (DOMAIN order) \X Nat |-> Expert(m, order[p[1]], p[2])]
           shapes == [i \in 1 .. n |-> ExpertShapes(order[i])]
           each == UNION {ExpertShapes(q[i]) : i \in 1 .. Len(q)}
           L == AppendEach(base, chunk, n)
           results == Doing(L, "expert_output_residency")
           taken == Results(results)
           next == Len(L)
           C == Whole("combined")
           D == Placed(Whole("combined"), "materialized")
           deps == Ids(results)
           a == Accounting(next, "MoECombine", taken, C, Ids(results))
           b == DynamicMove(next + 1, "moe_expert_output_combine_materialized", C, D, {next})
           c == <<a, b>>
           made == MadeBy(Shapes(L), "expert_output_residency")
           x1 == <<"MoECombine", made, {C}, made>>
           x2 == <<"moe_expert_output_combine_materialized", {C}, {D}, {C}>>
<1>1. MoE(m) = L \o c
  BY DEF MoE, Doing, Results
<1>2. IsList(order) /\ n \in Nat /\ DOMAIN order = 1 .. n
  <2>1. IsList(order)
    BY OrderIs
  <2> QED BY <2>1, ListIs
<1>o. each = UNION {ExpertShapes(order[i]) : i \in 1 .. n}
  <2>1. \A x : (\E i \in 1 .. n : order[i] = x) <=> \E i \in 1 .. Len(q) : q[i] = x
    BY OrderIs
  <2> HIDE DEF q, n, order
  <2> QED BY <2>1
<1> HIDE DEF order
<1>3. Numbered(base) /\ Len(base) = 7 /\ base[7].outputs = {Whole("dispatched")}
  BY RoutingNumbered
<1> HIDE DEF base
<1>4. Draws(base, chunk, shapes, n)
  <2> SUFFICES ASSUME NEW i \in 1 .. n, NEW L0, Numbered(L0), Continues(L0, base)
               PROVE  Adds(L0, chunk[<<i, Len(L0)>>], shapes[i])
    BY DEF Draws
  <2>1. Len(L0) \in Nat
    BY NumberedIds
  <2>2. chunk[<<i, Len(L0)>>] = Expert(m, order[i], Len(L0))
    <3>1. <<i, Len(L0)>> \in (DOMAIN order) \X Nat
      BY <1>2, <2>1
    <3> QED BY <3>1
  <2>3. shapes[i] = ExpertShapes(order[i])
    OBVIOUS
  <2>4. Len(L0) > 6 /\ L0[7] = base[7]
    BY <1>3, <2>1 DEF Continues
  <2>5. L0[7].outputs = {Whole("dispatched")}
    BY <1>3, <2>4
  <2> HIDE DEF chunk, shapes
  <2> QED BY <2>1, <2>2, <2>3, <2>4, <2>5, ExpertAdds
<1>e. UNION {shapes[i] : i \in 1 .. n} = UNION {ExpertShapes(order[i]) : i \in 1 .. n}
  OBVIOUS
<1> HIDE DEF chunk, shapes
<1>5. Grows(base, L, each)
  <2>1. Grows(base, L, UNION {shapes[i] : i \in 1 .. n})
    BY <1>2, <1>3, <1>4, EachGrows
  <2> HIDE DEF each
  <2> QED BY <2>1, <1>e, <1>o
<1> HIDE DEF L, each
<1>6. Numbered(L) /\ Shapes(L) = Shapes(base) \cup each /\ next \in Nat /\ IsList(L)
  BY <1>5, NumberedIds DEF Grows
<1>7. /\ taken = made /\ deps \subseteq 0 .. next - 1
      /\ \A cc : Outputs(L, cc, deps) = made
  <2>1. Numbered(L)
    BY <1>6
  <2> QED BY <2>1, OperationMakes
<1>9. Shape(a, next, "MoECombine", "MoECombine", taken, {C}, deps)
  BY RecordShape DEF Accounting
<1>10. Shape(b, next + 1, "PIMDataMove", "moe_expert_output_combine_materialized", {C}, {D}, {next})
  BY RecordShape DEF DynamicMove
<1>s. Combined(Shapes(L)) = Shapes(L) \cup {x1, x2}
  BY DEF Combined
<1> HIDE DEF a, b
<1>11. IsList(c) /\ Len(c) = 2 /\ c[1] = a /\ c[2] = b
  BY ListOfTwo
<1> HIDE DEF c, C, D, taken, deps, made
<1>12. Follows(L, c, 1)
  <2>1. Pure(a)
    BY <1>9 DEF Shape, Pure
  <2>2. next + 1 - 1 = next /\ next + 1 - 2 = next - 1
    BY <1>6
  <2> QED BY <1>7, <1>9, <1>11, <2>1, <2>2 DEF Follows, Shape
<1>13. Follows(L, c, 2)
  <2>1. Pure(b)
    BY <1>10 DEF Shape, Pure
  <2> QED BY <1>6, <1>10, <1>11, <2>1 DEF Follows, Shape
<1>14. ShapeIn(L, c, 1) = x1
  BY <1>7, <1>9, <1>11 DEF Shape, ShapeIn
<1>15. ShapeIn(L, c, 2) = x2
  <2>1. At(L, c, next) = c[1]
    BY <1>6 DEF At
  <2>2. Outputs(L, c, {next}) = {C}
    BY <2>1, <1>9, <1>11 DEF Outputs, Shape
  <2> QED BY <1>10, <1>11, <2>2 DEF Shape, ShapeIn
<1>16. \A j : j \in 1 .. Len(c) <=> j = 1 \/ j = 2
  BY <1>11
<1> HIDE DEF x1, x2
<1>17. Adds(L, c, {x1, x2})
  <2>1. {x1, x2} = {ShapeIn(L, c, j) : j \in 1 .. Len(c)}
    BY <1>14, <1>15, <1>16
  <2> QED BY <1>11, <1>12, <1>13, <1>16, <2>1 DEF Adds
<1>18. Grows(L, L \o c, {x1, x2})
  BY <1>6, <1>17, AddsGrows
<1>19. Numbered(MoE(m)) /\ Shapes(MoE(m)) = Combined(Shapes(L))
  BY <1>1, <1>18, <1>s DEF Grows
<1>20. Shapes(L) = Shapes(Routing(m)) \cup UNION {ExpertShapes(q[i]) : i \in 1 .. Len(q)}
  BY <1>6 DEF base, each
<1> QED BY <1>19, <1>20

(* In every generated trace, whatever the tiles, heads and experts.        *)
LEMMA DecodeReorders ==
  ASSUME NEW m, m.num_heads \in Nat, IsList(CacheTiles(m)),
         {"num_heads", "past_len", "score_tile_tokens"} \subseteq DOMAIN m
  PROVE  Shapes(DecodeAttention(m)) = Shapes(DecodeAttention(Serialized(m)))
<1> DEFINE z == Serialized(m)
<1>1. z.num_heads = m.num_heads /\ z.past_len = m.past_len /\ z.score_tile_tokens = m.score_tile_tokens
  BY SerializedFields
<1> HIDE DEF z
<1>2. CacheTiles(z) = CacheTiles(m)
  BY <1>1 DEF CacheTiles
<1>3. z.num_heads \in Nat /\ IsList(CacheTiles(z))
  BY <1>1, <1>2
<1> DEFINE All(n, heads) == UNION {ScoreShapes(n, h) \cup WeighShapes(n, h) : h \in 0 .. heads - 1}
<1>4. Shapes(DecodeAttention(m)) = All(Len(CacheTiles(m)), m.num_heads)
  BY DecodeShapes
<1>5. Shapes(DecodeAttention(z)) = All(Len(CacheTiles(z)), z.num_heads)
  BY <1>3, DecodeShapes
<1> HIDE DEF All
<1> QED BY <1>1, <1>2, <1>4, <1>5 DEF z

LEMMA RoutingSame ==
  ASSUME NEW m, NEW z, z.seq_len = m.seq_len, z.hidden_size = m.hidden_size, z.num_experts = m.num_experts,
         z.datatype = m.datatype
  PROVE  Routing(z) = Routing(m)
BY DEF Routing, MoECompute, Compute

LEMMA MoEReorders ==
  ASSUME NEW m, IsList(m.selected_experts),
         {"seq_len", "hidden_size", "num_experts", "selected_experts", "datatype"} \subseteq DOMAIN m
  PROVE  Shapes(MoE(m)) = Shapes(MoE(Serialized(m)))
<1> DEFINE z == Serialized(m)
<1>1. /\ z.seq_len = m.seq_len /\ z.hidden_size = m.hidden_size /\ z.num_experts = m.num_experts
      /\ z.datatype = m.datatype /\ z.selected_experts = m.selected_experts
  BY SerializedFields
<1> HIDE DEF z
<1>2. Routing(z) = Routing(m)
  BY <1>1, RoutingSame
<1> DEFINE All(routing, q) == Combined(Shapes(routing) \cup UNION {ExpertShapes(q[i]) : i \in 1 .. Len(q)})
<1>3. Shapes(MoE(m)) = All(Routing(m), m.selected_experts)
  BY MoEShapes
<1>4. IsList(z.selected_experts)
  BY <1>1
<1>5. Shapes(MoE(z)) = All(Routing(z), z.selected_experts)
  BY <1>4, MoEShapes
<1> HIDE DEF All
<1> QED BY <1>1, <1>2, <1>3, <1>5 DEF z

(* Overlapping the heads of attention, or the selected experts, changes    *)
(* only the order of a block's records.                                    *)
THEOREM AlwaysOverlapReorders == Spec => []OverlapReorders
<1>1. Accepted => OverlapReorders
  <2> SUFFICES ASSUME Accepted PROVE OverlapReorders
    OBVIOUS
  <2>1. attention.num_heads \in Nat \ {0} /\ IsList(CacheTiles(attention))
    BY Manifests
  <2>2. workload \in Workloads
    BY DEF Accepted
  <2>3. {"num_heads", "past_len", "score_tile_tokens"} \subseteq DOMAIN attention
    BY <2>2, ManifestsAssumption DEF attention
  <2>4. Shapes(DecodeAttention(attention)) = Shapes(DecodeAttention(Serialized(attention)))
    BY <2>1, <2>3, DecodeReorders
  <2>5. ASSUME isMoE PROVE Shapes(MoE(feedForward)) = Shapes(MoE(Serialized(feedForward)))
    <3>1. IsList(feedForward.selected_experts)
      BY <2>5, Manifests
    <3>2. {"seq_len", "hidden_size", "num_experts", "selected_experts", "datatype"} \subseteq DOMAIN feedForward
      BY <2>2, <2>5, ManifestsAssumption DEF isMoE, feedForward
    <3> QED BY <3>1, <3>2, MoEReorders
  <2> QED BY <2>4, <2>5 DEF OverlapReorders
<1>2. Init => Accepted
  BY DEF Init, Accepted
<1>3. Accepted /\ [Next]_vars => Accepted'
  BY DEF Accepted, Supported, vars, Next, LayerStart, Projections, CacheWrites, Attention, OutputProjection,
         FeedForward, LayerTransition, FinalDrain, Extend, Emit
<1> QED BY <1>1, <1>2, <1>3, PTL DEF Spec
=============================================================================
