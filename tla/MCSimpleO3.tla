----------------------------- MODULE MCSimpleO3 -----------------------------
(***************************************************************************)
(* Lines of two bytes: bit 0 of an address is its place in the line, bit 1 *)
(* is the set where there are two. One set holds two of the three lines    *)
(* that compete for it, of which one has two addresses.                    *)
(***************************************************************************)
EXTENDS SimpleO3

a  == {}
a2 == {0}
b  == {2}
x  == {3}
y  == {1}
MCAddrs == {a, a2, b, x, y}

(* The masks of the powers of two, and of no other numbers, are what the   *)
(* offsets shift out.                                                      *)
ASSUME MasksOfPowers ==
  \A n \in 1 .. 30 : (Mask(n) = 0 .. Log2(n) - 1) <=> \E k \in 0 .. 4 : n = 2 ^ k

Inst(n, l, s) == [bubbles |-> n, load |-> l, store |-> s]

(* Two cores that load and store each other's lines.                       *)
SharedTraces ==
  {<<t, u>> : t \in {<<Inst(0, l, s), Inst(1, m, NoAddr)>> : l \in {a, b}, s \in {NoAddr, a2, x}, m \in {a2, x}},
              u \in {<<Inst(0, l, s), Inst(1, x, NoAddr)>> : l \in {a, b, y}, s \in {NoAddr, a2}}}

(* Every line is used by one core and under one address: the first core    *)
(* keeps hitting its line, which the lines of the second one may push out. *)
OwnTraces ==
  {<<<<Inst(0, a, s), Inst(0, a, NoAddr)>>, <<Inst(1, x, t), Inst(0, l, NoAddr)>>>> :
     s \in {NoAddr, a}, t \in {NoAddr, x}, l \in {x, y, b}}

CacheTraces == SharedTraces \cup OwnTraces

(* a is hit while x, the other line of the set, is in flight, evicted by   *)
(* b, fetched again when x has come, and a2 waits for that fetch when the  *)
(* hit is due.                                                             *)
EvictedTraces ==
  {[c \in Cores |-> <<Inst(0, x, NoAddr), Inst(0, a, NoAddr), Inst(4, a, NoAddr), Inst(0, b, NoAddr),
                      Inst(0, a, NoAddr), Inst(0, a2, NoAddr)>>]}
=============================================================================
