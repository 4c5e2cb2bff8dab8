----------------------------- MODULE MemoryPort -----------------------------
(***************************************************************************)
(* What a memory controller promises its frontend: a request it has        *)
(* accepted is answered, once. Requests are numbered in the order of their *)
(* acceptance; a write may be answered as it is accepted.                  *)
(***************************************************************************)
EXTENDS Integers

CONSTANT MaxSend      \* number of requests that may be sent

VARIABLES
  sent,               \* number of requests accepted
  replies             \* replies[i]: number of answers to request i

portVars == <<sent, replies>>

PortInit ==
  /\ sent = 0
  /\ replies = [i \in 1 .. MaxSend |-> 0]

Unanswered == {i \in 1 .. sent : replies[i] = 0}

AcceptRequest ==
  /\ sent < MaxSend
  /\ sent' = sent + 1
  /\ \/ UNCHANGED replies
     \/ replies' = [replies EXCEPT ![sent + 1] = 1]

(* Some requests, all of them accepted and unanswered, are answered.       *)
AnswerRequests ==
  \E S \in SUBSET Unanswered :
    /\ S # {}
    /\ replies' = [i \in 1 .. MaxSend |-> IF i \in S THEN 1 ELSE replies[i]]
    /\ UNCHANGED sent

PortNext == AcceptRequest \/ AnswerRequests

PortSpec == PortInit /\ [][PortNext]_portVars
=============================================================================
