----------------------------- MODULE PIMSession -----------------------------
(***************************************************************************)
(* What the modes of an LPDDR5-PIM rank are for (README, LPDDR5-PIM        *)
(* execution semantics): an all-bank operation is started in mode HAB_PIM, *)
(* with operands that were loaded in mode HAB, and holds its rank in that  *)
(* mode until it is done. At most one is in progress in the channel. Its   *)
(* operands can be used again by the next one, until the rank leaves the   *)
(* mode.                                                                   *)
(***************************************************************************)
CONSTANT Ranks

VARIABLES
  mode,      \* mode[r]: "SB", "HAB" or "HAB_PIM"
  loaded,    \* the ranks whose operands are loaded
  busy       \* the ranks, one at most, with an operation in progress

sessionVars == <<mode, loaded, busy>>

SessionInit ==
  /\ mode = [r \in Ranks |-> "SB"]
  /\ loaded = {}
  /\ busy = {}

(* The state after the operation in progress has completed, if done.       *)
BusyAfter(done)   == IF done THEN {} ELSE busy
LoadedAfter(done) == IF done THEN loaded \cup busy ELSE loaded

Complete(done) ==
  busy' = BusyAfter(done) /\ loaded' = LoadedAfter(done) /\ UNCHANGED mode

(* Leaving for SB or HAB forgets the operands, entering HAB_PIM keeps them. *)
Switch(done, r, m) ==
  /\ r \notin BusyAfter(done)
  /\ mode' = [mode EXCEPT ![r] = m]
  /\ loaded' = IF m = "HAB_PIM" THEN LoadedAfter(done) ELSE LoadedAfter(done) \ {r}
  /\ busy' = BusyAfter(done)

Load(done, r) ==
  /\ mode[r] = "HAB" /\ r \notin BusyAfter(done)
  /\ loaded' = LoadedAfter(done) \cup {r}
  /\ busy' = BusyAfter(done)
  /\ UNCHANGED mode

Start(done, r) ==
  /\ mode[r] = "HAB_PIM" /\ r \in LoadedAfter(done) /\ BusyAfter(done) = {}
  /\ busy' = {r}
  /\ loaded' = LoadedAfter(done) \ {r}
  /\ UNCHANGED mode

(* In one cycle an operation may complete and a command be issued.         *)
SessionNext ==
  \E done \in BOOLEAN :
    \/ Complete(done)
    \/ \E r \in Ranks : \/ \E m \in {"SB", "HAB", "HAB_PIM"} : Switch(done, r, m)
                        \/ Load(done, r)
                        \/ Start(done, r)

SessionSpec == SessionInit /\ [][SessionNext]_sessionVars
=============================================================================
