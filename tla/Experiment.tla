----------------------------- MODULE Experiment -----------------------------
(***************************************************************************)
(* The ramulator-pimscope command: "run" resolves a manifest, generates    *)
(* and lowers its workload, replays the trace in a worker process under a  *)
(* time limit (or in its own process when there is none) and writes the    *)
(* result file; "validate-result" reads that file. The worker sends one    *)
(* answer through a pipe; it may also never finish, fail, or be killed by  *)
(* the system or by a fault in native code, in the middle of its answer.   *)
(* A command may be killed, too. Commands follow one another.              *)
(***************************************************************************)
EXTENDS ExperimentManifest

CONSTANTS
  Commands,    \* what may be run: a raw manifest with an override or none
  Lowered(_),  \* the trace a resolved manifest is lowered to
  Banks(_),    \* the bank units of a resolved manifest's device
  Replays(_),  \* the counters that replaying a trace may end with
  MaxCommands  \* bound on the commands in a behaviour

(* What a command resolves: its raw manifest, overridden or not.           *)
ManifestOf(c) ==
  LET raw == LoadRawManifest(c.raw)
  IN  ResolveExperiment(IF c.override = <<>> THEN raw ELSE Override(raw, c.override[1]))

(* A concrete record is repeated at least once.                            *)
ASSUME LoweredAssumption ==
  \A c \in Commands :
    LET m == ManifestOf(c)
    IN  Loadable(c.raw) /\ Accepted(m) /\ Generates(m.workload) => Lowered(m).records <= Lowered(m).expanded

NoFile == [state |-> "none"]
Torn   == [state |-> "torn"]

VARIABLES
  commands,  \* the number of commands so far
  exit,      \* the exit code of the last command that has returned
  file,      \* the result file
  worker,    \* the worker process
  pc,        \* where the command stands
  manifest,  \* its resolved manifest
  left,      \* the time left to its deadline
  pipe,      \* the answer in the pipe: none, a part of it, all of it
  answer,    \* the answer the worker sends or has sent
  received,  \* the answer the command has got
  replayed   \* what has in truth been replayed for it (history)

locals == <<manifest, left, pipe, answer, received, replayed>>
vars   == <<commands, exit, file, worker, pc, locals>>

workload == manifest.workload
trace    == Lowered(manifest)
NoManifest == [hardware |-> DefaultHardware, workload |-> DefaultWorkload]
NoAnswer == [kind |-> "none"]
Error    == [kind |-> "error"]
Payload(counts) == [kind |-> "payload", simulation |-> Simulation(manifest, trace, counts)]
result   == Result(manifest, trace, received.simulation, Banks(manifest))

Forget ==
  /\ manifest' = NoManifest /\ left' = 0 /\ pipe' = "empty"
  /\ answer' = NoAnswer /\ received' = NoAnswer /\ replayed' = <<>>

(* The command goes on, or it ends and the shell sees its exit code. main  *)
(* reports ImportError, OSError, RuntimeError and ValueError by code 2.    *)
Continue(next) == pc' = next /\ UNCHANGED exit
Return(code)   == pc' = "idle" /\ exit' = code /\ Forget

(* Seeded fault: an error ends the command like a failed replay.           *)
RaiseAsFailure == Return(1)

Raise == Return(2)
-----------------------------------------------------------------------------
Resolve(c) ==
  /\ pc = "idle" /\ commands < MaxCommands /\ commands' = commands + 1
  /\ IF Loadable(c.raw) /\ Accepted(ManifestOf(c))
     THEN /\ Continue("prepare") /\ manifest' = ManifestOf(c)
          /\ UNCHANGED <<left, pipe, answer, received, replayed>>
     ELSE Raise
  /\ worker' = "none" /\ UNCHANGED file

(* The generators, the lowering and the checks before the replay.          *)
Prepare ==
  /\ pc = "prepare"
  /\ IF Generates(workload) /\ PreflightPasses(workload, trace) /\ MaterializationPasses(workload, trace)
     THEN /\ Continue(IF workload.simulation_timeout_seconds = 0 THEN "replay" ELSE "start")
          /\ UNCHANGED locals
     ELSE Raise
  /\ UNCHANGED <<commands, file, worker>>

(* _replay without a time limit: the native code runs in this process.     *)
ReplayHere ==
  /\ pc = "replay"
  /\ \/ \E counts \in Replays(trace) :
          /\ replayed' = <<manifest, counts>> /\ received' = Payload(counts)
          /\ Continue("write") /\ UNCHANGED <<manifest, left, pipe, answer>>
     \/ Raise
  /\ UNCHANGED <<commands, file, worker>>
-----------------------------------------------------------------------------
(* _run_process. A process that has ended, or has closed its end of the    *)
(* pipe, makes the pipe readable: poll then finds the end of the file.     *)
StartProcess ==
  /\ pc = "start" /\ Continue("poll")
  /\ worker' = "working" /\ left' = workload.simulation_timeout_seconds
  /\ UNCHANGED <<commands, file, manifest, pipe, answer, received, replayed>>

(* Seeded fault: the answer is awaited without a look at the pipe.         *)
ReadableAlways == TRUE

Readable == pipe # "empty" \/ worker \in {"closing", "ended"}

Poll ==
  /\ pc = "poll" /\ Continue(IF Readable THEN "receive" ELSE "late?")
  /\ UNCHANGED <<commands, file, worker, locals>>

(* Seeded fault: at the deadline the worker is left to itself.             *)
CheckDeadlineOnly ==
  /\ pc = "late?"
  /\ IF left = 0 THEN Raise ELSE Continue("poll") /\ UNCHANGED locals
  /\ UNCHANGED <<commands, file, worker>>

CheckDeadline ==
  /\ pc = "late?"
  /\ IF left = 0 THEN worker' = "ended" /\ Raise
     ELSE Continue("poll") /\ UNCHANGED <<worker, locals>>
  /\ UNCHANGED <<commands, file>>

(* recv waits for the whole answer. Its end is an EOFError if it comes     *)
(* before the answer, an OSError, which nothing here catches, within it.   *)
Receive ==
  /\ pc = "receive"
  /\ \/ /\ pipe = "whole" /\ received' = answer
        /\ Continue("join") /\ UNCHANGED <<manifest, left, pipe, answer, replayed>>
     \/ /\ pipe = "empty" /\ worker \in {"closing", "ended"} /\ received' = Error
        /\ Continue("join") /\ UNCHANGED <<manifest, left, pipe, answer, replayed>>
     \/ pipe = "part" /\ worker = "ended" /\ Raise
  /\ UNCHANGED <<commands, file, worker>>

Join ==
  /\ pc = "join" /\ worker = "ended"
  /\ IF received.kind = "payload" THEN Continue("write") /\ UNCHANGED locals ELSE Raise
  /\ UNCHANGED <<commands, file, worker>>
-----------------------------------------------------------------------------
(* _process_worker: the function returns or raises; then the answer is     *)
(* sent, the pipe is closed and the process ends.                          *)
WorkerAnswers ==
  /\ worker = "working" /\ worker' = "sending" /\ pipe' = "part"
  /\ \/ \E counts \in Replays(trace) : answer' = Payload(counts) /\ replayed' = <<manifest, counts>>
     \/ answer' = Error /\ UNCHANGED replayed
  /\ UNCHANGED <<commands, exit, file, pc, manifest, left, received>>

WorkerSends ==
  /\ worker = "sending" /\ worker' = "closing" /\ pipe' = "whole"
  /\ UNCHANGED <<commands, exit, file, pc, manifest, left, answer, received, replayed>>

WorkerExits ==
  /\ worker = "closing" /\ worker' = "ended"
  /\ UNCHANGED <<commands, exit, file, pc, locals>>

WorkerDies ==
  /\ worker \in {"working", "sending"} /\ worker' = "ended"
  /\ UNCHANGED <<commands, exit, file, pc, locals>>

Tick ==
  /\ pc \in {"poll", "late?"} /\ left > 0 /\ left' = left - 1
  /\ UNCHANGED <<commands, exit, file, worker, pc, manifest, pipe, answer, received, replayed>>
-----------------------------------------------------------------------------
(* write_text empties the file before it writes; either may fail.          *)
OpenResult ==
  /\ pc = "write"
  /\ \/ Continue("writing") /\ file' = Torn /\ UNCHANGED locals
     \/ Raise /\ UNCHANGED file
  /\ UNCHANGED <<commands, worker>>

WriteResult ==
  /\ pc = "writing"
  /\ \/ /\ file' = [state |-> "whole", command |-> commands, result |-> result, replayed |-> replayed]
        /\ Continue("report") /\ UNCHANGED locals
     \/ Raise /\ UNCHANGED file
  /\ UNCHANGED <<commands, worker>>

(* The four lines about the result that is in the file by now. A print may *)
(* raise an OSError or a ValueError; what it left in the buffer of the     *)
(* standard output may be lost at the exit of the interpreter (120).       *)
Report ==
  /\ pc = "report"
  /\ Return(IF result.status = "PASS" THEN 0 ELSE 1) \/ Raise \/ Return(120)
  /\ UNCHANGED <<commands, file, worker>>

(* An exception that main does not catch ends the command with code 1; the *)
(* interpreter waits for a worker before it exits.                         *)
Crash ==
  /\ pc \notin {"idle", "report"} /\ worker \in {"none", "ended"} /\ Return(1)
  /\ UNCHANGED <<commands, file, worker>>

(* The command is killed; a worker it started is not told.                 *)
Killed == pc # "idle" /\ Return(137) /\ worker' = "none" /\ UNCHANGED <<commands, file>>

ValidateResult ==
  /\ pc = "idle" /\ commands < MaxCommands /\ commands' = commands + 1
  /\ \/ file.state = "whole" /\ ValidResult(file.result) /\ exit' = 0
     \/ exit' \in {1, 2, 120, 137}
  /\ UNCHANGED <<file, worker, pc, locals>>
-----------------------------------------------------------------------------
Init ==
  /\ commands = 0 /\ exit = 0 /\ file = NoFile /\ worker = "none" /\ pc = "idle"
  /\ manifest = NoManifest /\ left = 0 /\ pipe = "empty"
  /\ answer = NoAnswer /\ received = NoAnswer /\ replayed = <<>>

Command == \/ \E c \in Commands : Resolve(c)
           \/ Prepare \/ ReplayHere
           \/ StartProcess \/ Poll \/ CheckDeadline \/ Receive \/ Join
           \/ OpenResult \/ WriteResult \/ Report
           \/ Crash \/ Killed \/ ValidateResult
Worker  == WorkerAnswers \/ WorkerSends \/ WorkerExits \/ WorkerDies

Next == Command \/ Worker \/ Tick
Spec == Init /\ [][Next]_vars

(* The command takes its steps and time passes. A worker that has its      *)
(* answer sends it and ends; nothing makes it come to an answer.           *)
Progress == Prepare \/ ReplayHere \/ StartProcess \/ Poll \/ CheckDeadline \/ Receive \/ Join
            \/ OpenResult \/ WriteResult \/ Report
FairSpec == Spec /\ WF_vars(Progress) /\ WF_vars(Tick) /\ WF_vars(WorkerSends \/ WorkerExits)
-----------------------------------------------------------------------------
(* The types of the variables.                                             *)
TypeOK ==
  /\ commands \in 0 .. MaxCommands
  /\ pc \in {"idle", "prepare", "replay", "start", "poll", "late?", "receive", "join", "write", "writing", "report"}
  /\ exit \in {0, 1, 2, 120, 137}
  /\ left \in Nat
  /\ worker \in {"none", "working", "sending", "closing", "ended"}
  /\ pipe \in {"empty", "part", "whole"}
  /\ {answer.kind, received.kind} \subseteq {"none", "error", "payload"}
  /\ file.state \in {"none", "torn", "whole"}

(* Whatever happens to the worker, a command that returns has seen it end: *)
(* only a command that is killed leaves a simulation running behind it.    *)
NoWorkerLeftBehind == pc = "idle" => worker \in {"none", "ended"}

(* Every result file that "run" completes is one that "validate-result"    *)
(* accepts: resolving a resolved manifest changes nothing, the limits hold *)
(* and the verdict agrees with the replay.                                 *)
ResultsValid == file.state = "whole" => ValidResult(file.result)

(* A PASS in the file was earned by the worker of the command that wrote   *)
(* it: it replayed the trace of this very manifest, to the last record,    *)
(* whatever earlier commands, dying workers and late answers did.          *)
PassIsEarned ==
  file.state = "whole" /\ file.result.status = "PASS" =>
    LET m      == file.result.resolved_manifest
        counts == file.replayed[2]
    IN  /\ file.replayed[1] = m
        /\ counts.completed = Lowered(m).expanded /\ counts.sent = Lowered(m).expanded

(* What the end of a run tells of the file: 0 comes with a PASS of this    *)
(* very run. 1 is that of a failed replay or of a crash, never of a run    *)
(* whose own PASS is there. Whatever the code, a run without an answer of  *)
(* its worker (refused, late, dead, killed before it came) leaves there    *)
(* an earlier run's result or none: its own is there only after an answer, *)
(* though not only with 0 and 1, since printing about it may fail.         *)
ExitTellsTheFile ==
  [][pc # "idle" /\ pc' = "idle" =>
       LET own == file'.state = "whole" /\ file'.command = commands
       IN  /\ exit' = 0 => own /\ file'.result.status = "PASS"
           /\ exit' = 1 /\ own => file'.result.status = "FAIL"
           /\ own => received.kind = "payload"]_vars

(* A run with a time limit returns, though its worker hangs or dies.       *)
EveryRunReturns == [](pc = "start" => <>(pc = "idle"))
=============================================================================
