------------------------- MODULE Experiment_proofs -------------------------
(***************************************************************************)
(* Whatever manifests are run, in whatever order, and whatever becomes of  *)
(* the workers and of commands that are killed: no command that returns    *)
(* leaves its worker behind, exit codes tell what is in the result file,   *)
(* and a PASS in it was earned by the replay of its own manifest.          *)
(***************************************************************************)
EXTENDS Experiment, TLAPS

(***************************************************************************)
(* The worker.                                                             *)
(***************************************************************************)
(* A worker that may still run belongs to a command that waits for it.     *)
WorkerInv == pc \notin {"poll", "late?", "receive", "join"} => worker \in {"none", "ended"}

LEMMA WorkerInvInductive == WorkerInv /\ [Next]_vars => WorkerInv'
<1> SUFFICES ASSUME WorkerInv, [Next]_vars PROVE WorkerInv'
  OBVIOUS
<1> USE DEF WorkerInv, Continue, Return, Raise
<1>1. ASSUME NEW c \in Commands, Resolve(c) PROVE WorkerInv'
  BY <1>1 DEF Resolve
<1>2. CASE Prepare BY <1>2 DEF Prepare
<1>3. CASE ReplayHere BY <1>3 DEF ReplayHere
<1>4. CASE StartProcess BY <1>4 DEF StartProcess
<1>5. CASE Poll BY <1>5 DEF Poll
<1>6. CASE CheckDeadline BY <1>6 DEF CheckDeadline
<1>7. CASE Receive BY <1>7 DEF Receive
<1>8. CASE Join BY <1>8 DEF Join
<1>9. CASE OpenResult BY <1>9 DEF OpenResult
<1>10. CASE WriteResult \/ Report \/ Crash BY <1>10 DEF WriteResult, Report, Crash
<1>11. CASE Killed BY <1>11 DEF Killed
<1>12. CASE ValidateResult BY <1>12 DEF ValidateResult
<1>13. CASE Worker BY <1>13 DEF Worker, WorkerAnswers, WorkerSends, WorkerExits, WorkerDies
<1>14. CASE Tick BY <1>14 DEF Tick
<1>15. CASE UNCHANGED vars BY <1>15 DEF vars
<1> QED BY <1>1, <1>2, <1>3, <1>4, <1>5, <1>6, <1>7, <1>8, <1>9, <1>10, <1>11, <1>12, <1>13, <1>14, <1>15
     DEF Next, Command

(***************************************************************************)
(* _run_process and its callers: however the wait for the worker ends, by  *)
(* an answer, a deadline, a torn pipe or a dead worker, the command is     *)
(* left only when the worker has ended.                                    *)
(***************************************************************************)
THEOREM WorkerEnds == Spec => []NoWorkerLeftBehind
<1>1. Init => WorkerInv BY DEF Init, WorkerInv
<1>2. WorkerInv => NoWorkerLeftBehind BY DEF WorkerInv, NoWorkerLeftBehind
<1> QED BY <1>1, <1>2, WorkerInvInductive, PTL DEF Spec

(***************************************************************************)
(* The result file.                                                        *)
(***************************************************************************)
(* A whole file is of a command so far; while a command is under way, of   *)
(* an earlier one, until it reports on its own.                            *)
Reported ==
  /\ file.state = "whole" /\ file.command = commands /\ file.result = result
  /\ received.kind = "payload"

FileInv ==
  /\ commands \in Nat
  /\ file.state = "whole" => file.command \in Nat /\ file.command <= commands
  /\ file.state = "whole" /\ pc \notin {"idle", "report"} => file.command < commands
  /\ pc \in {"write", "writing"} => received.kind = "payload"
  /\ pc = "report" => Reported

LEMMA TornNotWhole == Torn.state # "whole" /\ NoFile.state # "whole"
  BY DEF Torn, NoFile

LEMMA FileInvInductive == FileInv /\ [Next]_vars => FileInv'
<1> SUFFICES ASSUME FileInv, [Next]_vars PROVE FileInv'
  OBVIOUS
<1> USE DEF FileInv, Continue, Return, Raise
<1>1. ASSUME NEW c \in Commands, Resolve(c) PROVE FileInv'
  BY <1>1 DEF Resolve
<1>2. CASE Prepare BY <1>2 DEF Prepare
<1>3. CASE ReplayHere
  <2>1. ASSUME NEW counts PROVE Payload(counts).kind = "payload" BY DEF Payload
  <2> QED BY <1>3, <2>1 DEF ReplayHere
<1>4. CASE StartProcess BY <1>4 DEF StartProcess
<1>5. CASE Poll BY <1>5 DEF Poll
<1>6. CASE CheckDeadline BY <1>6 DEF CheckDeadline
<1>7. CASE Receive BY <1>7 DEF Receive
<1>8. CASE Join BY <1>8 DEF Join, locals
<1>9. CASE OpenResult BY <1>9, TornNotWhole DEF OpenResult, locals
<1>10. CASE WriteResult
  <2> DEFINE whole == [state |-> "whole", command |-> commands, result |-> result, replayed |-> replayed]
  <2>1. CASE file' = whole /\ pc' = "report" /\ UNCHANGED <<commands, locals>> /\ pc = "writing"
    <3>1. whole.state = "whole" /\ whole.command = commands /\ whole.result = result
      OBVIOUS
    <3>2. result' = result BY <2>1 DEF locals, result, trace
    <3> HIDE DEF whole
    <3>3. Reported' BY <2>1, <3>1, <3>2 DEF Reported, locals
    <3> QED BY <2>1, <3>1, <3>3
  <2> QED BY <1>10, <2>1 DEF WriteResult
<1>11. CASE Report \/ Crash \/ Killed BY <1>11 DEF Report, Crash, Killed, Reported
<1>12. CASE ValidateResult BY <1>12 DEF ValidateResult
<1>13. CASE Worker
  <2>1. UNCHANGED <<commands, file, pc, manifest, received>>
    BY <1>13 DEF Worker, WorkerAnswers, WorkerSends, WorkerExits, WorkerDies, locals
  <2>2. Reported => Reported' BY <2>1 DEF Reported, result, trace
  <2> QED BY <2>1, <2>2
<1>14. CASE Tick BY <1>14 DEF Tick
<1>15. CASE UNCHANGED vars
  <2>1. Reported => Reported' BY <1>15 DEF vars, locals, Reported, result, trace
  <2> QED BY <1>15, <2>1 DEF vars, locals
<1> QED BY <1>1, <1>2, <1>3, <1>4, <1>5, <1>6, <1>7, <1>8, <1>9, <1>10, <1>11, <1>12, <1>13, <1>14, <1>15
     DEF Next, Command

LEMMA Verdict ==
  ASSUME NEW m, NEW t, NEW s, NEW b
  PROVE  /\ Result(m, t, s, b).status = IF s.replay_ok THEN "PASS" ELSE "FAIL"
         /\ Result(m, t, s, b).resolved_manifest = m
  BY DEF Result

(***************************************************************************)
(* _cmd_run and main: 0 is returned only with the command's own PASS in    *)
(* the file; 1 never with its own PASS there; and whatever ends a command  *)
(* before its worker has answered, at whatever point, leaves in the file   *)
(* only what an earlier command had completed.                             *)
(***************************************************************************)
THEOREM ExitCodesTell == Spec => ExitTellsTheFile
<1> DEFINE own == file'.state = "whole" /\ file'.command = commands
           Tells ==
             pc # "idle" /\ pc' = "idle" =>
               /\ exit' = 0 => own /\ file'.result.status = "PASS"
               /\ exit' = 1 /\ own => file'.result.status = "FAIL"
               /\ own => received.kind = "payload"
<1>1. FileInv /\ [Next]_vars => Tells
  <2> SUFFICES ASSUME FileInv, Next, pc # "idle", pc' = "idle" PROVE Tells
    BY DEF vars
  <2> USE DEF Continue, Return, Raise
  <2>1. ASSUME NEW c \in Commands, Resolve(c) PROVE FALSE BY <2>1 DEF Resolve
  <2>2. ASSUME exit' # 0, UNCHANGED file, pc # "report" PROVE Tells BY <2>2 DEF FileInv
  <2>3. CASE Prepare BY <2>2, <2>3 DEF Prepare
  <2>4. CASE ReplayHere BY <2>2, <2>4 DEF ReplayHere
  <2>5. CASE StartProcess \/ Poll BY <2>5 DEF StartProcess, Poll
  <2>6. CASE CheckDeadline BY <2>2, <2>6 DEF CheckDeadline
  <2>7. CASE Receive BY <2>2, <2>7 DEF Receive
  <2>8. CASE Join BY <2>2, <2>8 DEF Join
  <2>9. CASE OpenResult \/ WriteResult \/ Crash BY <2>2, <2>9 DEF OpenResult, WriteResult, Crash
  <2>10. CASE Report
    <3>1. result.status \in {"PASS", "FAIL"} BY Verdict DEF result
    <3>2. Reported /\ UNCHANGED file BY <2>10 DEF Report, FileInv
    <3> QED BY <2>10, <3>1, <3>2 DEF Report, Reported
  <2>11. CASE Killed
    <3>1. exit' \notin {0, 1} /\ UNCHANGED file BY <2>11 DEF Killed
    <3>2. CASE pc = "report" BY <3>1, <3>2 DEF FileInv, Reported
    <3> QED BY <2>2, <3>1, <3>2
  <2>12. CASE ValidateResult \/ Tick BY <2>12 DEF ValidateResult, Tick
  <2>13. CASE Worker
    BY <2>13 DEF Worker, WorkerAnswers, WorkerSends, WorkerExits, WorkerDies
  <2> QED BY <2>1, <2>3, <2>4, <2>5, <2>6, <2>7, <2>8, <2>9, <2>10, <2>11, <2>12, <2>13 DEF Next, Command
<1>2. Init => FileInv BY TornNotWhole DEF Init, FileInv
<1>3. FileInv /\ [Next]_vars => [Tells]_vars BY <1>1
<1> QED BY <1>2, <1>3, FileInvInductive, PTL DEF Spec, ExitTellsTheFile

(***************************************************************************)
(* The verdict.                                                            *)
(***************************************************************************)
(* An answer with counters has those of the replay of this manifest.       *)
Earned(a) ==
  a.kind = "payload" => \E counts : replayed = <<manifest, counts>> /\ a = Payload(counts)

(* Until its worker has answered, a command has no answer.                 *)
Unanswered == pipe = "empty" /\ answer.kind # "payload" /\ received.kind # "payload"

(* A PASS is that of a complete replay of the manifest in the file.        *)
FileEarned ==
  file.state = "whole" =>
    LET m == file.result.resolved_manifest
    IN  \E counts :
          /\ file.replayed = <<m, counts>>
          /\ file.result.status = "PASS" => ReplayOk(Lowered(m), counts)

PassInv ==
  /\ WorkerInv
  /\ Earned(answer) /\ Earned(received)
  /\ pc \in {"idle", "prepare", "replay", "start"} \/ worker = "working" => Unanswered
  /\ pc \in {"write", "writing", "report"} => received.kind = "payload"
  /\ FileEarned

LEMMA Kinds == NoAnswer.kind # "payload" /\ Error.kind # "payload"
  BY DEF NoAnswer, Error

LEMMA PayloadFields ==
  ASSUME NEW counts
  PROVE  /\ Payload(counts).kind = "payload"
         /\ Payload(counts).simulation = Simulation(manifest, trace, counts)
  BY DEF Payload

LEMMA SimulationVerdict ==
  ASSUME NEW m, NEW t, NEW counts
  PROVE  Simulation(m, t, counts).replay_ok = ReplayOk(t, counts)
  BY SMT DEF Simulation, ReplayOk

(* What passes on the values of the locals keeps what is said of them.     *)
LEMMA SameLocals ==
  ASSUME PassInv, UNCHANGED <<manifest, pipe, answer, received, replayed>>, UNCHANGED file, WorkerInv',
         worker' = "working" => worker = "working",
         pc' \in {"idle", "prepare", "replay", "start"} => pc \in {"idle", "prepare", "replay", "start"},
         pc' \in {"write", "writing", "report"} => received.kind = "payload"
  PROVE  PassInv'
BY DEF PassInv, Earned, Payload, trace, Unanswered, FileEarned

LEMMA ForgetKeeps ==
  ASSUME PassInv, Forget, UNCHANGED file, WorkerInv', pc' = "idle"
  PROVE  PassInv'
BY Kinds DEF PassInv, Forget, Earned, Unanswered, FileEarned

LEMMA PassInvInductive == PassInv /\ [Next]_vars => PassInv'
<1> SUFFICES ASSUME PassInv, [Next]_vars PROVE PassInv'
  OBVIOUS
<1>a. WorkerInv' BY WorkerInvInductive DEF PassInv
<1> USE <1>a DEF Continue, Return, Raise
<1>1. ASSUME NEW c \in Commands, Resolve(c) PROVE PassInv'
  <2>1. Unanswered BY <1>1 DEF Resolve, PassInv
  <2>2. UNCHANGED <<pipe, answer, received>> \/ Forget BY <1>1 DEF Resolve
  <2>3. Unanswered' BY <2>1, <2>2, Kinds DEF Unanswered, Forget
  <2>4. pc' \in {"prepare", "idle"} /\ UNCHANGED file BY <1>1 DEF Resolve
  <2>5. FileEarned' BY <2>4 DEF FileEarned, PassInv
  <2> QED BY <1>a, <2>3, <2>4, <2>5 DEF PassInv, Earned, Unanswered
<1>2. CASE Prepare BY <1>2, SameLocals, ForgetKeeps DEF Prepare, locals
<1>3. CASE ReplayHere
  <2>1. CASE Return(2) BY <1>3, <2>1, ForgetKeeps DEF ReplayHere
  <2>2. ASSUME NEW counts \in Replays(trace), replayed' = <<manifest, counts>>, received' = Payload(counts),
               pc' = "write", UNCHANGED <<manifest, pipe, answer>>, UNCHANGED <<commands, file, worker>>,
               pc = "replay"
        PROVE  PassInv'
    <3>1. Earned(received)' BY <2>2 DEF Earned, Payload, trace
    <3>2. answer'.kind # "payload" /\ worker' # "working"
      BY <2>2 DEF PassInv, Unanswered, WorkerInv
    <3>3. received'.kind = "payload" BY <2>2, PayloadFields
    <3>4. FileEarned' BY <2>2 DEF FileEarned, PassInv
    <3> QED BY <1>a, <2>2, <3>1, <3>2, <3>3, <3>4 DEF PassInv, Earned
  <2> QED BY <1>3, <2>1, <2>2 DEF ReplayHere
<1>4. CASE StartProcess
  <2>1. Unanswered' BY <1>4 DEF StartProcess, PassInv, Unanswered
  <2>2. FileEarned' /\ pc' = "poll" BY <1>4 DEF StartProcess, PassInv, FileEarned
  <2> QED BY <1>a, <2>1, <2>2 DEF PassInv, Earned, Unanswered
<1>5. CASE Poll BY <1>5, SameLocals DEF Poll, locals
<1>6. CASE CheckDeadline BY <1>6, SameLocals, ForgetKeeps DEF CheckDeadline, locals
<1>7. CASE Receive
  <2>1. CASE Return(2) /\ UNCHANGED file BY <2>1, ForgetKeeps
  <2>2. ASSUME received' \in {answer, Error}, pc' = "join", UNCHANGED <<manifest, left, pipe, answer, replayed>>,
               UNCHANGED <<commands, file, worker>>, worker = "working" => received' = answer /\ pipe = "whole"
        PROVE  PassInv'
    <3>1. Earned(answer)' BY <2>2 DEF PassInv, Earned, Payload, trace
    <3>2. Earned(received)' BY <2>2, <3>1, Kinds DEF Earned, Payload, trace
    <3>3. worker' # "working" BY <2>2 DEF PassInv, Unanswered
    <3>4. FileEarned' BY <2>2 DEF FileEarned, PassInv
    <3> QED BY <1>a, <2>2, <3>1, <3>2, <3>3, <3>4 DEF PassInv
  <2> QED BY <1>7, <2>1, <2>2 DEF Receive
<1>8. CASE Join BY <1>8, SameLocals, ForgetKeeps DEF Join, locals
<1>9. CASE OpenResult
  <2>1. CASE Raise /\ UNCHANGED file BY <2>1, ForgetKeeps
  <2>2. CASE pc' = "writing" /\ file' = Torn /\ UNCHANGED <<worker, locals>> /\ pc = "write"
    <3>1. FileEarned' BY <2>2, TornNotWhole DEF FileEarned
    <3>2. Earned(answer)' /\ Earned(received)' BY <2>2 DEF locals, PassInv, Earned, Payload, trace
    <3> QED BY <2>2, <1>a, <3>1, <3>2 DEF locals, PassInv, WorkerInv
  <2> QED BY <1>9, <2>1, <2>2 DEF OpenResult
<1>10. CASE WriteResult
  <2> DEFINE whole == [state |-> "whole", command |-> commands, result |-> result, replayed |-> replayed]
  <2>1. whole.result = result /\ whole.replayed = replayed
    OBVIOUS
  <2>2. PICK counts : replayed = <<manifest, counts>> /\ received = Payload(counts)
    BY <1>10 DEF WriteResult, PassInv, Earned
  <2>3. result.resolved_manifest = manifest /\ (result.status = "PASS" => received.simulation.replay_ok)
    BY Verdict DEF result
  <2>4. received.simulation.replay_ok = ReplayOk(Lowered(manifest), counts)
    <3>1. received.simulation = Simulation(manifest, trace, counts) BY <2>2 DEF Payload
    <3> QED BY <3>1, SimulationVerdict DEF trace
  <2>5. CASE Raise /\ UNCHANGED file BY <2>5, ForgetKeeps
  <2>6. CASE file' = whole /\ pc' = "report" /\ UNCHANGED <<worker, locals>> /\ pc = "writing"
    <3>1. FileEarned' BY <2>1, <2>2, <2>3, <2>4, <2>6 DEF FileEarned
    <3>2. Earned(answer)' /\ Earned(received)' BY <2>6 DEF locals, PassInv, Earned, Payload, trace
    <3> QED BY <1>a, <2>6, <3>1, <3>2 DEF locals, PassInv, WorkerInv
  <2> QED BY <1>10, <2>5, <2>6 DEF WriteResult
<1>11. CASE Report \/ Crash \/ Killed BY <1>11, ForgetKeeps DEF Report, Crash, Killed
<1>12. CASE ValidateResult BY <1>12, SameLocals DEF ValidateResult, locals
<1>13. CASE WorkerAnswers
  <2>1. pc \in {"poll", "late?", "receive", "join"} BY <1>13 DEF WorkerAnswers, PassInv, WorkerInv
  <2>2. received'.kind # "payload" /\ pc' = pc /\ worker' = "sending"
    BY <1>13 DEF WorkerAnswers, PassInv, Unanswered
  <2>3. Earned(answer)' BY <1>13, Kinds DEF WorkerAnswers, Earned, Payload, trace
  <2>4. FileEarned' BY <1>13 DEF WorkerAnswers, FileEarned, PassInv
  <2> QED BY <1>a, <2>1, <2>2, <2>3, <2>4 DEF PassInv, Earned
<1>14. CASE WorkerSends
  <2>1. Earned(answer)' /\ Earned(received)' /\ FileEarned'
    BY <1>14 DEF WorkerSends, PassInv, Earned, Payload, trace, FileEarned
  <2>2. pc \in {"poll", "late?", "receive", "join"} BY <1>14 DEF WorkerSends, PassInv, WorkerInv
  <2> QED BY <1>14, <1>a, <2>1, <2>2 DEF WorkerSends, PassInv
<1>15. CASE WorkerExits \/ WorkerDies
  BY <1>15, SameLocals DEF WorkerExits, WorkerDies, locals, PassInv
<1>16. CASE Tick BY <1>16, SameLocals DEF Tick
<1>17. CASE UNCHANGED vars BY <1>17, SameLocals DEF vars, locals, PassInv
<1> QED BY <1>1, <1>2, <1>3, <1>4, <1>5, <1>6, <1>7, <1>8, <1>9, <1>10, <1>11, <1>12, <1>13, <1>14, <1>15,
        <1>16, <1>17 DEF Next, Command, Worker

(***************************************************************************)
(* _replay_integrity over the whole way of its verdict: from the worker    *)
(* through the pipe to the file, nothing that earlier commands left there, *)
(* no dying worker and no late answer passes for a complete replay.        *)
(***************************************************************************)
THEOREM PassesAreEarned == Spec => []PassIsEarned
<1>1. Init => PassInv
  BY Kinds, TornNotWhole DEF Init, PassInv, WorkerInv, Earned, Unanswered, FileEarned
<1>2. PassInv => PassIsEarned
  <2> SUFFICES ASSUME PassInv, file.state = "whole", file.result.status = "PASS" PROVE PassIsEarned
    BY DEF PassIsEarned
  <2> DEFINE m == file.result.resolved_manifest
  <2>1. PICK counts : file.replayed = <<m, counts>> /\ ReplayOk(Lowered(m), counts)
    BY DEF PassInv, FileEarned
  <2>2. file.replayed[1] = m /\ file.replayed[2] = counts BY <2>1
  <2>3. counts.completed = Lowered(m).expanded /\ counts.sent = Lowered(m).expanded BY <2>1 DEF ReplayOk
  <2> QED BY <2>2, <2>3 DEF PassIsEarned
<1> QED BY <1>1, <1>2, PassInvInductive, PTL DEF Spec

(***************************************************************************)
(* The result is valid.                                                    *)
(***************************************************************************)
(* A section whose gaps have been filled has no gaps.                      *)
LEMMA FilledTwice ==
  ASSUME NEW supplied, NEW default
  PROVE  Merge(Merge(supplied, default), default) = Merge(supplied, default)
BY DEF Merge

LEMMA ResolvedTwice ==
  ASSUME NEW raw
  PROVE  ResolveExperiment(ResolveExperiment(raw)) = ResolveExperiment(raw)
<1> DEFINE m == ResolveExperiment(raw)
<1>1. m.hardware = Merge(raw.hardware, DefaultHardware) /\ m.workload = Merge(raw.workload, DefaultWorkload)
  BY DEF ResolveExperiment, ResolveHardware, ResolveWorkload
<1>2. ResolveExperiment(m) = [hardware |-> Merge(m.hardware, DefaultHardware), workload |-> Merge(m.workload, DefaultWorkload)]
  BY DEF ResolveExperiment, ResolveHardware, ResolveWorkload
<1>3. ResolveExperiment(m) = [hardware |-> m.hardware, workload |-> m.workload]
  BY <1>1, <1>2, FilledTwice
<1> QED BY <1>3 DEF ResolveExperiment

LEMMA ManifestResolved ==
  ASSUME NEW c
  PROVE  ResolveExperiment(ManifestOf(c)) = ManifestOf(c)
BY ResolvedTwice DEF ManifestOf

(* The manifest of a command under way has been accepted; after the checks *)
(* its trace has passed them.                                              *)
ManifestInv ==
  /\ pc # "idle" => \E c \in Commands : Loadable(c.raw) /\ manifest = ManifestOf(c) /\ Accepted(manifest)
  /\ pc \notin {"idle", "prepare"} =>
       Generates(workload) /\ PreflightPasses(workload, trace) /\ MaterializationPasses(workload, trace)

LEMMA SameManifest ==
  ASSUME ManifestInv, UNCHANGED manifest, pc # "idle",
         pc' \in {"idle", "prepare"} \/ pc # "prepare"
  PROVE  ManifestInv'
BY DEF ManifestInv, workload, trace

LEMMA ManifestInvInductive == ManifestInv /\ [Next]_vars => ManifestInv'
<1> SUFFICES ASSUME ManifestInv, [Next]_vars PROVE ManifestInv'
  OBVIOUS
<1>a. ASSUME pc' = "idle" PROVE ManifestInv' BY <1>a DEF ManifestInv
<1> USE DEF Continue, Return, Raise
<1>1. ASSUME NEW c \in Commands, Resolve(c) PROVE ManifestInv'
  <2>1. CASE Loadable(c.raw) /\ Accepted(ManifestOf(c))
    BY <1>1, <2>1 DEF Resolve, ManifestInv
  <2> QED BY <1>1, <1>a, <2>1 DEF Resolve
<1>2. CASE Prepare
  <2>1. CASE Generates(workload) /\ PreflightPasses(workload, trace) /\ MaterializationPasses(workload, trace)
    BY <1>2, <2>1 DEF Prepare, locals, ManifestInv, workload, trace
  <2> QED BY <1>2, <1>a, <2>1 DEF Prepare
<1>3. CASE ReplayHere BY <1>3, <1>a, SameManifest DEF ReplayHere
<1>4. CASE StartProcess BY <1>4, SameManifest DEF StartProcess
<1>5. CASE Poll BY <1>5, SameManifest DEF Poll, locals
<1>6. CASE CheckDeadline BY <1>6, <1>a, SameManifest DEF CheckDeadline, locals
<1>7. CASE Receive BY <1>7, <1>a, SameManifest DEF Receive
<1>8. CASE Join BY <1>8, <1>a, SameManifest DEF Join, locals
<1>9. CASE OpenResult BY <1>9, <1>a, SameManifest DEF OpenResult, locals
<1>10. CASE WriteResult BY <1>10, <1>a, SameManifest DEF WriteResult, locals
<1>11. CASE Report \/ Crash \/ Killed BY <1>11, <1>a DEF Report, Crash, Killed
<1>12. CASE ValidateResult BY <1>12, <1>a DEF ValidateResult
<1>13. CASE Worker
  BY <1>13 DEF Worker, WorkerAnswers, WorkerSends, WorkerExits, WorkerDies, locals, ManifestInv, workload, trace
<1>14. CASE Tick BY <1>14, SameManifest DEF Tick
<1>15. CASE UNCHANGED vars BY <1>15 DEF vars, locals, ManifestInv, workload, trace
<1> QED BY <1>1, <1>2, <1>3, <1>4, <1>5, <1>6, <1>7, <1>8, <1>9, <1>10, <1>11, <1>12, <1>13, <1>14, <1>15
     DEF Next, Command

LEMMA ResultFields ==
  ASSUME NEW m, NEW t, NEW s, NEW b
  PROVE  LET r == Result(m, t, s, b)
         IN  /\ r.manifest_fingerprint = m /\ r.dram_class = m.hardware.dram_class
             /\ r.subchannel_model = SubchannelModel(m.hardware.dram_class)
             /\ r.preflight.records = t.records /\ r.preflight.expanded = t.expanded /\ r.preflight.bytes = t.bytes
             /\ r.max_expanded_records = m.workload.max_expanded_records
             /\ r.max_trace_bytes = m.workload.max_trace_bytes
             /\ r.workload_type = m.workload.workload_type /\ r.concrete_records = t.records
             /\ r.policy = m.workload.weight_residency /\ r.write_transactions = t.preload /\ r.simulation = s
  BY DEF Result

LEMMA SimulationFields ==
  ASSUME NEW m, NEW t, NEW counts
  PROVE  LET s == Simulation(m, t, counts)
         IN  /\ s.dram_class = m.hardware.dram_class /\ s.cycles = counts.cycles
             /\ s.trace_schema = TraceSchema(m.hardware.dram_class)
             /\ s.refresh_manager = m.hardware.refresh_manager
             /\ s.execution_model = m.hardware.pim_mac_execution_model
             /\ s.power = PowerStatus(m.hardware.dram_class)
             /\ s.trace_bcast = s.pim_bcast_issued
  BY DEF Simulation

LEMMA DefaultLimits ==
  {"max_expanded_records", "max_trace_bytes"} \subseteq DOMAIN DefaultWorkload
  BY DEF DefaultWorkload

LEMMA LimitsPositive ==
  ASSUME NEW w, WorkloadAccepted(w)
  PROVE  w.max_expanded_records > 0 /\ w.max_trace_bytes > 0
BY DefaultLimits DEF WorkloadAccepted, Positive

(* A result that is assembled from an accepted manifest, a trace that has  *)
(* passed the checks and the counters of a replay is a valid one.          *)
LEMMA AssembledValid ==
  ASSUME NEW m, NEW t, NEW counts, NEW banks,
         Accepted(m), ResolveExperiment(m) = m, t.records <= t.expanded,
         PreflightPasses(m.workload, t), MaterializationPasses(m.workload, t)
  PROVE  ValidResult(Result(m, t, Simulation(m, t, counts), banks))
<1> DEFINE s == Simulation(m, t, counts)
           r == Result(m, t, s, banks)
<1>1. /\ r.status = IF s.replay_ok THEN "PASS" ELSE "FAIL"
      /\ r.resolved_manifest = m
  BY Verdict
<1>2. s.replay_ok = ReplayOk(t, counts) BY SimulationVerdict
<1>3. /\ r.manifest_fingerprint = m /\ r.dram_class = m.hardware.dram_class
      /\ r.subchannel_model = SubchannelModel(m.hardware.dram_class)
      /\ r.preflight.records = t.records /\ r.preflight.expanded = t.expanded /\ r.preflight.bytes = t.bytes
      /\ r.max_expanded_records = m.workload.max_expanded_records
      /\ r.max_trace_bytes = m.workload.max_trace_bytes
      /\ r.workload_type = m.workload.workload_type /\ r.concrete_records = t.records
      /\ r.policy = m.workload.weight_residency /\ r.write_transactions = t.preload /\ r.simulation = s
  BY ResultFields
<1>4. /\ s.dram_class = m.hardware.dram_class /\ s.cycles = counts.cycles
      /\ s.trace_schema = TraceSchema(m.hardware.dram_class)
      /\ s.refresh_manager = m.hardware.refresh_manager
      /\ s.execution_model = m.hardware.pim_mac_execution_model
      /\ s.power = PowerStatus(m.hardware.dram_class)
      /\ s.trace_bcast = s.pim_bcast_issued
  BY SimulationFields
<1> HIDE DEF s, r
<1>5. ManifestHeld(r) BY <1>1, <1>3 DEF ManifestHeld
<1>6. HardwareHeld(r)
  <2>1. m.hardware.dram_class \in {"LPDDR5PIM", "LPDDR6PIM"} BY DEF Accepted, HardwareAccepted
  <2>2. m.workload.max_expanded_records > 0 /\ m.workload.max_trace_bytes > 0 BY LimitsPositive DEF Accepted
  <2> QED BY <1>1, <1>3, <2>1, <2>2 DEF HardwareHeld, PreflightPasses
<1>7. WorkloadHeld(r) BY <1>1, <1>3 DEF WorkloadHeld, MaterializationPasses
<1>8. SimulationHeld(r)
  <2>1. r.status = "PASS" => s.replay_ok /\ s.cycles > 0 BY <1>1, <1>2, <1>4 DEF ReplayOk
  <2>2. r.status = "FAIL" => ~s.replay_ok BY <1>1
  <2> QED BY <1>1, <1>3, <1>4, <2>1, <2>2 DEF SimulationHeld
<1> QED BY <1>5, <1>6, <1>7, <1>8 DEF ValidResult, r, s

(***************************************************************************)
(* run_experiment against validate_result: whatever is run, and whatever   *)
(* the counters say at its end, the file that is completed passes every    *)
(* check of the validator, because the manifest in it resolves to itself   *)
(* and each limit and label was checked before the replay began.           *)
(***************************************************************************)
THEOREM ResultsAccepted == Spec => []ResultsValid
<1>1. Init => ResultsValid /\ ManifestInv /\ PassInv
  BY Kinds, TornNotWhole
     DEF Init, ResultsValid, ManifestInv, PassInv, WorkerInv, Earned, Unanswered, FileEarned
<1>2. ResultsValid /\ ManifestInv /\ PassInv /\ [Next]_vars => ResultsValid'
  <2> SUFFICES ASSUME ResultsValid, ManifestInv, PassInv, [Next]_vars PROVE ResultsValid'
    OBVIOUS
  <2>1. CASE UNCHANGED file BY <2>1 DEF ResultsValid
  <2>2. CASE OpenResult BY <2>1, <2>2, TornNotWhole DEF OpenResult, ResultsValid
  <2>3. CASE WriteResult
    <3> DEFINE whole == [state |-> "whole", command |-> commands, result |-> result, replayed |-> replayed]
    <3>1. PICK counts : received = Payload(counts) BY <2>3 DEF WriteResult, PassInv, Earned
    <3>2. received.simulation = Simulation(manifest, trace, counts) BY <3>1, PayloadFields
    <3>3. PICK c \in Commands : Loadable(c.raw) /\ manifest = ManifestOf(c) /\ Accepted(manifest)
      BY <2>3 DEF WriteResult, ManifestInv
    <3>4. /\ Generates(workload) /\ PreflightPasses(workload, trace)
          /\ MaterializationPasses(workload, trace)
      BY <2>3 DEF WriteResult, ManifestInv
    <3>5. trace.records <= trace.expanded BY <3>3, <3>4, LoweredAssumption DEF trace, workload
    <3>6. ResolveExperiment(manifest) = manifest BY <3>3, ManifestResolved
    <3>7. ValidResult(result) BY <3>2, <3>3, <3>4, <3>5, <3>6, AssembledValid DEF workload, result
    <3>8. whole.result = result OBVIOUS
    <3>9. file' = whole \/ UNCHANGED file BY <2>3 DEF WriteResult
    <3> QED BY <2>1, <3>7, <3>8, <3>9 DEF ResultsValid
  <2> QED
    BY <2>1, <2>2, <2>3
       DEF Next, Command, Worker, vars, Resolve, Prepare, ReplayHere, StartProcess, Poll, CheckDeadline,
           Receive, Join, Report, Crash, Killed, ValidateResult, WorkerAnswers, WorkerSends, WorkerExits, WorkerDies, Tick
<1> QED BY <1>1, <1>2, ManifestInvInductive, PassInvInductive, PTL DEF Spec
=============================================================================
