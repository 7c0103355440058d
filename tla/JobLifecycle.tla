---------------------------- MODULE JobLifecycle ----------------------------
(***************************************************************************)
(* Jobs from their start to job.forget (job.go, job_runner.go): a start    *)
(* without idempotency key, the transient unit and the runner in it, and   *)
(* the calls that inspect, signal and forget the job meanwhile.  Keyed     *)
(* starts, whose record decides what is launched, are in KeyedJobStart.    *)
(*                                                                         *)
(* A job's status is nowhere kept: every call computes it from what systemd*)
(* says of the unit and, read after that, result.json.  systemd unloads a  *)
(* unit that ended well, HUP, INT, TERM and PIPE included, and keeps one   *)
(* that failed.                                                            *)
(*                                                                         *)
(* The output of jobs is left out.  A file is written or is not; a signal  *)
(* that the runner forwards is one of the ways in which its command ends.  *)
(***************************************************************************)
EXTENDS Callers

CONSTANTS Jobs, NoJob    \* identifiers: newJobID never repeats

ASSUME JobsAssumption == NoJob \notin Jobs

VARIABLES
    jobDir,      \* durable: job directories; "ready" once spec.json is there
    jobResult,   \* durable: the status in the result.json of a job
    jobUnit,     \* systemd: each job's transient unit
    runner,      \* hec job-run, the main process of the unit
    command,     \* the process that the runner started
    late,        \* jobs whose timeout has fired
    jobOf,       \* the job of each call
    seen,        \* what the call has read: the directory's presence, the unit
    known,       \* job identifiers already allocated
    reported,    \* history: final statuses found by calls
    withdrawn,   \* history: jobs whose directory a call began to remove
    forgotten,   \* history: forgotten jobs, with what their forget saw
    unheard      \* history: jobs that lost their starter or their runner to a
                 \* restart or to an early signal

jobFiles    == <<jobDir, jobResult>>
jobProcess  == <<jobUnit, runner, command, late>>
jobHistory  == <<known, reported, withdrawn, forgotten, unheard>>
jobVars     == <<jobFiles, jobProcess, jobOf, seen, jobHistory>>

-----------------------------------------------------------------------------

Final == {"completed", "failed", "cancelled", "timed_out"}

UnitStates == {"absent", "requested", "activating", "active", "ending_well",
               "ending_badly", "failed"}

NotSeen == [dir |-> FALSE, unit |-> "absent"]

JobsTypeOK ==
    /\ jobDir \in [Jobs -> {"none", "partial", "ready"}]
    /\ jobResult \in [Jobs -> Final \cup {"none"}]
    /\ jobUnit \in [Jobs -> UnitStates]
    /\ runner \in [Jobs -> {"none", "boot", "started", "watching", "reaped",
                            "exits_well", "exits_badly", "gone"}]
    /\ command \in [Jobs -> {"none", "running", "ok", "error", "signalled"}]
    /\ {late, known, withdrawn, unheard} \subseteq SUBSET Jobs
    /\ jobOf \in [Callers -> Jobs \cup {NoJob}]
    /\ seen \in [Callers -> [dir : BOOLEAN, unit : UnitStates]]
    /\ reported \in [Jobs -> SUBSET Final]
    /\ forgotten \subseteq Jobs \X UnitStates

JobsInit ==
    /\ jobDir = [j \in Jobs |-> "none"]
    /\ jobResult = [j \in Jobs |-> "none"]
    /\ jobUnit = [j \in Jobs |-> "absent"]
    /\ runner = [j \in Jobs |-> "none"]
    /\ command = [j \in Jobs |-> "none"]
    /\ jobOf = [c \in Callers |-> NoJob]
    /\ seen = [c \in Callers |-> NotSeen]
    /\ reported = [j \in Jobs |-> {}]
    /\ late = {} /\ known = {} /\ withdrawn = {} /\ forgotten = {} /\ unheard = {}

-----------------------------------------------------------------------------
(* systemd.  KillMode=mixed: when the main process has ended, whatever is  *)
(* left in the control group is killed.                                    *)

NotByCalls == UNCHANGED <<callers, jobOf, seen, known, reported, withdrawn, forgotten>>

UnitStarts(j) ==
    /\ jobUnit[j] = "requested"
    /\ jobUnit' = [jobUnit EXCEPT ![j] = "activating"]
    /\ UNCHANGED <<jobFiles, runner, command, late, unheard>> /\ NotByCalls

\* Type=exec.  Output cannot be appended to files in a removed directory.
UnitExecutes(j) ==
    /\ jobUnit[j] = "activating"
    /\ IF jobDir[j] # "none"
       THEN /\ jobUnit' = [jobUnit EXCEPT ![j] = "active"]
            /\ runner' = [runner EXCEPT ![j] = "boot"]
       ELSE /\ jobUnit' = [jobUnit EXCEPT ![j] = "failed"]
            /\ UNCHANGED runner
    /\ UNCHANGED <<jobFiles, command, late, unheard>> /\ NotByCalls

RunnerExits(j) ==
    /\ runner[j] \in {"exits_well", "exits_badly"}
    /\ runner' = [runner EXCEPT ![j] = "gone"]
    /\ jobUnit' = [jobUnit EXCEPT ![j] =
                       IF runner[j] = "exits_well" THEN "ending_well"
                       ELSE "ending_badly"]
    /\ UNCHANGED <<jobFiles, command, late, unheard>> /\ NotByCalls

UnitEnds(j) ==
    /\ jobUnit[j] \in {"ending_well", "ending_badly"}
    /\ jobUnit' = [jobUnit EXCEPT ![j] =
                       IF jobUnit[j] = "ending_well" THEN "absent" ELSE "failed"]
    /\ command' = [command EXCEPT ![j] = IF @ = "running" THEN "signalled" ELSE @]
    /\ UNCHANGED <<jobFiles, runner, late, unheard>> /\ NotByCalls

-----------------------------------------------------------------------------
(* The runner (RunJob).                                                    *)

\* writeJSONAtomic fails when the directory is gone, and the runner exits 125.
Record(j, status, exit) ==
    IF jobDir[j] = "none"
    THEN /\ runner' = [runner EXCEPT ![j] = "exits_badly"]
         /\ UNCHANGED jobResult
    ELSE /\ jobResult' = [jobResult EXCEPT ![j] = status]
         /\ runner' = [runner EXCEPT ![j] = exit]

\* The specification is read and the command is started, or cannot be.
Boot(j) ==
    /\ runner[j] = "boot"
    /\ \/ /\ jobDir[j] = "ready"
          /\ command' = [command EXCEPT ![j] = "running"]
          /\ runner' = [runner EXCEPT ![j] = "started"]
          /\ UNCHANGED jobResult
       \/ Record(j, "failed", "exits_badly") /\ UNCHANGED command
    /\ UNCHANGED <<jobDir, jobUnit, late, unheard>> /\ NotByCalls

\* signal.Notify, and the timer of timeout_ms
Listen(j) ==
    /\ runner[j] = "started"
    /\ runner' = [runner EXCEPT ![j] = "watching"]
    /\ UNCHANGED <<jobFiles, jobUnit, command, late, unheard>> /\ NotByCalls

JobEnds(j) ==
    /\ command[j] = "running"
    /\ \E outcome \in {"ok", "error", "signalled"} :
         command' = [command EXCEPT ![j] = outcome]
    /\ UNCHANGED <<jobFiles, jobUnit, runner, late, unheard>> /\ NotByCalls

\* The command may have ended by then and Wait not yet have returned.
TimerFires(j) ==
    /\ runner[j] = "watching" /\ j \notin late
    /\ late' = late \cup {j}
    /\ command' = [command EXCEPT ![j] = IF @ = "running" THEN "signalled" ELSE @]
    /\ UNCHANGED <<jobFiles, jobUnit, runner, unheard>> /\ NotByCalls

\* Wait returns and the timer is stopped.
Reap(j) ==
    /\ runner[j] = "watching" /\ command[j] # "running"
    /\ runner' = [runner EXCEPT ![j] = "reaped"]
    /\ UNCHANGED <<jobFiles, jobUnit, command, late, unheard>> /\ NotByCalls

\* Mutant of FinalStatus: the status takes the spelling of the error code.
CanceledStatus(j) ==
    CASE command[j] = "ok" -> "completed"
      [] command[j] = "error" -> "failed"
      [] OTHER -> IF j \in late THEN "timed_out" ELSE "canceled"

FinalStatus(j) ==
    CASE command[j] = "ok" -> "completed"
      [] command[j] = "error" -> "failed"
      [] OTHER -> IF j \in late THEN "timed_out" ELSE "cancelled"

\* systemd takes the mirrored signal for a good end or for a failure.
Exits(j) ==
    CASE command[j] = "ok" -> {"exits_well"}
      [] command[j] = "error" \/ j \in late -> {"exits_badly"}
      [] OTHER -> {"exits_well", "exits_badly"}

\* Mutant of WriteResult: the signal is mirrored before the result is written.
MirrorFirst(j) ==
    /\ runner[j] = "reaped"
    /\ \E exit \in Exits(j) :
         IF command[j] = "signalled"
         THEN runner' = [runner EXCEPT ![j] = exit] /\ UNCHANGED jobResult
         ELSE Record(j, FinalStatus(j), exit)
    /\ UNCHANGED <<jobDir, jobUnit, command, late, unheard>> /\ NotByCalls

\* The result is written before the runner exits as the command did.
WriteResult(j) ==
    /\ runner[j] = "reaped"
    /\ \E exit \in Exits(j) : Record(j, FinalStatus(j), exit)
    /\ UNCHANGED <<jobDir, jobUnit, command, late, unheard>> /\ NotByCalls

-----------------------------------------------------------------------------
(* job.start without a key (createAndLaunchJob).                           *)

NoSystemd == UNCHANGED <<jobProcess, seen, reported, forgotten>>

MakeJobDirectory(c, j) ==
    /\ j \notin known
    /\ Enter(c, "start", "spec")
    /\ known' = known \cup {j}
    /\ jobDir' = [jobDir EXCEPT ![j] = "partial"]
    /\ jobOf' = [jobOf EXCEPT ![c] = j]
    /\ NoSystemd /\ UNCHANGED <<jobResult, withdrawn, unheard>>

\* A step of the start that fails is followed by RemoveAll.
AbandonStart(c) ==
    /\ withdrawn' = withdrawn \cup {jobOf[c]}
    /\ GotoFailing(c, "erase")

WriteJobSpec(c) ==
    /\ op[c] = "start" /\ pc[c] = "spec"
    /\ \/ /\ jobDir' = [jobDir EXCEPT ![jobOf[c]] = "ready"]
          /\ Goto(c, "launch")
          /\ UNCHANGED withdrawn
       \/ AbandonStart(c) /\ UNCHANGED jobDir
    /\ NoSystemd /\ UNCHANGED <<jobResult, jobOf, known, unheard>>

\* systemd-run, which waits until the unit has started
LaunchJob(c) ==
    /\ op[c] = "start" /\ pc[c] = "launch"
    /\ \/ /\ jobUnit' = [jobUnit EXCEPT ![jobOf[c]] = "requested"]
          /\ Goto(c, "await")
          /\ UNCHANGED withdrawn
       \/ AbandonStart(c) /\ UNCHANGED jobUnit
    /\ UNCHANGED <<jobFiles, runner, command, late, jobOf, seen, known, reported,
                   forgotten, unheard>>

FinishJobCall(c) ==
    /\ jobOf' = [jobOf EXCEPT ![c] = NoJob]
    /\ seen' = [seen EXCEPT ![c] = NotSeen]

\* systemd-run reports success, or is killed with the call's context, whatever
\* has become of its request.
JobLaunchReturns(c) ==
    /\ op[c] = "start" /\ pc[c] = "await"
    /\ \/ /\ runner[jobOf[c]] # "none"
          /\ Return(c) /\ FinishJobCall(c)
          /\ UNCHANGED withdrawn
       \/ AbandonStart(c) /\ UNCHANGED <<jobOf, seen>>
    /\ UNCHANGED <<jobFiles, jobProcess, known, reported, forgotten, unheard>>

-----------------------------------------------------------------------------
(* inspectJob, for job.status, output, wait, list, signal and forget.  Calls*)
(* that change nothing need no bound.                                      *)

\* readSystemdJobState, after the stat of the directory
InspectUnit(c, j, o) ==
    /\ pc[c] = "idle" /\ j \in known
    /\ jobDir[j] # "none" \/ jobUnit[j] \notin {"absent", "requested"}
    /\ IF o = "look"
       THEN /\ op' = [op EXCEPT ![c] = o]
            /\ pc' = [pc EXCEPT ![c] = "result"]
            /\ UNCHANGED <<calls, failures>>
       ELSE Enter(c, o, "result")
    /\ jobOf' = [jobOf EXCEPT ![c] = j]
    /\ seen' = [seen EXCEPT ![c] = [dir |-> jobDir[j] # "none", unit |-> jobUnit[j]]]
    /\ UNCHANGED <<jobFiles, jobProcess, jobHistory>>

UnitStatus(u) ==
    CASE u \in {"absent", "requested"} -> "unknown"
      [] u = "activating" -> "starting"
      [] u \in {"active", "ending_well", "ending_badly"} -> "running"
      [] u = "failed" -> "failed"

\* Mutant of JobStatus: a failed unit decides.
UnitBeforeResult(c) ==
    IF seen[c].dir /\ jobResult[jobOf[c]] # "none" /\ seen[c].unit # "failed"
    THEN jobResult[jobOf[c]]
    ELSE UnitStatus(seen[c].unit)

\* result.json decides, also when it is younger than the unit's state.
JobStatus(c) ==
    IF seen[c].dir /\ jobResult[jobOf[c]] # "none"
    THEN jobResult[jobOf[c]]
    ELSE UnitStatus(seen[c].unit)

\* Mutant of IsTerminal: a unit that is gone is a job that has ended.
TerminalOrUnknown(status) == status \in Final \cup {"unknown"}

\* isTerminalJobStatus
IsTerminal(status) == status \in Final

InspectResult(c) ==
    LET status == JobStatus(c)
        next == CASE op[c] = "signal" /\ status \in {"starting", "running"} -> "kill"
                  [] op[c] = "forget" /\ IsTerminal(status) ->
                       IF seen[c].unit = "failed" THEN "reset" ELSE "erase"
                  [] OTHER -> "return"
    IN  /\ pc[c] = "result"
        /\ reported' = [reported EXCEPT ![jobOf[c]] = @ \cup ({status} \cap Final)]
        /\ IF next = "return"
           THEN Return(c) /\ FinishJobCall(c)
           ELSE Goto(c, next) /\ UNCHANGED <<jobOf, seen>>
        /\ withdrawn' = IF op[c] = "forget" /\ next # "return"
                        THEN withdrawn \cup {jobOf[c]} ELSE withdrawn
        /\ UNCHANGED <<jobFiles, jobProcess, known, forgotten, unheard>>

-----------------------------------------------------------------------------
(* job.signal                                                              *)

\* The signal ends the runner, without a result, and with it the unit.
KillRunner(j, unit) ==
    /\ runner' = [runner EXCEPT ![j] = "gone"]
    /\ jobUnit' = [jobUnit EXCEPT ![j] = unit]

\* --kill-whom=main: until signal.Notify the runner dies of most signals, and
\* systemd takes some of them for a good end.
SignalMain(j) ==
    \/ UNCHANGED <<runner, jobUnit, unheard>>
    \/ /\ jobUnit[j] = "activating" \/ runner[j] \in {"boot", "started"}
       /\ \/ KillRunner(j, "ending_well") /\ unheard' = unheard \cup {j}
          \/ KillRunner(j, "ending_badly") /\ UNCHANGED unheard

\* SIGKILL goes to every process of the unit.
SignalAll(j) ==
    /\ jobUnit[j] \in {"activating", "active"}
    /\ KillRunner(j, "ending_badly")
    /\ command' = [command EXCEPT ![j] = IF @ = "running" THEN "signalled" ELSE @]

SignalJob(c) ==
    /\ op[c] = "signal" /\ pc[c] = "kill"
    /\ \/ SignalMain(jobOf[c]) /\ UNCHANGED command
       \/ SignalAll(jobOf[c]) /\ UNCHANGED unheard
    /\ Return(c) /\ FinishJobCall(c)
    /\ UNCHANGED <<jobFiles, late, known, reported, withdrawn, forgotten>>

-----------------------------------------------------------------------------
(* job.forget, and the end of a start that failed                          *)

\* systemctl reset-failed, which fails when the unit is no longer loaded
ResetFailed(c) ==
    /\ op[c] = "forget" /\ pc[c] = "reset"
    /\ IF jobUnit[jobOf[c]] = "failed"
       THEN /\ jobUnit' = [jobUnit EXCEPT ![jobOf[c]] = "absent"]
            /\ Goto(c, "erase") /\ UNCHANGED <<jobOf, seen>>
       ELSE Return(c) /\ FinishJobCall(c) /\ UNCHANGED jobUnit
    /\ UNCHANGED <<jobFiles, runner, command, late, jobHistory>>

\* RemoveAll: the files, then the directory
EraseFiles(c) ==
    /\ op[c] \in {"start", "forget"} /\ pc[c] = "erase"
    /\ jobDir' = [jobDir EXCEPT ![jobOf[c]] = IF @ = "none" THEN @ ELSE "partial"]
    /\ jobResult' = [jobResult EXCEPT ![jobOf[c]] = "none"]
    /\ Goto(c, "rmdir")
    /\ UNCHANGED <<jobProcess, jobOf, seen, jobHistory>>

RemoveJobDirectory(c) ==
    /\ op[c] \in {"start", "forget"} /\ pc[c] = "rmdir"
    /\ jobDir' = [jobDir EXCEPT ![jobOf[c]] = "none"]
    /\ jobResult' = [jobResult EXCEPT ![jobOf[c]] = "none"]
    /\ forgotten' = IF op[c] = "forget"
                    THEN forgotten \cup {<<jobOf[c], seen[c].unit>>} ELSE forgotten
    /\ Return(c) /\ FinishJobCall(c)
    /\ UNCHANGED <<jobProcess, known, reported, withdrawn, unheard>>

-----------------------------------------------------------------------------

JobCallerDies(c) ==
    /\ pc[c] # "idle"
    /\ ReturnFailing(c) /\ FinishJobCall(c)
    /\ unheard' = IF op[c] = "start" THEN unheard \cup {jobOf[c]} ELSE unheard
    /\ UNCHANGED <<jobFiles, jobProcess, known, reported, withdrawn, forgotten>>

\* Nothing of transient units survives a restart of the host.
HostRestarts ==
    /\ Failure /\ UNCHANGED calls
    /\ pc' = [c \in Callers |-> "idle"] /\ op' = [c \in Callers |-> "none"]
    /\ jobOf' = [c \in Callers |-> NoJob] /\ seen' = [c \in Callers |-> NotSeen]
    /\ jobUnit' = [j \in Jobs |-> "absent"]
    /\ runner' = [j \in Jobs |-> IF j \in known THEN "gone" ELSE "none"]
    /\ command' = [j \in Jobs |-> IF command[j] = "running" THEN "signalled"
                                  ELSE command[j]]
    /\ unheard' = unheard \cup known
    /\ UNCHANGED <<jobFiles, late, known, reported, withdrawn, forgotten>>

JobStep(j) ==
    \/ UnitStarts(j) \/ UnitExecutes(j) \/ RunnerExits(j) \/ UnitEnds(j)
    \/ Boot(j) \/ Listen(j) \/ JobEnds(j) \/ TimerFires(j) \/ Reap(j)
    \/ WriteResult(j)

JobCallStep(c) ==
    \/ WriteJobSpec(c) \/ LaunchJob(c) \/ JobLaunchReturns(c)
    \/ InspectResult(c) \/ SignalJob(c) \/ ResetFailed(c)
    \/ EraseFiles(c) \/ RemoveJobDirectory(c) \/ JobCallerDies(c)

JobsNext ==
    \/ \E j \in Jobs : JobStep(j)
    \/ \E c \in Callers :
         \/ JobCallStep(c)
         \/ \E j \in Jobs : \/ MakeJobDirectory(c, j)
                            \/ \E o \in {"look", "signal", "forget"} :
                                 InspectUnit(c, j, o)
    \/ HostRestarts

JobsSpec == CallersInit /\ JobsInit /\ [][JobsNext]_<<callers, jobVars>>

-----------------------------------------------------------------------------
(* Properties.                                                             *)

\* Status is computed anew by every call, from a unit that ends and is
\* unloaded and a file that appears meanwhile; no two calls may report
\* different ends of a job, until a call begins to remove its directory.
StatusIsFinal ==
    \A j \in Jobs \ withdrawn : \A s, t \in reported[j] : s = t

\* A forgotten job runs no command; and when its forget found the unit failed,
\* that unit is gone as well, or job.list would find the job again.
ForgetIsFinal ==
    \A f \in forgotten :
        /\ command[f[1]] # "running"
        /\ f[2] = "failed" => jobUnit[f[1]] = "absent"

\* A job without unit and result is "unknown" for ever, and job.forget refuses
\* it.  No job comes to that which kept its starter and its host, whose runner
\* was not signalled before it listened, and which no call has begun to remove.
UnknownIsExplained ==
    \A j \in known \ (unheard \cup withdrawn) :
        \/ jobDir[j] = "none" \/ jobResult[j] # "none" \/ jobUnit[j] # "absent"
        \/ \E c \in Callers : op[c] = "start" /\ jobOf[c] = j
=============================================================================
