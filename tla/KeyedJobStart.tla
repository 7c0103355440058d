---------------------------- MODULE KeyedJobStart ----------------------------
(***************************************************************************)
(* A keyed job.start (keyed_job.go) and the world it acts on: the durable  *)
(* record of one key, job directories, systemd, the job runner, and a      *)
(* `hec call job.forget` in another process.                               *)
(*                                                                         *)
(* Unlike other mutations, an in-progress record is reconciled: the record *)
(* names the exact unit, and inspection of that unit decides whether the   *)
(* launch is complete, may be repeated or is uncertain.  One call is in    *)
(* flight at a time (the call gate), and the calls under other keys show   *)
(* only in what they prune; claiming and releasing the key in memory,      *)
(* conflicting requests and which record is pruned when are in module      *)
(* KeyedMutation.                                                          *)
(***************************************************************************)
EXTENDS Naturals, FiniteSets

CONSTANTS
    Jobs, NoJob,      \* job identifiers; each names its directory and unit
    LateAcceptance,   \* may systemd act on a launch request after the 2 s
                      \* evidence window (keyedJobEvidenceWindow) has closed?
    MaxCalls, MaxCrashes, MaxReboots, MaxFaults, MaxForgets,   \* bounds
    MaxSignals        \* bound of the jobs whose runner is signalled early

ASSUME KeyedJobStartAssumption ==
    /\ NoJob \notin Jobs
    /\ LateAcceptance \in BOOLEAN
    /\ {MaxCalls, MaxCrashes, MaxReboots, MaxFaults, MaxForgets, MaxSignals}
         \subseteq Nat

VARIABLES
    record,      \* durable: the keyed mutation record of the key
    legacy,      \* durable: the v0.0.11 job-keys mapping of the key, or NoJob
    dir,         \* durable: job directories; "ready" once spec.json is there
    result,      \* durable: the jobs whose directory holds result.json
    unit,        \* systemd: each job's transient unit
    pending,     \* systemd: launch requests it has not acted on
    lock,        \* holder of the flock of the key digest
    legacyLock,  \* holder of the flock of the legacy job-keys directory
    pc, job,     \* the call: its next step, the job of its record
    tries,       \* launches made by the call
    response,    \* what systemd-run returned to the call
    seen,        \* what systemd last told the call of the unit
    reply,       \* the result the call will return
    fpc, fjob,   \* the job.forget process: its next step, its job
    used,        \* job identifiers already allocated (newJobID never repeats)
    calls, crashes, reboots, faults, forgets,  \* bounded by the constants
    runs,        \* history: how often systemd started a job's runner
    unheard,     \* history: jobs that left no trace of a start
    launched,    \* history: jobs launched since the key was last fresh
    answers,     \* history: job.start results given since then
    forgotten    \* history: jobs a job.forget has begun to forget

durable == <<record, legacy, dir, result>>
systemd == <<unit, pending>>
locks   == <<lock, legacyLock>>
call    == <<pc, job, tries, response, seen, reply>>
forget  == <<fpc, fjob>>
bounds  == <<calls, crashes, reboots, faults, forgets>>
history == <<launched, answers, unheard>>
vars    == <<durable, systemd, locks, call, forget, used, bounds, runs, history,
             forgotten>>

-----------------------------------------------------------------------------
(* Types and the initial states.                                           *)

NoRecord == [state |-> "none", job |-> NoJob, attempted |-> FALSE,
             reply |-> "none"]

InProgress(j, attempted) ==
    [state |-> "in_progress", job |-> j, attempted |-> attempted,
     reply |-> "none"]

\* Mutant of Completed: a misnamed state.
MisnamedState(j, r) ==
    [state |-> "done", job |-> j, attempted |-> TRUE, reply |-> r]

Completed(j, r) ==
    [state |-> "completed", job |-> j, attempted |-> TRUE, reply |-> r]

Recorded == {"none", "started", "job_start_failed"}

Replies == Recorded \cup {"uncertain_prior_execution", "canceled",
                          "idempotency_state_failed"}

TypeOK ==
    /\ record \in [state : {"none", "in_progress", "completed"},
                   job : Jobs \cup {NoJob}, attempted : BOOLEAN,
                   reply : Recorded]
    /\ legacy \in Jobs \cup {NoJob}
    /\ dir \in [Jobs -> {"none", "partial", "ready"}]
    /\ result \in SUBSET Jobs
    /\ unit \in [Jobs -> {"absent", "active", "failed"}]
    /\ pending \in [Jobs -> Nat]
    /\ lock \in {"free", "call", "forget"}
    /\ legacyLock \in {"free", "call", "forget"}
    /\ pc \in {"idle", "lock", "read", "import", "imported", "mkdir", "spec",
               "publish", "attempt", "launch", "await", "unit", "verdict",
               "complete", "unlock"}
    /\ job \in Jobs \cup {NoJob}
    /\ tries \in 0..2
    /\ response \in {"none", "ok", "error"}
    /\ seen \in {"present", "absent", "early"}
    /\ reply \in Replies
    /\ fpc \in {"idle", "reset", "legacy", "mapping", "digest", "state",
                "rmdir"}
    /\ fjob \in Jobs \cup {NoJob}
    /\ used \in SUBSET Jobs
    /\ {calls, crashes, reboots, faults, forgets} \subseteq Nat
    /\ runs \in [Jobs -> Nat]
    /\ unheard \in SUBSET Jobs
    /\ launched \in SUBSET Jobs
    /\ answers \in SUBSET ((Jobs \cup {NoJob}) \X Recorded)
    /\ forgotten \in SUBSET Jobs

\* Either a fresh key, or a key whose job HEC v0.0.11 started: running,
\* finished, recorded and never launched, or started and gone without a trace
\* (signalled early, or lost with the host).
LegacyStates(j) ==
    {<<"active", {}, 1>>, <<"absent", {j}, 1>>, <<"failed", {j}, 1>>,
     <<"failed", {}, 1>>, <<"absent", {}, 0>>, <<"absent", {}, 1>>}

InitLegacy ==
    \/ /\ legacy = NoJob
       /\ dir = [i \in Jobs |-> "none"]
       /\ unit = [i \in Jobs |-> "absent"]
       /\ runs = [i \in Jobs |-> 0]
       /\ result = {} /\ used = {} /\ unheard = {}
    \/ \E j \in Jobs : \E s \in LegacyStates(j) :
       /\ legacy = j
       /\ dir = [i \in Jobs |-> IF i = j THEN "ready" ELSE "none"]
       /\ unit = [i \in Jobs |-> IF i = j THEN s[1] ELSE "absent"]
       /\ runs = [i \in Jobs |-> IF i = j THEN s[3] ELSE 0]
       /\ result = s[2] /\ used = {j}
       /\ unheard = IF s = <<"absent", {}, 1>> THEN {j} ELSE {}

Init ==
    /\ InitLegacy
    /\ record = NoRecord
    /\ pending = [j \in Jobs |-> 0]
    /\ lock = "free" /\ legacyLock = "free"
    /\ pc = "idle" /\ job = NoJob /\ tries = 0 /\ response = "none"
    /\ seen = "absent" /\ reply = "none"
    /\ fpc = "idle" /\ fjob = NoJob
    /\ calls = 0 /\ crashes = 0 /\ reboots = 0 /\ faults = 0 /\ forgets = 0
    /\ launched = {} /\ answers = {} /\ forgotten = {}

-----------------------------------------------------------------------------
(* What inspectJob sees.                                                   *)

Present(j) == unit[j] # "absent"

HasResult(j) == dir[j] # "none" /\ j \in result

\* isTerminalJobStatus: result.json first, then the unit's state.
Terminal(j) == HasResult(j) \/ unit[j] = "failed"

-----------------------------------------------------------------------------
(* Steps of the call.                                                      *)

Goto(step) == pc' = step

Fault == faults < MaxFaults /\ faults' = faults + 1

\* A durable write that fails may or may not have taken effect.
Write(r) == record' = r
WriteFails(r) == Fault /\ (Write(r) \/ UNCHANGED record)

Return(r) == reply' = r /\ Goto("unlock")

\* Jobs bounds the identifiers that can be allocated.
Begin ==
    /\ pc = "idle" /\ calls < MaxCalls /\ used # Jobs
    /\ calls' = calls + 1
    /\ Goto("lock")
    /\ UNCHANGED <<durable, systemd, locks, job, tries, response, seen, reply,
                   forget, used, crashes, reboots, faults, forgets, runs,
                   history, forgotten>>

Lock ==
    /\ pc = "lock" /\ lock = "free"
    /\ lock' = "call"
    /\ Goto("read")
    /\ UNCHANGED <<durable, systemd, legacyLock, job, tries, response, seen,
                   reply, forget, used, bounds, runs, history, forgotten>>

\* The call only moves on; nothing outside it changes.
Local == UNCHANGED <<durable, systemd, locks, forget, used, bounds, runs,
                     history, forgotten>>

\* Mutant of ReadCompleted: a recorded failure is replayed as a start.
ReplayStart ==
    /\ pc = "read" /\ record.state = "completed"
    /\ job' = record.job
    /\ Return("started")
    /\ Local /\ UNCHANGED <<tries, response, seen>>

ReadCompleted ==
    /\ pc = "read" /\ record.state = "completed"
    /\ job' = record.job
    /\ Return(record.reply)
    /\ Local /\ UNCHANGED <<tries, response, seen>>

\* Mutant of Reconcile: an interrupted start begins anew.
StartAnew ==
    /\ pc = "read" /\ record.state = "in_progress"
    /\ Goto("mkdir")
    /\ Local /\ UNCHANGED <<job, tries, response, seen, reply>>

\* reconcileKeyedJobStart
Reconcile ==
    /\ pc = "read" /\ record.state = "in_progress"
    /\ job' = record.job
    /\ IF dir[record.job] # "ready"
       THEN Return("uncertain_prior_execution")
       ELSE /\ Goto(IF record.attempted THEN "unit" ELSE "attempt")
            /\ UNCHANGED reply
    /\ Local /\ UNCHANGED <<tries, response, seen>>

ReadNotFound ==
    /\ pc = "read" /\ record.state = "none"
    /\ Goto("import")
    /\ Local /\ UNCHANGED <<job, tries, response, seen, reply>>

\* importLegacyJobStart holds the key's lock while it takes the legacy lock.
ImportLock ==
    /\ pc = "import" /\ legacyLock = "free"
    /\ legacyLock' = "call"
    /\ Goto("imported")
    /\ UNCHANGED <<durable, systemd, lock, job, tries, response, seen, reply,
                   forget, used, bounds, runs, history, forgotten>>

Import ==
    /\ pc = "imported"
    /\ legacyLock' = "free"
    /\ \/ /\ legacy = NoJob
          /\ Goto("mkdir")
          /\ UNCHANGED <<record, job, reply, faults>>
       \/ /\ legacy # NoJob
          /\ \/ dir[legacy] # "ready" /\ UNCHANGED faults
             \/ dir[legacy] = "ready" /\ Fault   \* the unit is not inspected
          /\ Return("uncertain_prior_execution")
          /\ UNCHANGED <<record, job>>
       \/ /\ legacy # NoJob /\ dir[legacy] = "ready"
          /\ Present(legacy) \/ HasResult(legacy)
          /\ job' = legacy
          /\ \/ /\ Write(Completed(legacy, "started"))
                /\ Return("started")
                /\ UNCHANGED faults
             \/ /\ WriteFails(Completed(legacy, "started"))
                /\ Return("idempotency_state_failed")
       \/ /\ legacy # NoJob /\ dir[legacy] = "ready"
          /\ ~Present(legacy) /\ ~HasResult(legacy)
          /\ job' = legacy
          /\ \/ /\ Write(InProgress(legacy, TRUE))
                /\ Goto("unit")
                /\ UNCHANGED <<reply, faults>>
             \/ /\ WriteFails(InProgress(legacy, TRUE))
                /\ Return("idempotency_state_failed")
    /\ UNCHANGED <<legacy, dir, result, systemd, lock, tries, response, seen,
                   forget, used, calls, crashes, reboots, forgets, runs,
                   history, forgotten>>

\* prepareKeyedJobState: the directory first, spec.json last.
MakeDirectory(j) ==
    /\ pc = "mkdir" /\ j \notin used
    /\ used' = used \cup {j}
    /\ dir' = [dir EXCEPT ![j] = "partial"]
    /\ job' = j
    /\ Goto("spec")
    /\ UNCHANGED <<record, legacy, result, systemd, locks, tries, response, seen,
                   reply, forget, bounds, runs, history, forgotten>>

WriteSpec ==
    /\ pc = "spec"
    /\ \/ /\ dir' = [dir EXCEPT ![job] = "ready"]
          /\ Goto("publish")
          /\ UNCHANGED <<reply, faults>>
       \/ /\ Fault
          /\ dir' = [dir EXCEPT ![job] = "none"]
          /\ Return("job_start_failed")
    /\ UNCHANGED <<record, legacy, result, systemd, locks, job, tries, response,
                   seen, forget, used, calls, crashes, reboots, forgets, runs,
                   history, forgotten>>

PublishJob ==
    /\ pc = "publish"
    /\ \/ /\ Write(InProgress(job, FALSE))
          /\ Goto("attempt")
          /\ UNCHANGED <<dir, reply, faults>>
       \/ /\ WriteFails(InProgress(job, FALSE))
          /\ dir' = [dir EXCEPT ![job] = "none"]
          /\ Return("idempotency_state_failed")
    /\ UNCHANGED <<legacy, result, systemd, locks, job, tries, response, seen,
                   forget, used, calls, crashes, reboots, forgets, runs,
                   history, forgotten>>

\* launchAndCompleteKeyedJob: LaunchAttempted is durable before the launch.
RecordAttempt ==
    /\ pc = "attempt"
    /\ \/ /\ Write(InProgress(job, TRUE))
          /\ Goto("launch")
          /\ UNCHANGED <<reply, faults>>
       \/ /\ WriteFails(InProgress(job, TRUE))
          /\ Return("idempotency_state_failed")
    /\ UNCHANGED <<legacy, dir, result, systemd, locks, job, tries, response,
                   seen, forget, used, calls, crashes, reboots, forgets, runs,
                   history, forgotten>>

Canceled ==
    /\ pc = "launch"
    /\ Return("canceled")
    /\ Local /\ UNCHANGED <<job, tries, response, seen>>

Launch ==
    /\ pc = "launch"
    /\ tries' = tries + 1
    /\ pending' = [pending EXCEPT ![job] = @ + 1]
    /\ launched' = launched \cup {job}
    /\ response' = "none"
    /\ Goto("await")
    /\ UNCHANGED <<durable, unit, locks, job, seen, reply, forget, used, bounds,
                   runs, answers, unheard, forgotten>>

\* Mutant of LaunchReturns: a launch that was not refused counts as done.
AssumeStarted ==
    /\ pc = "await"
    /\ Goto(IF response = "error" THEN "unit" ELSE "complete")
    /\ reply' = IF response = "error" THEN reply ELSE "started"
    /\ Local /\ UNCHANGED <<job, tries, response, seen>>

\* systemd-run reports success, reports an error, or is killed by the call's
\* context before it reports anything.
LaunchReturns ==
    /\ pc = "await"
    /\ Goto(IF response = "ok" THEN "complete" ELSE "unit")
    /\ reply' = IF response = "ok" THEN "started" ELSE reply
    /\ Local /\ UNCHANGED <<job, tries, response, seen>>

\* keyedJobEvidence asks systemd first and reads result.json afterwards: a
\* job that ends in between has left its result.  A look is "early" when it
\* finds no unit because systemd has still to act on a request for it.
FirstLook(j) == Present(j)
SecondLook(j) == HasResult(j)

InspectUnit ==
    /\ pc = "unit"
    /\ seen' = IF FirstLook(job) THEN "present"
               ELSE IF pending[job] = 0 THEN "absent" ELSE "early"
    /\ Goto("verdict")
    /\ Local /\ UNCHANGED <<job, tries, response, reply>>

\* Mutant of Accepted: result.json is not consulted.
UnitOnly == seen = "present"

Accepted == seen = "present" \/ SecondLook(job)

VerdictAccepted ==
    /\ pc = "verdict" /\ Accepted
    /\ reply' = "started"
    /\ Goto("complete")
    /\ Local /\ UNCHANGED <<job, tries, response, seen>>

\* Not accepted yet: waitForKeyedJobEvidence polls again within its window.
Poll ==
    /\ pc = "verdict" /\ ~Accepted
    /\ Goto("unit")
    /\ Local /\ UNCHANGED <<job, tries, response, seen, reply>>

\* Mutant of VerdictAbsent: an adopted job is given up without a launch.
FailUnlaunched ==
    /\ pc = "verdict" /\ ~Accepted
    /\ dir[job] # "none"
    /\ LateAcceptance \/ seen = "absent"
    /\ Goto("complete") /\ reply' = "job_start_failed"
    /\ Local /\ UNCHANGED <<job, tries, response, seen>>

\* The window closed and the last inspection showed the directory, no unit
\* and no result.  Unless LateAcceptance, the window is long enough for
\* systemd to have acted on every request.  A call launches at most twice.
VerdictAbsent ==
    /\ pc = "verdict" /\ ~Accepted
    /\ dir[job] # "none"
    /\ LateAcceptance \/ seen = "absent"
    /\ IF tries < 2
       THEN Goto("launch") /\ UNCHANGED reply
       ELSE Goto("complete") /\ reply' = "job_start_failed"
    /\ Local /\ UNCHANGED <<job, tries, response, seen>>

\* No directory either, an inspection error, or a canceled window.
VerdictUncertain ==
    /\ pc = "verdict" /\ ~Accepted
    /\ \/ dir[job] = "none" /\ UNCHANGED faults
       \/ Fault
    /\ Return("uncertain_prior_execution")
    /\ UNCHANGED <<durable, systemd, locks, job, tries, response, seen, forget,
                   used, calls, crashes, reboots, forgets, runs, history,
                   forgotten>>

\* completeKeyedJob; what it prunes then is of other keys (PruneRecord).
Complete ==
    /\ pc = "complete"
    /\ \/ Write(Completed(job, reply)) /\ Return(reply) /\ UNCHANGED faults
       \/ /\ WriteFails(Completed(job, reply))
          /\ Return("idempotency_state_failed")
    /\ UNCHANGED <<legacy, dir, result, systemd, locks, job, tries, response,
                   seen, forget, used, calls, crashes, reboots, forgets, runs,
                   history, forgotten>>

\* A reply from the record, or just recorded, is the client's answer.
Answered(r) == r = "started" \/ record = Completed(job, r)

Unlock ==
    /\ pc = "unlock"
    /\ lock' = "free"
    /\ Goto("idle")
    /\ answers' = IF Answered(reply) THEN answers \cup {<<job, reply>>} ELSE answers
    /\ job' = NoJob /\ tries' = 0 /\ response' = "none" /\ seen' = "absent"
    /\ reply' = "none"
    /\ UNCHANGED <<durable, systemd, legacyLock, forget, used, bounds, runs,
                   launched, unheard, forgotten>>

-----------------------------------------------------------------------------
(* systemd and the job runner.                                             *)

\* The call still waiting for systemd-run may or may not get its report.
Report(j, r) ==
    response' = IF pc = "await" /\ job = j THEN r ELSE response

\* systemd creates the unit of a name it does not know.  With no directory
\* to append the output to, the unit fails at once.
StartUnit(j) ==
    /\ pending[j] > 0 /\ unit[j] = "absent"
    /\ pending' = [pending EXCEPT ![j] = @ - 1]
    /\ IF dir[j] = "ready"
       THEN /\ unit' = [unit EXCEPT ![j] = "active"]
            /\ runs' = [runs EXCEPT ![j] = @ + 1]
            /\ Report(j, "ok")
       ELSE /\ unit' = [unit EXCEPT ![j] = "failed"]
            /\ UNCHANGED runs
            /\ Report(j, "error")
    /\ UNCHANGED <<durable, locks, pc, job, tries, seen, reply, forget, used,
                   bounds, history, forgotten>>

\* The name is taken, systemd refuses, or the request is lost on its way.
RefuseUnit(j) ==
    /\ pending[j] > 0
    /\ pending' = [pending EXCEPT ![j] = @ - 1]
    /\ Report(j, "error")
    /\ UNCHANGED <<durable, unit, locks, pc, job, tries, seen, reply, forget,
                   used, bounds, runs, history, forgotten>>

\* The command ended and the runner wrote result.json.
WriteResult(j) ==
    /\ unit[j] = "active" /\ dir[j] = "ready" /\ j \notin result
    /\ result' = result \cup {j}
    /\ UNCHANGED <<record, legacy, dir, systemd, locks, call, forget, used,
                   bounds, runs, history, forgotten>>

\* The runner exits: a unit that ended cleanly is unloaded, one that did not
\* stays as a failed unit.  Without a result (SIGKILL, a failed write) the
\* exit is not clean, except in SignalledEarly.
UnitExits(j) ==
    /\ unit[j] = "active"
    /\ \/ unit' = [unit EXCEPT ![j] = "failed"]
       \/ HasResult(j) /\ unit' = [unit EXCEPT ![j] = "absent"]
    /\ UNCHANGED <<durable, pending, locks, call, forget, used, bounds, runs,
                   history, forgotten>>

\* A SIGTERM, HUP, INT or PIPE kills the runner before signal.Notify, which
\* comes after it has started the command.  For systemd that is a clean end:
\* the unit is unloaded and no result is written.  How far the runner has come
\* is not modelled, so it may be hit at any time before its result.
SignalledEarly(j) ==
    /\ unit[j] = "active" /\ dir[j] = "ready" /\ j \notin result
    /\ unheard' = unheard \cup {j}
    /\ Cardinality(unheard') <= MaxSignals
    /\ unit' = [unit EXCEPT ![j] = "absent"]
    /\ UNCHANGED <<durable, pending, locks, call, forget, used, bounds, runs,
                   launched, answers, forgotten>>

-----------------------------------------------------------------------------
(* The service's calls under other keys.                                   *)

\* A key whose record is gone is fresh.
Fresh == record' = NoRecord /\ launched' = {} /\ answers' = {}

Release(l, holder) == IF l = holder THEN "free" ELSE l

\* A call that completes under another key prunes this key's record: it is
\* older than the retention of 30 days, or one of more than 4096.  By then
\* systemd has nothing left to do for its job, however late it acts.  The lock
\* file goes with the record, so a job.forget that holds it locks nobody out
\* any more.
PruneRecord ==
    /\ pc = "idle"
    /\ record.state = "completed" /\ pending[record.job] = 0
    /\ Fresh
    /\ lock' = Release(lock, "forget")
    /\ UNCHANGED <<legacy, dir, result, systemd, legacyLock, call, forget, used,
                   bounds, runs, unheard, forgotten>>

-----------------------------------------------------------------------------
(* `hec call job.forget`, in a process of its own.                         *)

FGoto(step) == fpc' = step

Others == UNCHANGED <<call, used, calls, crashes, reboots, faults, runs>>

ForgetInspect(j) ==
    /\ fpc = "idle" /\ forgets < MaxForgets
    /\ Terminal(j)
    /\ forgets' = forgets + 1
    /\ fjob' = j
    /\ forgotten' = forgotten \cup {j}
    /\ FGoto(IF unit[j] = "failed" THEN "reset" ELSE "legacy")
    /\ Others /\ UNCHANGED <<durable, systemd, locks, history>>

ForgetReset ==
    /\ fpc = "reset"
    /\ unit' = [unit EXCEPT ![fjob] = IF @ = "failed" THEN "absent" ELSE @]
    /\ FGoto("legacy")
    /\ Others /\ UNCHANGED <<durable, pending, locks, fjob, forgets, history,
                             forgotten>>

\* removeJobKeyMappings lets go of the legacy lock before it takes the lock
\* of any key.
ForgetLockLegacy ==
    /\ fpc = "legacy" /\ legacyLock = "free"
    /\ legacyLock' = "forget"
    /\ FGoto("mapping")
    /\ Others /\ UNCHANGED <<durable, systemd, lock, fjob, forgets, history,
                             forgotten>>

\* Mutant of ForgetMapping: the legacy lock is kept for the next lock.
KeepLegacyLock ==
    /\ fpc = "mapping"
    /\ legacy' = IF legacy = fjob THEN NoJob ELSE legacy
    /\ FGoto(IF record.state = "none" THEN "rmdir" ELSE "digest")
    /\ Others /\ UNCHANGED <<record, dir, result, systemd, locks, fjob, forgets,
                             history, forgotten>>

ForgetMapping ==
    /\ fpc = "mapping"
    /\ legacy' = IF legacy = fjob THEN NoJob ELSE legacy
    /\ legacyLock' = "free"
    /\ FGoto(IF record.state = "none" THEN "rmdir" ELSE "digest")
    /\ Others /\ UNCHANGED <<record, dir, result, systemd, lock, fjob, forgets,
                             history, forgotten>>

ForgetLockKey ==
    /\ fpc = "digest" /\ lock = "free"
    /\ lock' = "forget"
    /\ FGoto("state")
    /\ Others /\ UNCHANGED <<durable, systemd, legacyLock, fjob, forgets, history,
                             forgotten>>

\* It reads the record and removes it in one step, although a PruneRecord may
\* have taken its lock file away.
ForgetState ==
    /\ fpc = "state"
    /\ lock' = Release(lock, "forget")
    /\ IF record.job = fjob THEN Fresh
       ELSE UNCHANGED <<record, launched, answers>>
    /\ FGoto("rmdir")
    /\ Others /\ UNCHANGED <<legacy, dir, result, systemd, legacyLock, fjob,
                             forgets, unheard, forgotten>>

ForgetDirectory ==
    /\ fpc = "rmdir"
    /\ dir' = [dir EXCEPT ![fjob] = "none"]
    /\ result' = result \ {fjob}
    /\ FGoto("idle") /\ fjob' = NoJob
    /\ Others /\ UNCHANGED <<record, legacy, systemd, locks, forgets, history,
                             forgotten>>

\* Any step of job.forget fails, or its process is killed.
ForgetEnds ==
    /\ fpc # "idle" /\ Fault
    /\ FGoto("idle") /\ fjob' = NoJob
    /\ lock' = Release(lock, "forget")
    /\ legacyLock' = Release(legacyLock, "forget")
    /\ UNCHANGED <<durable, systemd, call, used, calls, crashes, reboots, forgets,
                   runs, history, forgotten>>

-----------------------------------------------------------------------------
(* Deaths and restarts.                                                    *)

CallDies ==
    /\ pc' = "idle" /\ job' = NoJob /\ tries' = 0 /\ response' = "none"
    /\ seen' = "absent" /\ reply' = "none"

\* The service dies and systemd restarts it; jobs are units of their own.
Crash ==
    /\ pc # "idle" /\ crashes < MaxCrashes
    /\ crashes' = crashes + 1
    /\ CallDies
    /\ lock' = Release(lock, "call")
    /\ legacyLock' = Release(legacyLock, "call")
    /\ UNCHANGED <<durable, systemd, forget, used, calls, reboots, faults,
                   forgets, runs, history, forgotten>>

\* The host restarts: every process and transient unit is gone.
Reboot ==
    /\ reboots < MaxReboots
    /\ reboots' = reboots + 1
    /\ CallDies
    /\ fpc' = "idle" /\ fjob' = NoJob
    /\ lock' = "free" /\ legacyLock' = "free"
    /\ unit' = [j \in Jobs |-> "absent"]
    /\ pending' = [j \in Jobs |-> 0]
    /\ UNCHANGED <<durable, used, calls, crashes, faults, forgets, runs, history,
                   forgotten>>

Step ==
    \/ Lock \/ ReadCompleted \/ Reconcile \/ ReadNotFound
    \/ ImportLock \/ Import
    \/ \E j \in Jobs : MakeDirectory(j)
    \/ WriteSpec \/ PublishJob \/ RecordAttempt \/ Launch
    \/ LaunchReturns \/ InspectUnit \/ VerdictAccepted \/ VerdictAbsent
    \/ Complete \/ Unlock

ForgetStep ==
    \/ ForgetReset \/ ForgetLockLegacy \/ ForgetMapping \/ ForgetLockKey
    \/ ForgetState \/ ForgetDirectory

Systemd == \E j \in Jobs : StartUnit(j) \/ RefuseUnit(j)

Next ==
    \/ Begin \/ Step \/ Canceled \/ Poll \/ VerdictUncertain
    \/ Systemd
    \/ \E j \in Jobs : \/ WriteResult(j) \/ UnitExits(j) \/ SignalledEarly(j)
                       \/ ForgetInspect(j)
    \/ PruneRecord
    \/ ForgetStep \/ ForgetEnds
    \/ Crash \/ Reboot

Spec == Init /\ [][Next]_vars

\* The scheduler runs the call and the hec process, flock serves its waiters,
\* systemd acts on requests, and the evidence window closes in time.
Fairness ==
    /\ WF_vars(Step \/ Poll) /\ SF_vars(Lock \/ ImportLock) /\ SF_vars(VerdictAbsent)
    /\ WF_vars(ForgetStep) /\ SF_vars(ForgetLockLegacy \/ ForgetLockKey)
    /\ WF_vars(Systemd)

FairSpec == Spec /\ Fairness

-----------------------------------------------------------------------------
(* Properties.                                                             *)

\* The runner of a job, and with it the command, is started at most once,
\* whatever responses of systemd-run are lost and however often the service dies
\* and the client retries -- unless an operator is forgetting that very job, or
\* a runner of it was killed by a signal before it listened to signals: that
\* leaves neither unit nor result, and a retry launches the job again.
RunsAtMostOnce == \A j \in Jobs \ (forgotten \cup unheard) : runs[j] <= 1

\* While a key is retained, the only job ever launched for it is the one its
\* record names: an ambiguous response never leads to a second unit.
OneUnitPerKey == launched \subseteq {record.job}

\* All answers given for a retained key are the same job, or the same
\* failure.
AnswersAgree == Cardinality(answers) <= 1

\* A recorded start is true: the runner was started.  A recorded failure is
\* final: no request is left that could start it, and it was not started before,
\* or a signal killed it before it listened to signals.
RecordIsTrue ==
    record.state = "completed" /\ record.job \notin forgotten =>
      IF record.reply = "started" THEN runs[record.job] >= 1
      ELSE /\ pending[record.job] = 0
           /\ runs[record.job] = 0 \/ record.job \in unheard

\* The identifiers that are used up: the call may still publish its own.
Spent == IF pc \in {"spec", "publish"} THEN used \ {job} ELSE used

\* The records, locks, launches and reports of any number of calls implement
\* the promise stated in module KeyedStarts, also when the host restarts and
\* when systemd acts late: one job under a new identifier, one outcome that
\* follows a launch, and a start that is not settled is given up only by a
\* job.forget of that very job.
Promise == INSTANCE KeyedStarts WITH
    named <- record.job, outcome <- record.reply, mapped <- legacy,
    spent <- Spent, dropped <- forgotten

ImplementsKeyedStarts == Promise!Spec

\* Every call returns, although it takes the legacy lock while it holds the
\* key's lock and a concurrent job.forget takes both as well.
EveryCallReturns == pc # "idle" ~> pc = "idle"
=============================================================================
