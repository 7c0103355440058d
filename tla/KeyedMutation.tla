---------------------------- MODULE KeyedMutation ----------------------------
(***************************************************************************)
(* The keyed mutation protocol of HEC (keyed_mutation.go): a call that     *)
(* carries an idempotency key claims the key in memory, locks it with      *)
(* flock, reads the durable record of the key and then replays, refuses or *)
(* executes.  An execution is bracketed by two durable record writes.      *)
(*                                                                         *)
(* The calls are goroutines of one service process.  The process may die   *)
(* and be restarted by systemd between any two steps: the in-memory claims *)
(* and the locks vanish, the records stay.  `hec call` commands are        *)
(* separate processes that only meet the service at the locks.             *)
(*                                                                         *)
(* job.start, whose in-progress records are reconciled instead of refused, *)
(* is the subject of module KeyedJobStart.                                 *)
(***************************************************************************)
EXTENDS Naturals, FiniteSets

CONSTANTS
    Calls,        \* goroutines that run dispatchKeyedMutation
    Keys,         \* digests of idempotency keys
    Requests,     \* normalized requests (operation and request hash)
    ForgetReqs,   \* the requests whose operation is job.forget
    Results,      \* native results, failed ones included
    NoRequest, NoResult, Free, Cli,
    Gated,        \* TRUE: calls arrive through the call gate of mcp.go
    MaxRecords,   \* keyedMutationMaxRecords
    Retention,    \* keyedMutationRetention, in units of the clock
    MaxCalls, MaxCrashes, MaxFaults, MaxClock     \* bounds of the model

ASSUME KeyedMutationAssumption ==
    /\ ForgetReqs \subseteq Requests
    /\ NoRequest \notin Requests
    /\ NoResult \notin Results
    /\ Free \notin Calls /\ Cli \notin Calls /\ Free # Cli
    /\ Gated \in BOOLEAN
    /\ {MaxRecords, Retention, MaxCalls, MaxCrashes, MaxFaults, MaxClock}
         \subseteq Nat

VARIABLES
    record,    \* durable: the state file of each key
    lock,      \* who holds the flock of the file now named <digest>.lock
    active,    \* in memory: keyedMutationStore.active
    pc,        \* the next step of each call
    key, req,  \* the call's key digest and normalized request
    reply,     \* the call's result, once it is determined
    todo,      \* keys a loop of the call has still to visit
    visit,     \* the key (at most one) whose lock that loop waits for
    cliKey,    \* the keys (at most one) a hec process has locked
    clock,     \* wall clock: now and UpdatedAt
    started, crashes, faults,    \* bounded by the constants above
    execs,     \* history: native executions of a key since it was last fresh
    answers,   \* history: results given to clients for a key
    uncertain  \* history: keys answered uncertain_prior_execution

storeVars == <<record, lock, active, cliKey>>
callVars  == <<pc, key, req, reply, todo, visit>>
bounds    == <<clock, started, crashes, faults>>
history   == <<execs, answers, uncertain>>
vars      == <<storeVars, callVars, bounds, history>>

-----------------------------------------------------------------------------
(* Records, replies and other types. *)

NoRecord == [state |-> "none", req |-> NoRequest, result |-> NoResult,
             updated |-> 0]

InProgress(r) == [state |-> "in_progress", req |-> r, result |-> NoResult,
                  updated |-> clock]

\* Mutant of Completed: a misnamed state.
MisnamedState(r, v) == [state |-> "done", req |-> r, result |-> v,
                        updated |-> clock]

Completed(r, v) == [state |-> "completed", req |-> r, result |-> v,
                    updated |-> clock]

Record == [state : {"none", "in_progress", "completed"},
           req : Requests \cup {NoRequest},
           result : Results \cup {NoResult},
           updated : Nat]

Codes == {"none", "result", "idempotency_conflict",
          "uncertain_prior_execution", "idempotency_state_failed",
          "idempotency_state_corrupt", "internal_error"}

Reply(code, v) == [code |-> code, value |-> v]

Failed(code) == Reply(code, NoResult)

Steps == {"idle", "lock", "read", "publish", "native", "scan", "scanlock",
          "complete", "prune", "remove", "unlock", "deactivate"}

TypeOK ==
    /\ record \in [Keys -> Record]
    /\ lock \in [Keys -> Calls \cup {Free, Cli}]
    /\ active \in SUBSET Keys
    /\ pc \in [Calls -> Steps]
    /\ key \in [Calls -> Keys]
    /\ req \in [Calls -> Requests]
    /\ reply \in [Calls -> [code : Codes, value : Results \cup {NoResult}]]
    /\ todo \in [Calls -> SUBSET Keys]
    /\ visit \in [Calls -> SUBSET Keys]
    /\ cliKey \in SUBSET Keys
    /\ clock \in Nat /\ started \in Nat /\ crashes \in Nat /\ faults \in Nat
    /\ execs \in [Keys -> Nat]
    /\ answers \in SUBSET (Keys \X Requests \X (Results \cup {NoResult}))
    /\ uncertain \in SUBSET Keys

Init ==
    /\ record = [k \in Keys |-> NoRecord]
    /\ lock = [k \in Keys |-> Free]
    /\ active = {}
    /\ pc = [c \in Calls |-> "idle"]
    /\ key \in {[c \in Calls |-> k] : k \in Keys}
    /\ req \in {[c \in Calls |-> r] : r \in Requests}
    /\ reply = [c \in Calls |-> Failed("none")]
    /\ todo = [c \in Calls |-> {}]
    /\ visit = [c \in Calls |-> {}]
    /\ cliKey = {}
    /\ clock = 0 /\ started = 0 /\ crashes = 0 /\ faults = 0
    /\ execs = [k \in Keys |-> 0]
    /\ answers = {}
    /\ uncertain = {}

-----------------------------------------------------------------------------
(* Arrival of a call.  Behind the gate one call is in flight at a time.    *)

Goto(c, step) == pc' = [pc EXCEPT ![c] = step]

Answer(c, r) == reply' = [reply EXCEPT ![c] = r]

Admit == started < MaxCalls /\ (Gated => \A d \in Calls : pc[d] = "idle")

\* An I/O error of the file system.
Fault == faults < MaxFaults /\ faults' = faults + 1

Activate(c, k, r) ==
    /\ pc[c] = "idle" /\ Admit
    /\ k \notin active
    /\ active' = active \cup {k}
    /\ key' = [key EXCEPT ![c] = k]
    /\ req' = [req EXCEPT ![c] = r]
    /\ Goto(c, "lock")
    /\ started' = started + 1
    /\ UNCHANGED <<record, lock, cliKey, reply, todo, visit, clock, crashes, faults, history>>

\* The key is claimed by a call in flight: idempotency_in_progress.
RejectActive(c, k) ==
    /\ pc[c] = "idle" /\ Admit
    /\ k \in active
    /\ started' = started + 1
    /\ UNCHANGED <<storeVars, callVars, clock, crashes, faults, history>>

Lock(c) ==
    /\ pc[c] = "lock"
    /\ lock[key[c]] = Free
    /\ lock' = [lock EXCEPT ![key[c]] = c]
    /\ Goto(c, "read")
    /\ UNCHANGED <<record, active, cliKey, key, req, reply, todo, visit, bounds, history>>

LockFails(c) ==
    /\ pc[c] = "lock" /\ Fault
    /\ Answer(c, Failed("idempotency_state_failed"))
    /\ Goto(c, "deactivate")
    /\ UNCHANGED <<storeVars, key, req, todo, visit, clock, started, crashes, history>>

-----------------------------------------------------------------------------
(* The decision on the record that was read.                               *)

Decide(c, r) ==
    /\ pc[c] = "read"
    /\ Answer(c, r)
    /\ Goto(c, "unlock")
    /\ UNCHANGED <<storeVars, key, req, todo, visit, clock, started, crashes, history>>

Mismatch(c) == record[key[c]].req # req[c]

ReadConflict(c) ==
    /\ record[key[c]].state # "none"
    /\ Mismatch(c)
    /\ Decide(c, Failed("idempotency_conflict"))
    /\ UNCHANGED faults

\* Mutant of ReadCompleted: the request hash is not compared.
ReplayAnyRequest(c) ==
    /\ record[key[c]].state = "completed"
    /\ Decide(c, Reply("result", record[key[c]].result))
    /\ UNCHANGED faults

ReadCompleted(c) ==
    /\ record[key[c]].state = "completed"
    /\ ~Mismatch(c)
    /\ Decide(c, Reply("result", record[key[c]].result))
    /\ UNCHANGED faults

\* Mutant of ReadInProgress: the interrupted request is executed again.
RerunInProgress(c) ==
    /\ pc[c] = "read"
    /\ record[key[c]].state = "in_progress"
    /\ ~Mismatch(c)
    /\ Goto(c, "publish")
    /\ UNCHANGED <<storeVars, key, req, reply, todo, visit, bounds, history>>

ReadInProgress(c) ==
    /\ record[key[c]].state = "in_progress"
    /\ ~Mismatch(c)
    /\ Decide(c, Failed("uncertain_prior_execution"))
    /\ UNCHANGED faults

\* Mutant of ReadFails: a record that cannot be read is discarded.
DiscardUnreadable(c) ==
    /\ pc[c] = "read"
    /\ record[key[c]].state # "none"
    /\ Fault
    /\ record' = [record EXCEPT ![key[c]] = NoRecord]
    /\ Answer(c, Failed("idempotency_state_corrupt"))
    /\ Goto(c, "unlock")
    /\ UNCHANGED <<lock, active, cliKey, key, req, todo, visit, clock, started,
                   crashes, history>>

ReadFails(c) ==
    /\ record[key[c]].state # "none"
    /\ Fault
    /\ Decide(c, Failed("idempotency_state_corrupt"))

ReadNotFound(c) ==
    /\ pc[c] = "read"
    /\ record[key[c]].state = "none"
    /\ Goto(c, "publish")
    /\ UNCHANGED <<storeVars, key, req, reply, todo, visit, bounds, history>>

-----------------------------------------------------------------------------
(* A new execution: publish in_progress, execute, publish completed.       *)

Write(k, r) == record' = [record EXCEPT ![k] = r]

\* writeFileDurable fails before its rename, or after it (directory fsync).
WriteFails(k, r) == Fault /\ (Write(k, r) \/ UNCHANGED record)

\* Mutant of PublishInProgress: nothing durable precedes the execution.
SkipPublish(c) ==
    /\ pc[c] = "publish"
    /\ Goto(c, "native")
    /\ UNCHANGED <<storeVars, key, req, reply, todo, visit, bounds, history>>

PublishInProgress(c) ==
    /\ pc[c] = "publish"
    /\ Write(key[c], InProgress(req[c]))
    /\ Goto(c, "native")
    /\ UNCHANGED <<lock, active, cliKey, key, req, reply, todo, visit, bounds, history>>

PublishInProgressFails(c) ==
    /\ pc[c] = "publish"
    /\ WriteFails(key[c], InProgress(req[c]))
    /\ Answer(c, Failed("idempotency_state_failed"))
    /\ Goto(c, "unlock")
    /\ UNCHANGED <<lock, active, cliKey, key, req, todo, visit, clock, started, crashes,
                   history>>

\* A job.forget visits the records of the other keys before it returns.
BeginForget(c) ==
    /\ pc[c] = "native"
    /\ req[c] \in ForgetReqs
    /\ todo' = [todo EXCEPT ![c] = {k \in Keys : record[k].state # "none"}]
    /\ Goto(c, "scan")
    /\ UNCHANGED <<storeVars, key, req, reply, visit, bounds, history>>

\* Mutant of SkipDigest: the loop visits every digest.
SkipNone(k) == FALSE

\* removeJobKeyMappings skips the digests its own process has claimed.
SkipDigest(k) == k \in active

ScanSkip(c, k) ==
    /\ pc[c] = "scan"
    /\ k \in todo[c]
    /\ SkipDigest(k)
    /\ todo' = [todo EXCEPT ![c] = @ \ {k}]
    /\ UNCHANGED <<storeVars, pc, key, req, reply, visit, bounds, history>>

\* Past the check, the loop waits for the lock of k whatever happens to k.
ScanEnter(c, k) ==
    /\ pc[c] = "scan"
    /\ k \in todo[c]
    /\ ~SkipDigest(k)
    /\ todo' = [todo EXCEPT ![c] = @ \ {k}]
    /\ visit' = [visit EXCEPT ![c] = {k}]
    /\ Goto(c, "scanlock")
    /\ UNCHANGED <<storeVars, key, req, reply, bounds, history>>

\* Lock, read, leave the record (it is not a job.start record), unlock.
ScanVisit(c) ==
    /\ pc[c] = "scanlock"
    /\ \A k \in visit[c] : lock[k] = Free
    /\ visit' = [visit EXCEPT ![c] = {}]
    /\ Goto(c, "scan")
    /\ UNCHANGED <<storeVars, key, req, reply, todo, bounds, history>>

\* A lock or read error ends the loop; the result of the call is a failure.
ScanFails(c) ==
    /\ pc[c] = "scanlock" /\ Fault
    /\ visit' = [visit EXCEPT ![c] = {}]
    /\ todo' = [todo EXCEPT ![c] = {}]
    /\ Goto(c, "scan")
    /\ UNCHANGED <<storeVars, key, req, reply, clock, started, crashes, history>>

\* Other operations, and a job.forget that is refused, visit no record.
NativeReady(c) == pc[c] = "native" \/ (pc[c] = "scan" /\ todo[c] = {})

DispatchNative(c, v) ==
    /\ NativeReady(c)
    /\ execs' = [execs EXCEPT ![key[c]] = @ + 1]
    /\ Answer(c, Reply("result", v))
    /\ Goto(c, "complete")
    /\ UNCHANGED <<storeVars, key, req, todo, visit, bounds, answers, uncertain>>

\* A panic of the operation, before or after its effect, is recovered by the
\* handler of mcp.go; the deferred calls run, the record stays in progress.
DispatchPanics(c) ==
    /\ NativeReady(c) /\ Fault
    /\ execs' = [execs EXCEPT ![key[c]] = @ + 1] \/ UNCHANGED execs
    /\ Answer(c, Failed("internal_error"))
    /\ Goto(c, "unlock")
    /\ UNCHANGED <<storeVars, key, req, todo, visit, clock, started, crashes,
                   answers, uncertain>>

Complete(c) ==
    /\ pc[c] = "complete"
    /\ Write(key[c], Completed(req[c], reply[c].value))
    /\ Goto(c, "prune")
    /\ UNCHANGED <<lock, active, cliKey, key, req, reply, todo, visit, bounds,
                   history>>

\* Also the case of a record larger than keyedMutationMaxFileBytes.
CompleteFails(c) ==
    /\ pc[c] = "complete"
    /\ WriteFails(key[c], Completed(req[c], reply[c].value))
    /\ Answer(c, Failed("idempotency_state_failed"))
    /\ Goto(c, "unlock")
    /\ UNCHANGED <<lock, active, cliKey, key, req, todo, visit, clock, started,
                   crashes, history>>

-----------------------------------------------------------------------------
(* pruneBestEffort: scan the records, then remove the surplus by path.     *)

\* Mutant of Candidates: records in progress are pruned as well.
AnyState(c) == {k \in Keys \ {key[c]} : k \notin active /\ record[k].state # "none"}

Candidates(c) ==
    {k \in Keys \ {key[c]} : k \notin active /\ record[k].state = "completed"}

\* Mutant of Surplus: one record too many is kept.
SurplusLessOne(cand, old) ==
    /\ old \subseteq cand
    /\ \A j \in old, k \in cand \ old : record[j].updated <= record[k].updated
    /\ Cardinality(old) = IF Cardinality(cand) > MaxRecords + 1
                          THEN Cardinality(cand) - MaxRecords - 1 ELSE 0

\* The oldest candidates in excess of MaxRecords; ties break arbitrarily.
Surplus(cand, old) ==
    /\ old \subseteq cand
    /\ \A j \in old, k \in cand \ old : record[j].updated <= record[k].updated
    /\ Cardinality(old) = IF Cardinality(cand) > MaxRecords
                          THEN Cardinality(cand) - MaxRecords ELSE 0

Expired(cand) == {k \in cand : clock > record[k].updated + Retention}

PruneScan(c) ==
    /\ pc[c] = "prune"
    /\ \E old \in SUBSET Candidates(c) :
         /\ Surplus(Candidates(c), old)
         /\ todo' = [todo EXCEPT ![c] = old \cup Expired(Candidates(c))]
    /\ Goto(c, "remove")
    /\ UNCHANGED <<storeVars, key, req, reply, visit, bounds, history>>

\* A key whose completed record is dropped is fresh again.
Refresh(k) ==
    IF record[k].state = "completed"
    THEN /\ execs' = [execs EXCEPT ![k] = 0]
         /\ answers' = {a \in answers : a[1] # k}
         /\ UNCHANGED uncertain
    ELSE UNCHANGED history

\* Neither the lock nor the record is consulted again.  Removing the lock
\* file lets the next opener lock a new file, whoever holds the old one.
PruneRemove(c, k) ==
    /\ pc[c] = "remove"
    /\ k \in todo[c]
    /\ todo' = [todo EXCEPT ![c] = @ \ {k}]
    /\ Write(k, NoRecord)
    /\ lock' = [lock EXCEPT ![k] = Free]
    /\ Refresh(k)
    /\ UNCHANGED <<active, cliKey, pc, key, req, reply, visit, bounds>>

PruneRemoveFails(c, k) ==
    /\ pc[c] = "remove" /\ Fault
    /\ k \in todo[c]
    /\ todo' = [todo EXCEPT ![c] = @ \ {k}]
    /\ lock' = [lock EXCEPT ![k] = Free]
    /\ UNCHANGED <<record, active, cliKey, pc, key, req, reply, visit, clock,
                   started, crashes, history>>

PruneDone(c) ==
    /\ pc[c] = "remove"
    /\ todo[c] = {}
    /\ Goto(c, "unlock")
    /\ UNCHANGED <<storeVars, key, req, reply, todo, visit, bounds, history>>

-----------------------------------------------------------------------------
(* The deferred calls: unlockKeyedMutation, then deactivate.               *)

Unlock(c) ==
    /\ pc[c] = "unlock"
    /\ lock' = [lock EXCEPT ![key[c]] = IF @ = c THEN Free ELSE @]
    /\ Goto(c, "deactivate")
    /\ UNCHANGED <<record, active, cliKey, key, req, reply, todo, visit, bounds,
                   history>>

Deactivate(c) ==
    /\ pc[c] = "deactivate"
    /\ active' = active \ {key[c]}
    /\ Goto(c, "idle")
    /\ Answer(c, Failed("none"))
    /\ answers' = IF reply[c].code = "result"
                  THEN answers \cup {<<key[c], req[c], reply[c].value>>}
                  ELSE answers
    /\ uncertain' = IF reply[c].code = "uncertain_prior_execution"
                    THEN uncertain \cup {key[c]} ELSE uncertain
    /\ UNCHANGED <<record, lock, cliKey, key, req, todo, visit, bounds, execs>>

-----------------------------------------------------------------------------
(* The environment: service death and restart, hec processes, time.        *)

Crash ==
    /\ crashes < MaxCrashes
    /\ \E c \in Calls : pc[c] # "idle"
    /\ crashes' = crashes + 1
    /\ active' = {}
    /\ lock' = [k \in Keys |-> IF lock[k] \in Calls THEN Free ELSE lock[k]]
    /\ pc' = [c \in Calls |-> "idle"]
    /\ todo' = [c \in Calls |-> {}]
    /\ visit' = [c \in Calls |-> {}]
    /\ reply' = [c \in Calls |-> Failed("none")]
    /\ UNCHANGED <<record, cliKey, key, req, clock, started, faults, history>>

\* `hec call job.forget` visits the records in a process of its own, whose
\* active map is empty.
CliLock(k) ==
    /\ cliKey = {}
    /\ record[k].state # "none"
    /\ lock[k] = Free
    /\ lock' = [lock EXCEPT ![k] = Cli]
    /\ cliKey' = {k}
    /\ UNCHANGED <<record, active, callVars, bounds, history>>

CliUnlock(k) ==
    /\ k \in cliKey
    /\ lock' = [lock EXCEPT ![k] = IF @ = Cli THEN Free ELSE @]
    /\ cliKey' = {}
    /\ UNCHANGED <<record, active, callVars, bounds, history>>

TimePasses ==
    /\ clock < MaxClock
    /\ clock' = clock + 1
    /\ UNCHANGED <<storeVars, callVars, started, crashes, faults, history>>

Step(c) ==
    \/ Lock(c)
    \/ ReadConflict(c) \/ ReadCompleted(c) \/ ReadInProgress(c) \/ ReadNotFound(c)
    \/ PublishInProgress(c)
    \/ BeginForget(c) \/ ScanVisit(c)
    \/ \E k \in Keys : ScanSkip(c, k) \/ ScanEnter(c, k)
    \/ \E v \in Results : DispatchNative(c, v)
    \/ Complete(c)
    \/ PruneScan(c) \/ PruneDone(c) \/ \E k \in Keys : PruneRemove(c, k)
    \/ Unlock(c) \/ Deactivate(c)

StepFails(c) ==
    \/ LockFails(c) \/ ReadFails(c) \/ PublishInProgressFails(c)
    \/ ScanFails(c) \/ DispatchPanics(c) \/ CompleteFails(c)
    \/ \E k \in Keys : PruneRemoveFails(c, k)

Next ==
    \/ \E c \in Calls, k \in Keys, r \in Requests : Activate(c, k, r)
    \/ \E c \in Calls, k \in Keys : RejectActive(c, k)
    \/ \E c \in Calls : Step(c) \/ StepFails(c)
    \/ Crash
    \/ \E k \in Keys : CliLock(k) \/ CliUnlock(k)
    \/ TimePasses

Spec == Init /\ [][Next]_vars

\* The Go scheduler runs every runnable goroutine; a hec process finishes;
\* flock serves a waiter when the lock keeps becoming free.
Fairness ==
    /\ \A c \in Calls : WF_vars(Step(c)) /\ SF_vars(Lock(c) \/ ScanVisit(c))
    /\ WF_vars(\E k \in Keys : CliUnlock(k))

FairSpec == Spec /\ Fairness

-----------------------------------------------------------------------------
(* Properties.                                                             *)

\* A native mutation runs at most once under a key for as long as the record
\* of the key is retained: neither a retry after a crash, nor a retry after
\* a failed completion write, nor a concurrent call runs it again.
AtMostOnce == \A k \in Keys : execs[k] <= 1

\* What has been executed under a key is covered by a durable record of that
\* key, at every instant: a crash at any point cannot lose the evidence.
EffectIsRecorded == \A k \in Keys : execs[k] > 0 => record[k].state # "none"

\* Every result ever given for a retained key answers the same request with
\* the same value: the first caller and all who replay agree.
AnswersAgree ==
    \A a, b \in answers : a[1] = b[1] => a = b

\* Once a client was told that the outcome is uncertain, no later call
\* executes or reports a result under that key: the record stays in_progress
\* (pruning never takes it).
UncertainIsFinal ==
    \A k \in uncertain : record[k].state = "in_progress"

\* The calls, locks, files and crashes implement the promise stated in module
\* IdempotentKeys: claim, one effect, one settlement, and only then expiry.
Promise == INSTANCE IdempotentKeys WITH
    entry <- [k \in Keys |-> [state |-> record[k].state, req |-> record[k].req,
                              result |-> record[k].result]],
    effects <- execs

ImplementsIdempotentKeys == Promise!Spec

\* When a prune ends, at most MaxRecords completed records remain beside that
\* of the call itself, except for removals that failed.
PruneRestoresBound ==
    [][\A c \in Calls :
         pc[c] = "remove" /\ pc'[c] = "unlock" =>
           Cardinality({k \in Keys : record[k].state = "completed"})
             <= MaxRecords + 1 + faults]_vars

\* Every call that claimed its key ends: a job.forget never waits for the
\* lock its own call holds, and no two calls wait for each other.
EveryCallReturns == \A c \in Calls : pc[c] # "idle" ~> pc[c] = "idle"
=============================================================================
