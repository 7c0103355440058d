# A TLA+ verification of HEC

HEC is a root workstation service: a language model calls operations
(`job.start`, `upload.finish`, ...) of one Go process through a tunnel, and
operators call the same operations with `hec call`. This directory models the
parts of HEC whose correctness depends on interleavings, deaths, lost responses
and files that several processes share, checks them with TLC and proves theorems
about them with TLAPS. `PROJECT.json` links every definition to the lines it
models, every property to a plausible bug that breaks it, and every hazard to
the properties that cover it.

## The system

| component | code (internal/hec) | state | operations | what makes it correct |
|---|---|---|---|---|
| keyed mutation store | keyed_mutation.go | `<digest>.json` records, `<digest>.lock` flocks, in-memory active digests | dispatch under a key, prune | one effect per retained key, agreeing answers, uncertainty is final, bounded store |
| keyed job.start | keyed_job.go | job part of the record, job directory, v0.0.11 mapping, transient unit | start, reconcile, import | the command runs once unless its runner is signalled early, one unit per key, true records |
| jobs | job.go, job_runner.go | job directories, units, result.json | start, status, output, wait, signal, list, forget | a job has one end in all answers, forget takes only what has ended, unknown has a reason |
| tunnel generations | generation.go | one generation: client, transport, context | Run, cleanup | generations never overlap, failures are replaced, cleanup ends |
| restartable transport | restartable_transport.go | session map, closed flag, failure channel, workers | Connect, Close, Wait | no session outlives its generation, no false failure |
| call gate | mcp.go | one token per generation | acquire, dispatch, release | one call at a time in the dispatcher |
| uploads | upload.go | upload directory, flock of its data file | begin, chunk, finish, abort | what is reported complete is verified and stays so |
| artifacts | artifact.go, transfer_support.go | artifact directories, published by rename | return, stat, read, materialize, list, delete | complete or absent, one per upload, listed when there, one creation of a destination |
| terminals | terminal.go, terminal_runner.go | tmux server and sessions, scope unit, socket, state directories | open, read, write, resize, signal, close | opened terminals stay reachable, a failed open runs nothing that can be reached, an opened one is released |
| direct execution | exec.go | output limiter, process group | run | faithful output within one budget, an honest status, no process of a killed group left |
| deadlines | deadlines.go | none | conversions | no overflow, work ends before the response is due |
| file operations, workspaces, capabilities, skills, dispatcher, results, CLI | file_ops.go, ... | none of their own | reads and single writes | sequential |
| release scripts | scripts/ | the `current` link, release directories | build, install, cutover | the link names a complete release |

Interaction: the tunnel client calls `Connect` of the transport and each session
serves `call_hec` requests. A request takes the gate of its generation and enters
the shared Dispatcher; a mutation with an idempotency key goes through the keyed
store, all others go straight to their handler. Jobs run in units of systemd and
survive the service. A `hec call` is a process of its own, with no gate and an
empty active map: it meets the service only at flocks, files and units.

What is hard here: deaths between an effect and its record; responses of
`systemd-run` that are lost or late; locks on files that are renamed or removed
while others wait for them; two lock orders; goroutines that overtake a cleanup;
in-memory claims that another process cannot see; statuses that are computed from a
unit and a file which change in between; and contexts that end between the steps
of a call, so that a command which could not be run looks like an answer. `PROJECT.json` lists these
hazards at their lines.

## The modules

**KeyedMutation** (with `MCKeyedMutation` for TLC): calls are goroutines that walk
through `dispatchKeyedMutation`: `Activate`, `Lock`, one of four readings,
`PublishInProgress`, `DispatchNative`, `Complete`, `PruneScan`, `PruneRemove`,
`Unlock`, `Deactivate`; each I/O error has an action of its own (`...Fails`), and a
write that fails may or may not have taken effect (`writeFileDurable` can fail
after its rename). `Crash` is the death and restart of the service: records stay,
claims and locks go. `BeginForget`/`Scan...` are the visits a `job.forget` pays to
the other records, `CliLock`/`CliUnlock` the same visits by a `hec call`. `Gated`
says whether calls arrive through the gate. `Refresh` starts the history of a key
anew when its completed record is removed.
Abstractions: a request hash is a request, a result is a value. A waiter is
not bound to the lock file it has opened: it waits for the file that now has the
name. The scan of a prune is one step. Argument and normalisation errors, which
precede every effect, are left out, and so is the replacement of a late result by
`timed_out` (mcp.go:99-104), which only hides answers.

**IdempotentKeys**: the promise without calls, locks, files or deaths: claim, one
effect, one settlement, and expiry only after settlement. KeyedMutation implements
it with `entry` read off the record and `effects` off the execution history.

**KeyedJobStart** (with `MCKeyedJobStart` for TLC): one key and everything its `job.start` touches. The call writes
directory, spec and record (`MakeDirectory`, `WriteSpec`, `PublishJob`,
`RecordAttempt`), requests a launch (`Launch`) and gets a report or none
(`LaunchReturns`). systemd acts on requests when it likes (`StartUnit`,
`RefuseUnit`). Without a report the call looks (`InspectUnit`, then the verdict,
which reads result.json) and relaunches once. `Reconcile` and `Import` are the
entries for a record in progress and for a v0.0.11 mapping. A `job.forget`
runs in another process and may fail or die between any two of its steps.
`SignalledEarly` is a TERM, HUP, INT or PIPE that reaches the runner before
`signal.Notify`: systemd takes that for a clean end, so that neither unit nor result is
left. `PruneRecord` is what a call under another key does when it completes: it
removes a completed record by age or number, and the lock file under a possible holder.
`Crash` kills the service, `Reboot` the host.
`LateAcceptance` says whether systemd may act on a request after the two second
window; with FALSE the window is assumed to be long enough.
Abstractions: one key, whose calls come one after the other (the gate); conflicting
requests, and which records are pruned when, are KeyedMutation's, so that here any
completed record may be pruned between two calls; by then, after thirty days or 4096 other
records, systemd is assumed to have dealt with every request for its job, however late
it acts. An early signal may come at any time before the result, as
the model does not say how far the runner is. The inspection and the write of an
import are one step, the removal of a job's directory is one step, and so are the
reading and the removal of a record by job.forget.

**KeyedStarts**: the promise of a keyed start without calls, locks, files, deaths or systemd.
The key names a job under an identifier that nobody had before (`Claim`), or the one that
v0.0.11 started (`Adopt`); only that job is launched; the outcome is settled once and after a
launch; answers repeat it; the key becomes free only once its start is settled, by
retention, or while a job.forget removes the job it names, whose old mapping is gone by
then (`Expire`); an unsettled start is dropped in no other way. KeyedJobStart implements
it with what it names, and how it ended, read off the record. It says nothing of
what systemd makes of a launch: that is RunsAtMostOnce and RecordIsTrue.

**Generations**: manager, transport and gate. The manager goes through `phase`; each
session has its own `conn` (how far Connect is), `once` (session.close), `server`
and `worker`; calls are queued, running or idle. Two pieces are external: the
tunnel client, which may still be in Connect after Stop has returned, and the MCP
SDK, whose `ServerSession.Close` refuses new requests and returns when those in
progress have returned. `WaitReturns` has the code's order of checks (workers,
session map, stop error). Backoff is a state without a duration.

**Uploads** (with `MCUploads`): one upload, its directory entry by entry, the inode
of its data file, the destination (which may be that inode) and the artifact store.
A call opens, locks, loads metadata and then works; a lock is on the inode. Removals
and deletions go entry by entry. Calls may die or fail anywhere. Abstractions: a
file is a sequence of blocks and a digest is its content; `current_bytes`, which is
never read back, temporary directories and the link fallback of `publishNoReplace`
are left out; of the artifact operations only those that meet an upload are there.

**Callers**: the processes that execute operations, the service and `hec call`
commands, as program counters, with deaths and errors counted. Terminals,
JobLifecycle, ArtifactStore and DirectRun extend it: each is a component whose operations are sequences of steps of
callers.

**Terminals**: the two stages of terminal.open (`MakeDirectory`, `WriteFile`,
`LockTmux`, `CheckServer`, `CheckScope`, `RemoveSocket`, `CreateServer` or
`JoinServer`, `CheckSession`, `WaitSpec`, `Configure`, `Release`, `Inspect`,
`Cleanup`), the runner in the pane (`ReadSpec`, `WaitGate`, `Woken`) and write,
signal and close. tmux is external: a server exits with its last session and leaves
its socket; a `new-session` without a server starts one in the caller's control
group, where the next restart of the service kills it (`CallerDies`). A call's context
may end at any step (`Cancel`): tmux and systemctl commands then fail, which the
code takes for an absent server and an absent scope. They may also fail without
that, because they cannot be run or do not reach their server, which counts against the bound
on failures: `CheckServer`, `CheckScope` (`SeeScope`, `MissScope`), `LaunchFails`,
`Inspect`, `Cleanup` and `CloseKill` say what the code makes of it. `missed` is the
history of such failures that matter: the terminals which were in the scope when a
systemctl did not tell of it, and those that a cleanup could not kill.
Abstractions: output, geometry and names are left out; a failure that only sends
an open to its cleanup is that of an ended context; a terminal.write that fails
and files that cannot be removed are left out; the host does not restart.

**JobLifecycle**: one unkeyed job from `MakeJobDirectory` to `RemoveJobDirectory`.
systemd moves the unit, the runner boots, listens, reaps and writes its result before
it exits, and calls look in two steps, at the unit and then at result.json
(`InspectUnit`, `InspectResult`). Signals before `signal.Notify` kill the runner. The
host may restart. Output files are left out; a file is written or is not.

**ArtifactStore**: artifact.return (through tar and zstd, with the pipe that HEC holds
open), list, delete entry by entry and materialize with and without overwrite, whose
`publishNoReplace` may fall back to a link. Destinations are created by other programs
as well, and not removed by them. Contents are left out, so stat and read, which
change nothing, have no action.

**AtomicArtifacts**: the promise of the store without calls, temporary directories,
entries or links. An artifact is absent, complete, being removed or removed, in this
order; a call without overwrite creates only where nothing is; one such call
reports a creation, and what is undone was not reported and is nobody else's file.
ArtifactStore implements it with the state of an artifact read off its directory.

**DirectRun**: one run: the command, a descendant in its group and one that has left it,
the pipes, the copying goroutines and the limiter's lock, the end of the context and
the steps of `Cmd.Wait` (external). A byte is its position in its stream.

**MCExecution** puts Terminals, JobLifecycle, ArtifactStore and DirectRun together for TLC. They share nothing but the callers, so a
behaviour is in one of them for its whole length (`focus`): to interleave two would
multiply the states and reach no new state of either.

**Deadlines**: deadlines.go as operators on 64-bit integers. It has no state and no
run: its inputs are all of int64.

**KeyedMutationProofs**, **KeyedJobStartProofs**, **GenerationsProofs**,
**UploadsProofs**, **TerminalsProofs**, **JobLifecycleProofs** and **ArtifactStoreProofs**
hold the theorems about the modules that they are named after; **ExecutionProofs**
those about DirectRun, about Deadlines, whose timeouts bound the runs, and about
MCExecution.

## The runs

| run | question | result |
|---|---|---|
| Gated | Do calls behind the gate, deaths, I/O errors, a hec process and pruning keep the promise? | TypeOK, AtMostOnce, EffectIsRecorded, AnswersAgree, UncertainIsFinal, ImplementsIdempotentKeys, PruneRestoresBound hold |
| Concurrent | What remains without the gate, and does everybody return? | ImplementsIdempotentKeys, EveryCallReturns hold |
| KeyedJobStart | Is a command started once, whatever is lost? | TypeOK, RunsAtMostOnce, OneUnitPerKey, AnswersAgree, RecordIsTrue, ImplementsKeyedStarts hold |
| KeyedJobStartReturns | And when systemd is late or the host restarts? | ImplementsKeyedStarts, EveryCallReturns hold |
| KeyedJobStartReboot | Does RunsAtMostOnce survive a host restart? | violated |
| Generations | Can generations, calls or sessions overlap? Are there false failures? | TypeOK, OneDispatch, OldGenerationsAreQuiet, NoFalseAlarm hold |
| GenerationsFailure | Is a broken session always noticed, and does the cleanup end? | BrokenSessionEndsGeneration, CleanupEnds hold |
| GenerationsCleanup | Does the cleanup end when a call does not? | violated |
| Uploads | Can a late chunk, an abort or a repeat spoil a completion? | TypeOK, CompletedStaysVerified, OneArtifact, AbortExcludesCompletion, AckedIsPublished hold |
| UploadsRepeat | May a successful completion be repeated? | violated |
| Execution | Do terminals, jobs, artifacts and runs keep their promises when calls race, fail and die? | TypeOK, TerminalsSurvive, FailedOpenRunsNothing, OpenedIsReleased, StatusIsFinal, ForgetIsFinal, UnknownIsExplained, ListingIsComplete, CreatedOnce, ImplementsAtomicArtifacts, OutputIsFaithful, OutcomeIsHonest hold |
| TerminalsCanceled | Do opened terminals survive a terminal.open that is canceled at any step? | violated |

The four violations are disagreements between the code and its documents, quoted
under "findings":
a job whose unit is lost in a host restart is launched again, although the
design says that an orphaned ambiguous mutation reports uncertainty; the cleanup's
ten seconds do not cover `transport.Close`; a repeated completion to a
destination is `not_found`, although the operator's guide calls it replay-safe; and
a terminal.open whose context ends before it has chosen a server finds neither
server nor scope, because both commands fail, and removes the socket of the
living server, whose terminals are then `lost`, although the design says that they
survive as long as the server does (`TerminalsStayReachable`). The same happens without
a cancellation when neither command can be run (terminal.go:321-327, 300).
`TerminalsSurvive`, which Execution checks, excepts the terminals that a
systemctl failed to tell of in this way, and shows that this is the only one: the lock
keeps two starts apart, and no other cancellation, failure, death or close cuts off
a terminal of the server in the scope.

What the properties of Execution leave open is in the model and not promised by the
code: an unkeyed start that loses systemd-run's answer removes the directory of a job
that may run; a server that ends between the look at it and `new-session` is
replaced by one that does not outlive the service; a terminal of such a server whose socket another open has removed is out of the reach
of every cleanup, so that a command may run on in it although its open failed, and so
it may when the cleanup's `has-session` or `kill-session` cannot be run, whose
failure is dropped (FailedOpenRunsNothing excepts both); a delete that dies fails all
later lists; a job whose runner was signalled before it listened stays unknown
(UnknownIsExplained excepts it); a descendant outside of the group holds up a run for as long as it
holds the pipes. Under a key, such a signal leaves as little trace as a launch that
never happened: a retry launches the job again, or records `job_start_failed`
although the command was started. RunsAtMostOnce and RecordIsTrue except these jobs
(`unheard`). The worker of a session that Connect registers late may be added
after the cleanup of its generation; OldGenerationsAreQuiet speaks of sessions and calls only.

### Bounds

- Gated: three keys of which one completed record may be kept beside the current
  one (MaxRecords 1), so that three calls force a prune by number, and a clock of
  two instants with retention 0, so that they force one by age; one death and one
  I/O error at any step. Keys are symmetric.
- Concurrent: two calls on two keys and three arrivals: a call can wait for another
  on either key and retry afterwards. The clock stands still and MaxRecords is 2:
  the run is free of pruning. Pruning removes by path and is safe only because calls do
  not overlap, so it belongs to the gated run.
- KeyedJobStart: three calls are a first start, a retry and a retry of the retry;
  one death, one error, one forget, one runner signalled early and three job
  identifiers, so that a fresh start after a forget or a prune has one to
  take; they are symmetric. Prunes have no bound: one needs a completed record. The Returns run trades a call, a job, the
  death, the error and the signal for a host restart (which kills the call as well) and
  LateAcceptance; a death of the service alone belongs to the first run.
- Generations: three generations so that a replacement is itself replaced, two
  sessions and two calls for every pair to race. GenerationsFailure needs one
  generation: its properties speak of one generation only.
- Uploads: four calls of two processes are enough for two chunks, a completion and a
  repeat or a racing abort; two blocks make extension and overwriting different;
  one death or I/O error. Processes are symmetric.

- Execution: the service and one `hec call`, which is every pair that can race, and
  three calls: an open or a job, what is done to it, and a third that meets both;
  one death or error at any step. Three terminals: one to be cut off by the other's
  open, and a third whose server is gone when the second is opened, which is what a
  stray server takes (two terminals do not show it); they are symmetric. One job (jobs
  share nothing), two artifacts (two creations of one
  destination); streams of two bytes under a budget of two, so that either stream
  can exhaust it alone or both together, in any split into chunks. TerminalsCanceled
  has two terminals and no failures, so that what it finds is due to cancellation alone. For the proofs below the
  numbers are arbitrary.

CHECK_DEADLOCK is FALSE in all runs because all arrivals are bounded: the models stop
when the calls are used up. Deadlock among calls is what EveryCallReturns and CleanupEnds
exclude.

### Fairness

KeyedMutation: the Go scheduler runs every runnable goroutine (WF of `Step`), flock
serves a waiter when the lock is free again and again (SF of `Lock` and
`ScanVisit`), a hec process finishes. No fairness on errors, deaths, arrivals or
time. KeyedJobStart: the same for the call and for job.forget; systemd acts on
requests; the evidence window closes (SF of `VerdictAbsent`, as the two seconds pass
however often the call looks). Generations: every goroutine runs, deadlines pass, a
queued call leaves after ten seconds, a `select` that keeps finding an error takes
it (SF of `ReceiveFailure`); FairSpec adds that a dispatched call ends, which the
deadlines of the operations give except where an operation blocks in a flock or a
copy. GenerationsCleanup (`SpecSlowCalls`) drops only that addition.

## The proofs

All theorems hold for any sets of processes, calls, sessions, jobs, artifacts, keys
and any bounds. The constants are assumed to be what the modules' named assumptions
say, and no more; TLC evaluates these on every run.

**The key store** (KeyedMutationProofs).

- `TypeCorrect`: TypeOK is inductive as it stands.
- The safety theorems assume `Gated \/ NeverPrunes`: either calls arrive through the
  gate, or no prune finds a record to remove, because the keys are no more than
  MaxRecords and that of the pruning call, and none grows older than the retention.
  The inductive invariant `IInv` says that a call in flight has claimed its key and
  no other call has the same (`ClaimInv`), that a call which removes records is alone or
  has none to remove (`RemovalInv`), what the fields of a record and the execution
  count of its key are in each state (`RecordInv`), that histories agree with records
  (`HistoryInv`), and, for each step of a call, what it relies on (`CallInv`): at
  "publish" the key has no record, at "native" the record in progress is its own and
  has had no effect, at "complete" one effect, at "remove" all that is left to remove
  was completed. None of the safety properties is inductive: that a key is executed once
  follows only from what the record was at the time of the reading and has remained
  since. The `Inv...` lemmas take one group of actions each and show what the step does
  to its own call; `StepIsOwn` says that it touches nothing of the other calls, and
  `OtherCalls` that these keep what they rely on, as it is about their own keys.
  `ScanFindsNothing` counts that a prune has no work under NeverPrunes. `InvNext`
  collects them.
- `AtMostOnceHolds`, `EffectIsRecordedHolds`, `AnswersAgreeHolds` and
  `UncertainIsFinalHolds` are consequences of IInv.
- `KeyedMutationImplements`: with IInv, every step maps to a Claim, an Effect, a Settle,
  an Expire or a stutter of IdempotentKeys (`NextRefines`).
- `PruneRestoresBoundHolds` (under `Gated`) counts: the completed records that a prune
  will not remove (`Spared`) are at most MaxRecords, and one more for each removal that
  failed, from the scan to the end (`PruneInv`). No other call completes a key
  meanwhile, and none can be claimed that would keep a record from removal.

`Gated` is what `OneDispatchHolds` proves of the service. One of the two assumptions is
needed: without the gate a prune may take a record that was rewritten since its scan,
also one in progress. The proof shows that this is all the gate is needed for: the
claims in memory keep the calls of the service apart, and the locks add nothing to that.
`hec call` takes no idempotency key (main.go:94-97), so that its processes are visitors of
records only, as in the model.

**Keyed starts** (KeyedJobStartProofs). Three invariants, of which the first two are
inductive together (`KeyInvariant`).

- `RInv`, which needs no assumption: the lock keeps call and forget apart, unless a prune has
  taken its file (`LockInv`),
  launches and answers belong to the record (`RecordInv`), and at each step the call
  knows the record whose lock it holds (`CallInv`). `TypeCorrect`, `OneUnitPerKeyHolds` and
  `AnswersAgreeHolds` follow: they survive late acceptance, host restarts, early signals
  and prunes.
- `PromiseInv`, which needs no assumption either: new identifiers name nothing that
  exists (`UsedInv`); a mapping names the only job of its key and is gone before a
  forget removes the record (`MappedInv`); of a job that the record names and nobody
  launched for it there is no unit, request or result (`IdleInv`), so that what the call finds
  evidence of was launched (`LaunchInv`). A prune may take the lock file from a job.forget;
  then no record names the job that is forgotten, and none will (`OrphanInv`), so that the
  forget removes nobody's record. With these every step maps to one of
  KeyedStarts or a stutter (`NextRefines`), and `KeyedJobStartImplements` follows.
- `EvidenceInv`, which says what systemd and the directory prove: of a job that is not
  being forgotten and whose runner was not signalled early there is one run or one
  request at most, and one run has left a unit or a result; a unit or a result means
  a run (`JobInv`); what the call
  concluded from this stays so until it has acted on it (`ConclusionInv`), and so does what
  the record says (`TruthInv`).
  `RunsAtMostOnceHolds` and `RecordIsTrueHolds` follow, for `LateAcceptance = FALSE` and as
  long as `reboots = 0`, and except the jobs in `unheard`. All three are needed: an absent
  unit without a result is no proof that nothing ran once the host has restarted
  (KeyedJobStartReboot) or the runner was killed by a signal that it did not yet handle, nor
  that nothing will run if systemd may still act on a request.

**Generations** (GenerationsProofs). Every generation has a gate of its own, so a
running call holds the token of its own generation only, and `OneDispatch` is a fact
about the cleanup. `GInv` says what a session's place in Connect, the map, closing and
the SDK have to do with each other (`SessionInv`), that a call which is not idle is on
a session that is not yet closed (`CallInv`), and that once the manager has stopped
waiting nothing enters the map of a transport again (`QuietInv`). From these,
`RunningIsCurrent`: a call that runs is on the current generation, whose one token
it has. `TypeCorrect`, `OneDispatchHolds`, `OldGenerationsAreQuietHolds` and
`NoFalseAlarmHolds` follow.

**Jobs** (JobLifecycleProofs). A status is computed in two readings, so the proof
needs what a call has seen to remain true where it relies on it: a unit seen failed
belongs to a job that is over (`Over`), for which no result can appear any more, and a
result, once there, stays until a call withdraws the directory. `JInv` gives the order of
unit, runner, command and result (`JobInv`), what each call relies on (`CallerInv`),
that a job has one starter (`StartInv`) and that what was forgotten has ended
(`ForgottenInv`). `StatusIsFinalHolds` and `ForgetIsFinalHolds` follow. `AccountInv` adds
what a runner owes: until its job is over there is a unit, and then a result, unless
it was signalled before it listened; `UnknownIsExplainedHolds` follows.
`JobsTypeCorrect` is the type invariant.

**Artifacts** (ArtifactStoreProofs). `CreatedOnceHolds`: the only step that removes a
destination is the undoing of a link, and `CreationInv` shows that while a call may
still take it no creation has been reported and no other call can reach it.
`ListingIsCompleteHolds`: only the call that makes a temporary directory writes to it,
because identifiers are new (`BuildInv`), so that what is published is complete until a
delete begins (`StoreInv`), and what a list has found in the root is complete or
being deleted when it reads it (`FoundInv`). `ArtifactStoreImplements`: with these and
`OriginInv` (what a builder has in hand was never in the store, what is materialized was,
and a link that may yet be undone has left an artifact at the destination), every step
maps to one of AtomicArtifacts or a stutter (`NextPromise`). `ArtifactsTypeCorrect` is
the type invariant.

**Uploads** (UploadsProofs). `AllInv` has four parts beside the types. `ControlInv`: what
each call is doing, and that it holds the lock of the inode while the name still
leads to it. `VerifiedInv`: a call that publishes has checked the content under the
lock, and after a completion the upload is gone, so that no chunk which waits for that
inode can load its metadata. `CountInv`: an artifact exists beside the upload only
while its maker removes the upload, or after a failure. `UndisturbedInv` holds while
nothing has failed: who began to remove the upload was the last to change anything
(`ClaimInv`), and every acknowledged block is in the content, or covered by one whose
answer is still on its way (`ContentInv`). `TypeCorrect`, `CompletedStaysVerifiedHolds`,
`OneArtifactHolds`, `AbortExcludesCompletionHolds` and `AckedIsPublishedHolds` follow.

**Terminals** (TerminalsProofs). `ControlInv`: an open has its terminal to itself and the
tmux lock between its look and its check. `ScopeInv`: a server that has sessions in the scope
listens at the socket, unless they are `missed`, and when a call is about to remove
the socket, every session in the scope is missed: it has seen, under the lock, that the
scope is not active, or a systemctl did not tell it. `TerminalsSurviveHolds` follows;
TerminalsCanceled shows that the exception is needed. `RefusedInv` says that a refused
open has left no session, a missed one, or one in a stray server that has lost its
socket, and `FailedOpenRunsNothingHolds` follows. None of the theorems has an assumption
beyond those of the module.

**Direct runs** (ExecutionProofs). `OutcomeIsHonestHolds` follows from `HonestInv`: a
watcher that fired has seen the command ended by then or ended it, and a call is
answered only after the command is reaped and the watcher has made its choice.
`OutputIsFaithfulHolds` follows from `OutputInv`: what is kept and what remains add up to
the budget, each buffer is a prefix of what was copied and all of it until something
is lost, after which nothing remains to be kept; and after the answer no process is
left that could write. `RunTypeCorrect` is the type invariant.

**Deadlines** (ExecutionProofs). `DurationNeverWraps` and `RefusalIsNeeded`: the check accepts exactly
the numbers of milliseconds that are durations. `TimeoutsAreBounded`,
`DeadlinesLeaveReserve`: what is accepted is within its maximum, and a run and a
job.wait end ten seconds before the caller's deadline whenever the gate let them in.

**The composition** (ExecutionProofs). The component in focus obeys its own specification
(`FocusIsFixed`, `FocusBehaves`) and the others stay in their initial states
(`OthersRest`), in which every promise is kept (`RestIsSafe`). So the theorems of the four
hold for the specification that TLC checks: `ExecutionTypeCorrect`,
`ExecutionKeepsPromises` and `ExecutionImplements`.

Only model-checked:

- liveness (EveryCallReturns, BrokenSessionEndsGeneration, CleanupEnds), which under
  fairness is out of the prover's reach;
- what is particular to an instance: that the four violated properties can be violated,
  and that the mutants listed in `PROJECT.json` break the properties they are meant for.

## Plan

Done: the key store, keyed starts, generations, uploads, terminals, jobs, artifacts,
direct runs and deadlines as modules; the key store, the keyed start and the artifact
store as refinements of abstract specifications; every invariant, action property and
refinement that a passing run checks as a theorem. Only liveness is left to TLC.

Left, in this order:

1. An abstract upload. It was considered and set aside: a failure between publication
   and removal makes a completion repeatable, so that an abstract upload would have to
   count failures, and would say no more than CompletedStaysVerified, OneArtifact,
   AbortExcludesCompletion and AckedIsPublished do.
2. What job.list answers over several jobs: it joins the directories that it reads with
   the units that systemd lists after that, while jobs start, end and are forgotten.

## Not modelled

- File operations (file_ops.go): each call is one rename of a finished temporary file,
  one append or one removal, or hands a patch to git or patch; HEC keeps no state
  between them and promises nothing about calls that meet at one path.
- Reads: file.read, artifact.read, job.output, terminal.read and the lists return a range of
  a file or of a directory and change nothing; what they find while others write is in
  the modules where it matters (artifact.list, job.status).
- Workspaces, capabilities and skills: render git, directories and catalogues.
- Dispatcher and results: a switch on names, argument decoding and the shape of answers.
  The replacement of a late result by `timed_out` (mcp.go:99-104) hides answers and
  changes no state.
- Release scripts: an operator runs them one at a time. A release directory appears by one
  rename and the `current` link changes by another, so that its target is
  complete at any time; neither script takes a lock, and cutover does not go
  back when the restart fails.
- Forge recipes, validation scripts and schemas: installation in sequence, and static
  descriptions.
- Argument and normalisation errors, environment and configuration: they precede
  every effect.
