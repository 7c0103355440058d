------------------------- MODULE KeyedJobStartProofs -------------------------
(***************************************************************************)
(* Proofs about KeyedJobStart: what one key's record, its answers and its  *)
(* launches have to do with each other, and that the evidence of systemd   *)
(* and of the job's directory is enough to start a command at most once.   *)
(***************************************************************************)
EXTENDS KeyedJobStart, FiniteSetTheorems, TLAPS

-----------------------------------------------------------------------------
(* The inductive invariant of the record.                                  *)

Starting == {"import", "imported", "mkdir", "spec", "publish"}
Working  == {"attempt", "launch", "await", "unit", "verdict", "complete"}

\* The digest's flock keeps the call and a job.forget apart, unless its file
\* has been pruned.
LockInv ==
    /\ lock = "call" <=> pc \notin {"idle", "lock"}
    /\ lock = "forget" => fpc = "state"

\* What was launched and answered belongs to the record.
RecordInv ==
    /\ record.state = "none" => record = NoRecord /\ launched = {} /\ answers = {}
    /\ record.state = "in_progress" =>
         record.job \in Jobs /\ answers = {}
         /\ record = InProgress(record.job, record.attempted)
    /\ record.state = "completed" =>
         /\ record.job \in Jobs
         /\ record.reply \in {"started", "job_start_failed"}
         /\ record = Completed(record.job, record.reply)
    /\ launched \subseteq {record.job}
    /\ answers \subseteq {<<record.job, record.reply>>}

\* What the call knows of the record it holds the lock of.
CallInv ==
    /\ pc \in Starting => record = NoRecord
    /\ pc \in {"spec", "publish"} \cup Working => job \in Jobs
    /\ pc = "attempt" => record = InProgress(job, FALSE)
    /\ pc \in Working \ {"attempt"} => record = InProgress(job, TRUE)
    /\ pc = "complete" => reply \in {"started", "job_start_failed"}
    /\ pc = "unlock" /\ reply = "started" => record = Completed(job, "started")
    /\ pc \notin {"launch", "await", "unit", "verdict", "complete", "unlock"} =>
         tries = 0
    /\ pc = "launch" => tries < 2

RInv == TypeOK /\ LockInv /\ RecordInv /\ CallInv

\* A job.forget that has lost its lock to a prune finds no record of its job.
OrphanInv ==
    /\ fpc = "state" /\ lock # "forget" => record.job # fjob
    /\ pc \in {"spec", "publish"} => job \notin forgotten

-----------------------------------------------------------------------------
(* The inductive invariant of the evidence.                                *)

NeverLaunched(j) == runs[j] = 0 /\ pending[j] = 0

\* No request is left that could start the job; one that was acted on before
\* has come to nothing.
ToNothing(j) == pending[j] = 0 /\ (runs[j] = 0 \/ j \in unheard)

Unallocated(j) ==
    dir[j] = "none" /\ unit[j] = "absent" /\ NeverLaunched(j) /\ j \notin result

\* Identifiers come into being with MakeDirectory, or with the legacy job.
UsedInv ==
    /\ forgotten \subseteq used
    /\ record.job \in used \cup {NoJob} /\ legacy \in used \cup {NoJob}
    /\ pc \in {"spec", "publish"} \cup Working => job \in used
    /\ fpc # "idle" => fjob \in forgotten
    /\ \A j \in Jobs \ used : Unallocated(j)

\* A unit or a result is evidence that the command was started, and once it
\* was started there is such evidence, unless a signal came too early.
Evidence(j) ==
    /\ Present(j) => runs[j] >= 1
    /\ j \in result => runs[j] >= 1
    /\ ~NeverLaunched(j) => dir[j] = "ready"
    /\ j \notin unheard =>
         /\ runs[j] + pending[j] <= 1
         /\ runs[j] = 1 => Present(j) \/ HasResult(j)

JobInv == \A j \in Jobs \ forgotten : Evidence(j)

\* What the call has concluded from the evidence is so.
ConclusionInv ==
    job \notin forgotten =>
        /\ pc = "publish" => dir[job] = "ready"
        /\ pc \in Working => dir[job] = "ready"
        /\ pc \in {"spec", "publish", "attempt"} => NeverLaunched(job)
        /\ pc = "launch" => ToNothing(job)
        /\ pc = "await" /\ response = "ok" => runs[job] >= 1
        /\ pc = "verdict" /\ seen = "present" => runs[job] >= 1
        /\ pc = "verdict" /\ seen = "absent" =>
             /\ pending[job] = 0
             /\ runs[job] = 0 \/ job \in unheard \/ HasResult(job)
        /\ pc = "complete" /\ reply = "started" => runs[job] >= 1
        /\ pc = "complete" /\ reply # "started" => ToNothing(job)

\* So is what the record says.
TruthInv ==
    record.job \notin forgotten =>
        /\ record.state = "in_progress" /\ ~record.attempted =>
             NeverLaunched(record.job)
        /\ record.state = "completed" =>
             IF record.reply = "started" THEN runs[record.job] >= 1
             ELSE ToNothing(record.job)

EvidenceInv == UsedInv /\ JobInv /\ ConclusionInv /\ TruthInv

-----------------------------------------------------------------------------
(* The record.                                                             *)

\* A fresh key, or one that HEC v0.0.11 left a mapping of.
LEMMA RInit == Init => RInv
<1> SUFFICES ASSUME Init PROVE RInv
  OBVIOUS
<1>1. TypeOK
  BY KeyedJobStartAssumption
     DEF Init, InitLegacy, LegacyStates, TypeOK, NoRecord, Recorded, Replies
<1>2. LockInv /\ RecordInv /\ CallInv
  BY DEF Init, LockInv, RecordInv, CallInv, NoRecord, Starting, Working
<1> QED BY <1>1, <1>2 DEF RInv

Records == [state : {"none", "in_progress", "completed"}, job : Jobs \cup {NoJob},
            attempted : BOOLEAN, reply : Recorded]

\* What is ever written to the record.
LEMMA RecordTypes ==
    /\ NoRecord \in Records
    /\ \A j \in Jobs \cup {NoJob}, a \in BOOLEAN : InProgress(j, a) \in Records
    /\ \A j \in Jobs \cup {NoJob}, r \in Recorded : Completed(j, r) \in Records
BY DEF NoRecord, InProgress, Completed, Records, Recorded

\* Types, step by step: what is written to the record and to the answers is
\* what CallInv and RecordInv say of job and reply.
LEMMA RType == RInv /\ [Next]_vars => TypeOK'
<1> SUFFICES ASSUME RInv, [Next]_vars PROVE TypeOK'
  OBVIOUS
<1> USE KeyedJobStartAssumption
        DEF RInv, TypeOK, durable, systemd, locks, call, forget, bounds, history,
            Goto, FGoto, Return, Local, Others, Fault, Write, WriteFails, Recorded, Replies
<1>1. CASE Begin
  BY <1>1 DEF Begin
<1>2. CASE Lock
  BY <1>2 DEF Lock
<1>3. CASE ReadCompleted
  BY <1>3 DEF ReadCompleted
<1>4. CASE Reconcile
  BY <1>4 DEF Reconcile
<1>5. CASE ReadNotFound
  BY <1>5 DEF ReadNotFound
<1>6. CASE ImportLock
  BY <1>6 DEF ImportLock
<1>7. CASE Import
  <2>1. record' \in Records
    <3>1. record \in Records /\ Completed(legacy, "started") \in Records
          /\ InProgress(legacy, TRUE) \in Records
      BY RecordTypes DEF Records
    <3>2. \/ record' = record \/ record' = Completed(legacy, "started")
          \/ record' = InProgress(legacy, TRUE)
      BY <1>7 DEF Import
    <3> QED BY <3>1, <3>2
  <2>2. pc' \in {"mkdir", "unlock", "unit"} /\ job' \in {job, legacy}
        /\ faults' \in Nat
        /\ reply' \in {reply, "uncertain_prior_execution", "started",
                      "idempotency_state_failed"}
    BY <1>7 DEF Import, InProgress, Completed
  <2> QED BY <1>7, <2>1, <2>2 DEF Import, Records
<1>8. CASE WriteSpec
  BY <1>8 DEF WriteSpec
<1>9. CASE PublishJob
  <2>1. record' \in Records
    <3>1. InProgress(job, FALSE) \in Records /\ record \in Records
      BY RecordTypes DEF Records
    <3>2. record' = record \/ record' = InProgress(job, FALSE)
      BY <1>9 DEF PublishJob
    <3> QED BY <3>1, <3>2
  <2>2. dir' \in [Jobs -> {"none", "partial", "ready"}] /\ pc' \in {"attempt", "unlock"}
        /\ reply' \in {reply, "idempotency_state_failed"} /\ faults' \in Nat
    BY <1>9 DEF PublishJob, InProgress
  <2> QED BY <1>9, <2>1, <2>2 DEF PublishJob, Records
<1>10. CASE RecordAttempt
  <2>1. record' \in Records
    <3>1. InProgress(job, TRUE) \in Records /\ record \in Records
      BY RecordTypes DEF Records
    <3>2. record' = record \/ record' = InProgress(job, TRUE)
      BY <1>10 DEF RecordAttempt
    <3> QED BY <3>1, <3>2
  <2>2. pc' \in {"launch", "unlock"} /\ faults' \in Nat
        /\ reply' \in {reply, "idempotency_state_failed"}
    BY <1>10 DEF RecordAttempt, InProgress
  <2> QED BY <1>10, <2>1, <2>2 DEF RecordAttempt, Records
<1>11. CASE Canceled
  BY <1>11 DEF Canceled
<1>12. CASE Launch
  <2>1. tries' \in 0..2
    BY <1>12 DEF Launch, CallInv
  <2>2. pending' \in [Jobs -> Nat]
    <3>1. job \in Jobs /\ pending[job] + 1 \in Nat
      BY <1>12 DEF Launch, CallInv, Working
    <3> QED BY <1>12, <3>1 DEF Launch
  <2>3. launched' \in SUBSET Jobs
    BY <1>12 DEF Launch, CallInv, Working
  <2> QED BY <1>12, <2>1, <2>2, <2>3 DEF Launch
<1>13. CASE LaunchReturns
  BY <1>13 DEF LaunchReturns
<1>14. CASE InspectUnit
  BY <1>14 DEF InspectUnit, FirstLook
<1>15. CASE VerdictAccepted
  BY <1>15 DEF VerdictAccepted
<1>16. CASE Poll
  BY <1>16 DEF Poll
<1>17. CASE VerdictAbsent
  BY <1>17 DEF VerdictAbsent
<1>18. CASE VerdictUncertain
  BY <1>18 DEF VerdictUncertain
<1>19. CASE Complete
  <2>1. reply \in {"started", "job_start_failed"}
    BY <1>19 DEF Complete, CallInv
  <2>2. record' \in Records
    BY <1>19, <2>1, RecordTypes DEF Complete, Records
  <2> QED BY <1>19, <2>1, <2>2 DEF Complete, Records
<1>20. CASE Unlock
  BY <1>20 DEF Unlock, Answered, Completed, RecordInv
<1>21. CASE ForgetReset
  <2>1. unit' \in [Jobs -> {"absent", "active", "failed"}]
    BY <1>21 DEF ForgetReset
  <2> QED BY <1>21, <2>1 DEF ForgetReset
<1>22. CASE ForgetLockLegacy
  BY <1>22 DEF ForgetLockLegacy
<1>23. CASE ForgetMapping
  BY <1>23 DEF ForgetMapping
<1>24. CASE ForgetLockKey
  BY <1>24 DEF ForgetLockKey
<1>25. CASE ForgetState
  <2>1. record' \in Records
    BY <1>25, RecordTypes DEF ForgetState, Fresh, Records
  <2>2. launched' \in SUBSET Jobs /\ answers' \in SUBSET ((Jobs \cup {NoJob}) \X Recorded)
    BY <1>25 DEF ForgetState, Fresh
  <2> QED BY <1>25, <2>1, <2>2 DEF Release, ForgetState, Records
<1>26. CASE ForgetDirectory
  <2>1. dir' \in [Jobs -> {"none", "partial", "ready"}]
    BY <1>26 DEF ForgetDirectory
  <2>2. result' \in SUBSET Jobs
    BY <1>26 DEF ForgetDirectory
  <2> QED BY <1>26, <2>1, <2>2 DEF ForgetDirectory
<1>27. CASE ForgetEnds
  BY <1>27 DEF ForgetEnds, Release
<1>28. CASE Crash
  BY <1>28 DEF Crash, CallDies, Release
<1>29. CASE Reboot
  BY <1>29 DEF Reboot, CallDies
<1>30. ASSUME NEW j \in Jobs, MakeDirectory(j) PROVE TypeOK'
  BY <1>30 DEF MakeDirectory
<1>31. ASSUME NEW j \in Jobs, StartUnit(j) PROVE TypeOK'
  BY <1>31 DEF StartUnit, Report
<1>32. ASSUME NEW j \in Jobs, RefuseUnit(j) PROVE TypeOK'
  BY <1>32 DEF RefuseUnit, Report
<1>33. ASSUME NEW j \in Jobs, WriteResult(j) PROVE TypeOK'
  BY <1>33 DEF WriteResult
<1>34. ASSUME NEW j \in Jobs, UnitExits(j) PROVE TypeOK'
  BY <1>34 DEF UnitExits
<1>35. ASSUME NEW j \in Jobs, ForgetInspect(j) PROVE TypeOK'
  BY <1>35 DEF ForgetInspect
<1>36. CASE UNCHANGED vars
  BY <1>36 DEF vars
<1>37. ASSUME NEW j \in Jobs, SignalledEarly(j) PROVE TypeOK'
  BY <1>37 DEF SignalledEarly
<1>38. CASE PruneRecord
  <2>1. record' \in Records
    BY <1>38, RecordTypes DEF PruneRecord, Fresh
  <2>2. launched' \in SUBSET Jobs /\ answers' \in SUBSET ((Jobs \cup {NoJob}) \X Recorded)
    BY <1>38 DEF PruneRecord, Fresh
  <2>3. lock' \in {"free", "call", "forget"}
    BY <1>38 DEF PruneRecord, Release
  <2> QED BY <1>38, <2>1, <2>2, <2>3 DEF PruneRecord, Records
<1> QED
  BY <1>1, <1>2, <1>3, <1>4, <1>5, <1>6, <1>7, <1>8, <1>9, <1>10, <1>11, <1>12,
       <1>13, <1>14, <1>15, <1>16, <1>17, <1>18, <1>19, <1>20, <1>21, <1>22, <1>23,
       <1>24, <1>25, <1>26, <1>27, <1>28, <1>29, <1>30, <1>31, <1>32, <1>33, <1>34,
       <1>35, <1>36, <1>37, <1>38
  DEF Next, Step, ForgetStep, Systemd

\* Only the holder of the flock releases it, or dies.
LEMMA RLock == RInv /\ [Next]_vars => LockInv'
<1> SUFFICES ASSUME LockInv, [Next]_vars PROVE LockInv'
  BY DEF RInv
<1> USE DEF LockInv, durable, systemd, locks, call, forget, bounds, history, Goto,
            FGoto, Return, Local, Others, Fault, Write, WriteFails
<1>1. CASE Begin
  BY <1>1 DEF Begin
<1>2. CASE Lock
  BY <1>2 DEF Lock
<1>3. CASE ReadCompleted
  BY <1>3 DEF ReadCompleted
<1>4. CASE Reconcile
  BY <1>4 DEF Reconcile
<1>5. CASE ReadNotFound
  BY <1>5 DEF ReadNotFound
<1>6. CASE ImportLock
  BY <1>6 DEF ImportLock
<1>7. CASE Import
  BY <1>7 DEF Import, Completed, InProgress
<1>8. CASE WriteSpec
  BY <1>8 DEF WriteSpec
<1>9. CASE PublishJob
  BY <1>9 DEF PublishJob, InProgress
<1>10. CASE RecordAttempt
  BY <1>10 DEF RecordAttempt, InProgress
<1>11. CASE Canceled
  BY <1>11 DEF Canceled
<1>12. CASE Launch
  BY <1>12 DEF Launch
<1>13. CASE LaunchReturns
  BY <1>13 DEF LaunchReturns
<1>14. CASE InspectUnit
  BY <1>14 DEF InspectUnit
<1>15. CASE VerdictAccepted
  BY <1>15 DEF VerdictAccepted
<1>16. CASE Poll
  BY <1>16 DEF Poll
<1>17. CASE VerdictAbsent
  BY <1>17 DEF VerdictAbsent
<1>18. CASE VerdictUncertain
  BY <1>18 DEF VerdictUncertain
<1>19. CASE Complete
  BY <1>19 DEF Complete, Completed
<1>20. CASE Unlock
  BY <1>20 DEF Unlock, Answered, Completed
<1>21. CASE ForgetReset
  BY <1>21 DEF ForgetReset
<1>22. CASE ForgetLockLegacy
  BY <1>22 DEF ForgetLockLegacy
<1>23. CASE ForgetMapping
  BY <1>23 DEF ForgetMapping
<1>24. CASE ForgetLockKey
  BY <1>24 DEF ForgetLockKey
<1>25. CASE ForgetState
  BY <1>25 DEF ForgetState, Fresh, NoRecord, Release
<1>26. CASE ForgetDirectory
  BY <1>26 DEF ForgetDirectory
<1>27. CASE ForgetEnds
  BY <1>27 DEF ForgetEnds, Release
<1>28. CASE Crash
  BY <1>28 DEF Crash, CallDies, Release
<1>29. CASE Reboot
  BY <1>29 DEF Reboot, CallDies
<1>30. ASSUME NEW j \in Jobs, MakeDirectory(j) PROVE (LockInv)'
  BY <1>30 DEF MakeDirectory
<1>31. ASSUME NEW j \in Jobs, StartUnit(j) PROVE (LockInv)'
  BY <1>31 DEF StartUnit, Report
<1>32. ASSUME NEW j \in Jobs, RefuseUnit(j) PROVE (LockInv)'
  BY <1>32 DEF RefuseUnit, Report
<1>33. ASSUME NEW j \in Jobs, WriteResult(j) PROVE (LockInv)'
  BY <1>33 DEF WriteResult
<1>34. ASSUME NEW j \in Jobs, UnitExits(j) PROVE (LockInv)'
  BY <1>34 DEF UnitExits
<1>35. ASSUME NEW j \in Jobs, ForgetInspect(j) PROVE (LockInv)'
  BY <1>35 DEF ForgetInspect
<1>36. CASE UNCHANGED vars
  BY <1>36 DEF vars
<1>37. ASSUME NEW j \in Jobs, SignalledEarly(j) PROVE (LockInv)'
  BY <1>37 DEF SignalledEarly
<1>38. CASE PruneRecord
  BY <1>38 DEF PruneRecord, Fresh, Release, NoRecord
<1> QED
  BY <1>1, <1>2, <1>3, <1>4, <1>5, <1>6, <1>7, <1>8, <1>9, <1>10, <1>11, <1>12,
       <1>13, <1>14, <1>15, <1>16, <1>17, <1>18, <1>19, <1>20, <1>21, <1>22, <1>23,
       <1>24, <1>25, <1>26, <1>27, <1>28, <1>29, <1>30, <1>31, <1>32, <1>33, <1>34,
       <1>35, <1>36, <1>37, <1>38
  DEF Next, Step, ForgetStep, Systemd

\* The record changes under the key's lock: by the call, which knows what it
\* overwrites, or by a job.forget, which makes the key fresh.
LEMMA RRecord == RInv /\ [Next]_vars => RecordInv'
<1> SUFFICES ASSUME RInv, [Next]_vars PROVE RecordInv'
  OBVIOUS
<1> USE KeyedJobStartAssumption DEF RInv, RecordInv, NoRecord, InProgress,
     Completed, Starting, Working
<1> USE DEF durable, systemd, locks, call, forget, bounds, history, Goto, FGoto,
            Return, Local, Others, Fault, Write, WriteFails
<1>1. ASSUME UNCHANGED <<record, launched, answers>> PROVE RecordInv'
  BY <1>1 DEF RecordInv
<1>2. ASSUME
        \/ Begin \/ Lock \/ ReadCompleted \/ Reconcile \/ ReadNotFound
        \/ ImportLock \/ WriteSpec \/ Canceled \/ LaunchReturns
        \/ InspectUnit \/ VerdictAccepted \/ Poll \/ VerdictAbsent
        \/ VerdictUncertain \/ ForgetReset \/ ForgetLockLegacy
        \/ ForgetMapping \/ ForgetLockKey \/ ForgetDirectory \/ ForgetEnds
        \/ Crash \/ Reboot
        \/ UNCHANGED vars
        \/ \E j \in Jobs : MakeDirectory(j) \/ StartUnit(j) \/ RefuseUnit(j)
                          \/ WriteResult(j) \/ UnitExits(j) \/ SignalledEarly(j)
                          \/ ForgetInspect(j)
      PROVE RecordInv'
  BY <1>2, <1>1 DEF Begin, Lock, ReadCompleted, Reconcile, ReadNotFound,
       ImportLock, WriteSpec, Canceled, LaunchReturns, InspectUnit,
       VerdictAccepted, Poll, VerdictAbsent, VerdictUncertain, ForgetReset,
       ForgetLockLegacy, ForgetMapping, ForgetLockKey, ForgetDirectory,
       ForgetEnds, Crash, Reboot, MakeDirectory, StartUnit, RefuseUnit,
       WriteResult, UnitExits, SignalledEarly, ForgetInspect, vars
<1>3. CASE Import
  <2>1. record = NoRecord /\ launched = {} /\ answers = {} /\ legacy \in Jobs \cup {NoJob}
    BY <1>3 DEF Import, CallInv, TypeOK
  <2>2. \/ record' = record \/ record' = Completed(legacy, "started")
        \/ record' = InProgress(legacy, TRUE)
    <3> HIDE DEF InProgress, Completed, NoRecord, RecordInv
    <3> QED BY <1>3 DEF Import, TypeOK
  <2>3. record' = record \/ legacy # NoJob
    <3> HIDE DEF InProgress, Completed, NoRecord, RecordInv
    <3> QED BY <1>3 DEF Import, TypeOK
  <2>4. launched' = {} /\ answers' = {}
    BY <1>3, <2>1 DEF Import
  <2> QED BY <2>1, <2>2, <2>3, <2>4
<1>4. CASE PublishJob
  <2>1. record = NoRecord /\ launched = {} /\ answers = {} /\ job \in Jobs
    BY <1>4 DEF PublishJob, CallInv
  <2>2. record' = record \/ record' = InProgress(job, FALSE)
    BY <1>4 DEF PublishJob
  <2>3. launched' = {} /\ answers' = {}
    BY <1>4, <2>1 DEF PublishJob
  <2> QED BY <2>1, <2>2, <2>3
<1>5. CASE RecordAttempt
  <2>1. record = InProgress(job, FALSE) /\ job \in Jobs
    BY <1>5 DEF RecordAttempt, CallInv
  <2>2. record' = record \/ record' = InProgress(job, TRUE)
    BY <1>5 DEF RecordAttempt
  <2>3. launched' = launched /\ answers' = answers
    BY <1>5 DEF RecordAttempt
  <2> QED BY <2>1, <2>2, <2>3
<1>6. CASE Launch
  <2>1. record = InProgress(job, TRUE)
    BY <1>6 DEF Launch, CallInv
  <2> QED BY <1>6, <2>1 DEF Launch
<1>7. CASE Complete
  <2>1. record = InProgress(job, TRUE) /\ job \in Jobs
        /\ reply \in {"started", "job_start_failed"}
    BY <1>7 DEF Complete, CallInv
  <2>2. record' = record \/ record' = Completed(job, reply)
    BY <1>7 DEF Complete
  <2>3. launched' = launched /\ answers' = answers
    BY <1>7 DEF Complete
  <2> QED BY <2>1, <2>2, <2>3
<1>8. CASE Unlock
  <2>1. record' = record /\ launched' = launched
    BY <1>8 DEF Unlock
  <2>2. answers' = answers \/ record = Completed(job, reply)
    BY <1>8 DEF Unlock, Answered, CallInv
  <2>3. answers' = answers \/ answers' = answers \cup {<<job, reply>>}
    BY <1>8 DEF Unlock
  <2> QED BY <2>1, <2>2, <2>3
<1>9. CASE ForgetState
  BY <1>9 DEF ForgetState, Fresh, NoRecord
<1>10. CASE PruneRecord
  BY <1>10 DEF PruneRecord, Fresh, NoRecord
<1> QED
  BY <1>2, <1>3, <1>4, <1>5, <1>6, <1>7, <1>8, <1>9, <1>10
     DEF Next, Step, ForgetStep, Systemd

\* No step of another actor changes the record while the call relies on it.
LEMMA RCall == RInv /\ OrphanInv /\ [Next]_vars => CallInv'
<1> SUFFICES ASSUME RInv, OrphanInv, [Next]_vars PROVE CallInv'
  OBVIOUS
<1> USE KeyedJobStartAssumption DEF RInv, CallInv, NoRecord, InProgress,
     Completed, Starting, Working
<1> USE DEF durable, systemd, locks, call, forget, bounds, history, Goto, FGoto,
            Return, Local, Others, Fault, Write, WriteFails
<1>1. ASSUME UNCHANGED <<record, pc, job, tries, reply>> PROVE CallInv'
  BY <1>1 DEF CallInv
<1>2. ASSUME
        \/ ForgetReset \/ ForgetLockLegacy \/ ForgetMapping \/ ForgetLockKey
        \/ ForgetDirectory \/ ForgetEnds
        \/ UNCHANGED vars
        \/ \E j \in Jobs : \/ StartUnit(j) \/ RefuseUnit(j)
                           \/ WriteResult(j) \/ UnitExits(j) \/ SignalledEarly(j)
                           \/ ForgetInspect(j)
      PROVE CallInv'
  BY <1>2, <1>1 DEF ForgetReset, ForgetLockLegacy, ForgetMapping,
       ForgetLockKey, ForgetDirectory, ForgetEnds, StartUnit, RefuseUnit,
       WriteResult, UnitExits, SignalledEarly, ForgetInspect, vars
<1>3. CASE Begin
  BY <1>3 DEF Begin
<1>4. CASE Lock
  BY <1>4 DEF Lock
<1>5. CASE ReadCompleted
  BY <1>5 DEF ReadCompleted, RecordInv
<1>6. CASE Reconcile
  <2>1. record = InProgress(record.job, record.attempted) /\ record.job \in Jobs
        /\ record.attempted \in BOOLEAN /\ tries = 0
    BY <1>6 DEF Reconcile, RecordInv, TypeOK
  <2>2. CASE dir[record.job] # "ready"
    BY <1>6, <2>1, <2>2 DEF Reconcile
  <2>3. CASE dir[record.job] = "ready" /\ record.attempted
    <3>1. record = InProgress(record.job, TRUE)
      BY <2>1, <2>3
    <3>2. pc' = "unit" /\ job' = record.job /\ record' = record /\ tries' = tries
      BY <1>6, <2>3 DEF Reconcile
    <3> QED BY <2>1, <3>1, <3>2
  <2>4. CASE dir[record.job] = "ready" /\ ~record.attempted
    <3>1. record = InProgress(record.job, FALSE)
      BY <2>1, <2>4
    <3>2. pc' = "attempt" /\ job' = record.job /\ record' = record /\ tries' = tries
      BY <1>6, <2>4 DEF Reconcile
    <3> QED BY <2>1, <3>1, <3>2
  <2> QED BY <2>2, <2>3, <2>4
<1>7. CASE ReadNotFound
  BY <1>7 DEF ReadNotFound, RecordInv
<1>8. CASE ImportLock
  BY <1>8 DEF ImportLock
<1>9. CASE Import
  <2>1. record = NoRecord /\ legacy \in Jobs \cup {NoJob} /\ tries = 0
    BY <1>9 DEF Import, TypeOK
  <2>2. tries' = tries
    BY <1>9 DEF Import
  <2>3. \/ pc' = "mkdir" /\ record' = record
        \/ pc' = "unlock" /\ reply' # "started"
        \/ /\ pc' = "unlock" /\ job' = legacy
           /\ record' = Completed(legacy, "started")
        \/ /\ pc' = "unit" /\ job' = legacy /\ legacy # NoJob
           /\ record' = InProgress(legacy, TRUE)
    BY <1>9 DEF Import
  <2> QED BY <2>1, <2>2, <2>3
<1>10. CASE WriteSpec
  BY <1>10 DEF WriteSpec
<1>11. CASE PublishJob
  BY <1>11 DEF PublishJob, InProgress
<1>12. CASE RecordAttempt
  BY <1>12 DEF RecordAttempt, InProgress
<1>13. CASE Canceled
  BY <1>13 DEF Canceled
<1>14. CASE Launch
  BY <1>14 DEF Launch
<1>15. CASE LaunchReturns
  BY <1>15 DEF LaunchReturns
<1>16. CASE InspectUnit
  BY <1>16 DEF InspectUnit
<1>17. CASE VerdictAccepted
  BY <1>17 DEF VerdictAccepted
<1>18. CASE Poll
  BY <1>18 DEF Poll
<1>19. CASE VerdictAbsent
  BY <1>19 DEF VerdictAbsent
<1>20. CASE VerdictUncertain
  BY <1>20 DEF VerdictUncertain
<1>21. CASE Complete
  BY <1>21 DEF Complete, Completed
<1>22. CASE Unlock
  BY <1>22 DEF Unlock, Answered, Completed
<1>23. CASE ForgetState
  <2>1. CASE lock = "forget"
    <3>1. pc \in {"idle", "lock"}
      BY <2>1 DEF LockInv
    <3> QED BY <1>23, <3>1 DEF ForgetState, Fresh
  <2>2. CASE lock # "forget"
    <3>1. record.job # fjob
      BY <1>23, <2>2 DEF ForgetState, OrphanInv
    <3> QED BY <1>23, <3>1, <1>1 DEF ForgetState
  <2> QED BY <2>1, <2>2
<1>24. CASE Crash
  BY <1>24 DEF Crash, CallDies, Release
<1>25. CASE Reboot
  BY <1>25 DEF Reboot, CallDies
<1>26. ASSUME NEW j \in Jobs, MakeDirectory(j) PROVE (CallInv)'
  BY <1>26 DEF MakeDirectory
<1>27. CASE PruneRecord
  BY <1>27 DEF PruneRecord, Fresh
<1> QED
  BY <1>2, <1>3, <1>4, <1>5, <1>6, <1>7, <1>8, <1>9, <1>10, <1>11, <1>12,
     <1>13, <1>14, <1>15, <1>16, <1>17, <1>18, <1>19, <1>20, <1>21, <1>22,
     <1>23, <1>24, <1>25, <1>26, <1>27
     DEF Next, Step, ForgetStep, Systemd

-----------------------------------------------------------------------------
(* The promise of the key.                                                 *)

\* Nothing of a job that systemd or a runner has made, or will make.
Idle(j) == unit[j] = "absent" /\ pending[j] = 0 /\ j \notin result

\* A mapping of v0.0.11 names the only job of its key, and nobody else launches.
MappedInv ==
    /\ pc \in {"mkdir", "spec", "publish"} => legacy = NoJob
    /\ record.job # NoJob /\ legacy # NoJob => record.job = legacy
    /\ record.state = "none" /\ legacy # NoJob => pending[legacy] = 0
    /\ fpc \in {"digest", "state"} => legacy # fjob

\* There is evidence of a job in progress only if it was launched for the key.
IdleInv ==
    /\ pc \in {"spec", "publish"} => Idle(job)
    /\ record.state = "in_progress" /\ record.job \notin launched =>
         Idle(record.job)

\* The call settles nothing that it has not launched or found evidence of.
LaunchInv ==
    \/ pc \in {"await", "complete"}
    \/ pc \in Working /\ tries > 0
    \/ pc = "verdict" /\ seen = "present"
    => job \in launched

\* What the refinement of KeyedStarts needs beside RInv.
PromiseInv == UsedInv /\ MappedInv /\ IdleInv /\ LaunchInv /\ OrphanInv

\* A mapping names a job that was started, or never was.
LEMMA PromiseInit == Init => PromiseInv
<1> SUFFICES ASSUME Init PROVE PromiseInv
  OBVIOUS
<1> QED
  BY KeyedJobStartAssumption
     DEF Init, InitLegacy, LegacyStates, NoRecord, PromiseInv, UsedInv, MappedInv,
         IdleInv, LaunchInv, OrphanInv, Unallocated, NeverLaunched, Working

\* A new identifier names a job of which nothing exists.
LEMMA UsedNext == RInv /\ UsedInv /\ [Next]_vars => UsedInv'
<1> SUFFICES ASSUME RInv, UsedInv, [Next]_vars PROVE UsedInv'
  OBVIOUS
<1> USE KeyedJobStartAssumption DEF durable, systemd, locks, call, forget, bounds,
        history, Goto, FGoto, Return, Local, Others, Fault, Write, WriteFails
<1> USE DEF UsedInv, Unallocated, NeverLaunched, RInv, TypeOK,
     RecordInv, LockInv, CallInv, Working, Starting, Present, HasResult, Terminal,
     InProgress, Completed, NoRecord
<1>1. CASE Begin
  BY <1>1 DEF Begin
<1>2. CASE Lock
  BY <1>2 DEF Lock
<1>3. CASE ReadCompleted
  BY <1>3 DEF ReadCompleted
<1>4. CASE Reconcile
  BY <1>4 DEF Reconcile
<1>5. CASE ReadNotFound
  BY <1>5 DEF ReadNotFound
<1>6. CASE ImportLock
  BY <1>6 DEF ImportLock
<1>7. CASE Import
  BY <1>7 DEF Import, Completed, InProgress
<1>8. CASE WriteSpec
  BY <1>8 DEF WriteSpec
<1>9. CASE PublishJob
  BY <1>9 DEF PublishJob, InProgress
<1>10. CASE RecordAttempt
  BY <1>10 DEF RecordAttempt, InProgress
<1>11. CASE Canceled
  BY <1>11 DEF Canceled
<1>12. CASE Launch
  BY <1>12 DEF Launch
<1>13. CASE LaunchReturns
  BY <1>13 DEF LaunchReturns
<1>14. CASE InspectUnit
  BY <1>14 DEF InspectUnit
<1>15. CASE VerdictAccepted
  BY <1>15 DEF VerdictAccepted
<1>16. CASE Poll
  BY <1>16 DEF Poll
<1>17. CASE VerdictAbsent
  BY <1>17 DEF VerdictAbsent
<1>18. CASE VerdictUncertain
  BY <1>18 DEF VerdictUncertain
<1>19. CASE Complete
  BY <1>19 DEF Complete, Completed
<1>20. CASE Unlock
  BY <1>20 DEF Unlock, Answered, Completed
<1>21. CASE ForgetReset
  BY <1>21 DEF ForgetReset
<1>22. CASE ForgetLockLegacy
  BY <1>22 DEF ForgetLockLegacy
<1>23. CASE ForgetMapping
  BY <1>23 DEF ForgetMapping
<1>24. CASE ForgetLockKey
  BY <1>24 DEF ForgetLockKey
<1>25. CASE ForgetState
  BY <1>25 DEF ForgetState, Fresh, NoRecord, Release
<1>26. CASE ForgetDirectory
  BY <1>26 DEF ForgetDirectory
<1>27. CASE ForgetEnds
  BY <1>27 DEF ForgetEnds, Release
<1>28. CASE Crash
  BY <1>28 DEF Crash, CallDies, Release
<1>29. CASE Reboot
  BY <1>29 DEF Reboot, CallDies
<1>30. ASSUME NEW j \in Jobs, MakeDirectory(j) PROVE (UsedInv)'
  BY <1>30 DEF MakeDirectory
<1>31. ASSUME NEW j \in Jobs, StartUnit(j) PROVE (UsedInv)'
  BY <1>31 DEF StartUnit, Report
<1>32. ASSUME NEW j \in Jobs, RefuseUnit(j) PROVE (UsedInv)'
  BY <1>32 DEF RefuseUnit, Report
<1>33. ASSUME NEW j \in Jobs, WriteResult(j) PROVE (UsedInv)'
  BY <1>33 DEF WriteResult
<1>34. ASSUME NEW j \in Jobs, UnitExits(j) PROVE (UsedInv)'
  BY <1>34 DEF UnitExits
<1>35. ASSUME NEW j \in Jobs, ForgetInspect(j) PROVE (UsedInv)'
  BY <1>35 DEF ForgetInspect
<1>36. CASE UNCHANGED vars
  BY <1>36 DEF vars
<1>37. ASSUME NEW j \in Jobs, SignalledEarly(j) PROVE (UsedInv)'
  BY <1>37 DEF SignalledEarly
<1>38. CASE PruneRecord
  BY <1>38 DEF PruneRecord, Fresh, Release, NoRecord
<1> QED
  BY <1>1, <1>2, <1>3, <1>4, <1>5, <1>6, <1>7, <1>8, <1>9, <1>10, <1>11, <1>12,
       <1>13, <1>14, <1>15, <1>16, <1>17, <1>18, <1>19, <1>20, <1>21, <1>22, <1>23,
       <1>24, <1>25, <1>26, <1>27, <1>28, <1>29, <1>30, <1>31, <1>32, <1>33, <1>34,
       <1>35, <1>36, <1>37, <1>38
  DEF Next, Step, ForgetStep, Systemd

\* No step adds a mapping, and a job.forget removes it before the record.
LEMMA MappedNext == RInv /\ UsedInv /\ MappedInv /\ [Next]_vars => MappedInv'
<1> SUFFICES ASSUME RInv, UsedInv, MappedInv, [Next]_vars PROVE MappedInv'
  OBVIOUS
<1> USE DEF durable, systemd, locks, call, forget, bounds, history, Goto, FGoto,
            Return, Local, Others, Fault, Write, WriteFails
<1>1. ASSUME UNCHANGED <<pc, legacy, record, pending, fpc, fjob>> PROVE MappedInv'
  BY <1>1 DEF MappedInv
<1>2. ASSUME
        \/ UNCHANGED vars
        \/ \E j \in Jobs : \/ WriteResult(j) \/ UnitExits(j) \/ SignalledEarly(j)
      PROVE MappedInv'
  BY <1>1, <1>2 DEF WriteResult, UnitExits, SignalledEarly, vars
<1> USE KeyedJobStartAssumption DEF MappedInv, RInv, TypeOK, LockInv, RecordInv,
     CallInv, Working, Starting, InProgress, Completed, NoRecord
<1>3. CASE Begin
  BY <1>3 DEF Begin
<1>4. CASE Lock
  BY <1>4 DEF Lock
<1>5. CASE ReadCompleted
  BY <1>5 DEF ReadCompleted
<1>6. CASE Reconcile
  BY <1>6 DEF Reconcile
<1>7. CASE ReadNotFound
  BY <1>7 DEF ReadNotFound
<1>8. CASE ImportLock
  BY <1>8 DEF ImportLock
<1>9. CASE Import
  BY <1>9 DEF Import, Completed, InProgress
<1>10. CASE WriteSpec
  BY <1>10 DEF WriteSpec
<1>11. CASE PublishJob
  BY <1>11 DEF PublishJob, InProgress
<1>12. CASE RecordAttempt
  BY <1>12 DEF RecordAttempt, InProgress
<1>13. CASE Canceled
  BY <1>13 DEF Canceled
<1>14. CASE Launch
  BY <1>14 DEF Launch
<1>15. CASE LaunchReturns
  BY <1>15 DEF LaunchReturns
<1>16. CASE InspectUnit
  BY <1>16 DEF InspectUnit, FirstLook
<1>17. CASE VerdictAccepted
  BY <1>17 DEF VerdictAccepted, Accepted, SecondLook
<1>18. CASE Poll
  BY <1>18 DEF Poll
<1>19. CASE VerdictAbsent
  BY <1>19 DEF VerdictAbsent
<1>20. CASE VerdictUncertain
  BY <1>20 DEF VerdictUncertain
<1>21. CASE Complete
  BY <1>21 DEF Complete, Completed
<1>22. CASE Unlock
  BY <1>22 DEF Unlock, Answered, Completed
<1>23. CASE ForgetReset
  BY <1>23 DEF ForgetReset
<1>24. CASE ForgetLockLegacy
  BY <1>24 DEF ForgetLockLegacy
<1>25. CASE ForgetMapping
  BY <1>25 DEF ForgetMapping, UsedInv
<1>26. CASE ForgetLockKey
  BY <1>26 DEF ForgetLockKey
<1>27. CASE ForgetState
  BY <1>27 DEF ForgetState, Fresh, NoRecord
<1>28. CASE ForgetDirectory
  BY <1>28 DEF ForgetDirectory
<1>29. CASE ForgetEnds
  BY <1>29 DEF ForgetEnds, Release
<1>30. CASE Crash
  BY <1>30 DEF Crash, CallDies, Release
<1>31. CASE Reboot
  BY <1>31 DEF Reboot, CallDies
<1>32. ASSUME NEW j \in Jobs, MakeDirectory(j) PROVE MappedInv'
  BY <1>32 DEF MakeDirectory
<1>33. ASSUME NEW j \in Jobs, StartUnit(j) PROVE MappedInv'
  BY <1>33 DEF StartUnit, Report
<1>34. ASSUME NEW j \in Jobs, RefuseUnit(j) PROVE MappedInv'
  BY <1>34 DEF RefuseUnit, Report
<1>35. ASSUME NEW j \in Jobs, ForgetInspect(j) PROVE MappedInv'
  BY <1>35 DEF ForgetInspect
<1>36. CASE PruneRecord
  BY <1>36 DEF PruneRecord, Fresh, NoRecord
<1> QED BY <1>2, <1>3, <1>4, <1>5, <1>6, <1>7, <1>8, <1>9, <1>10, <1>11, <1>12,
     <1>13, <1>14, <1>15, <1>16, <1>17, <1>18, <1>19, <1>20, <1>21, <1>22, <1>23,
     <1>24, <1>25, <1>26, <1>27, <1>28, <1>29, <1>30, <1>31, <1>32, <1>33, <1>34,
     <1>35, <1>36
     DEF Next, Step, ForgetStep, Systemd

\* Only a launch of the key's job puts evidence of it into the world.
LEMMA IdleNext == RInv /\ UsedInv /\ MappedInv /\ IdleInv /\ [Next]_vars => IdleInv'
<1> SUFFICES ASSUME RInv, UsedInv, MappedInv, IdleInv, [Next]_vars PROVE IdleInv'
  OBVIOUS
<1> USE DEF durable, systemd, locks, call, forget, bounds, history, Goto, FGoto,
            Return, Local, Others, Fault, Write, WriteFails
<1>1. ASSUME UNCHANGED <<pc, job, record, launched, unit, pending, result>> PROVE IdleInv'
  BY <1>1 DEF IdleInv, Idle
<1>2. ASSUME
        \/ ForgetLockLegacy \/ ForgetMapping \/ ForgetLockKey \/ ForgetEnds
        \/ UNCHANGED vars
        \/ \E j \in Jobs : \/ ForgetInspect(j)
      PROVE IdleInv'
  BY <1>1, <1>2 DEF ForgetLockLegacy, ForgetMapping, ForgetLockKey, ForgetEnds,
       ForgetInspect, vars
<1> USE KeyedJobStartAssumption DEF IdleInv, Idle, MappedInv, UsedInv,
     Unallocated, NeverLaunched, Present, HasResult, RInv, TypeOK, LockInv,
     RecordInv, CallInv, Working, Starting, InProgress, Completed, NoRecord
<1>3. CASE Begin
  BY <1>3 DEF Begin
<1>4. CASE Lock
  BY <1>4 DEF Lock
<1>5. CASE ReadCompleted
  BY <1>5 DEF ReadCompleted
<1>6. CASE Reconcile
  BY <1>6 DEF Reconcile
<1>7. CASE ReadNotFound
  BY <1>7 DEF ReadNotFound
<1>8. CASE ImportLock
  BY <1>8 DEF ImportLock
<1>9. CASE Import
  BY <1>9 DEF Import, Completed, InProgress
<1>10. CASE WriteSpec
  BY <1>10 DEF WriteSpec
<1>11. CASE PublishJob
  BY <1>11 DEF PublishJob, InProgress
<1>12. CASE RecordAttempt
  BY <1>12 DEF RecordAttempt, InProgress
<1>13. CASE Canceled
  BY <1>13 DEF Canceled
<1>14. CASE Launch
  BY <1>14 DEF Launch
<1>15. CASE LaunchReturns
  BY <1>15 DEF LaunchReturns
<1>16. CASE InspectUnit
  BY <1>16 DEF InspectUnit, FirstLook
<1>17. CASE VerdictAccepted
  BY <1>17 DEF VerdictAccepted, Accepted, SecondLook
<1>18. CASE Poll
  BY <1>18 DEF Poll
<1>19. CASE VerdictAbsent
  BY <1>19 DEF VerdictAbsent
<1>20. CASE VerdictUncertain
  BY <1>20 DEF VerdictUncertain
<1>21. CASE Complete
  BY <1>21 DEF Complete, Completed
<1>22. CASE Unlock
  BY <1>22 DEF Unlock, Answered, Completed
<1>23. CASE ForgetReset
  BY <1>23 DEF ForgetReset
<1>24. CASE ForgetState
  BY <1>24 DEF ForgetState, Fresh, NoRecord
<1>25. CASE ForgetDirectory
  BY <1>25 DEF ForgetDirectory
<1>26. CASE Crash
  BY <1>26 DEF Crash, CallDies, Release
<1>27. CASE Reboot
  BY <1>27 DEF Reboot, CallDies
<1>28. ASSUME NEW j \in Jobs, MakeDirectory(j) PROVE IdleInv'
  BY <1>28 DEF MakeDirectory
<1>29. ASSUME NEW j \in Jobs, StartUnit(j) PROVE IdleInv'
  BY <1>29 DEF StartUnit, Report
<1>30. ASSUME NEW j \in Jobs, RefuseUnit(j) PROVE IdleInv'
  BY <1>30 DEF RefuseUnit, Report
<1>31. ASSUME NEW j \in Jobs, WriteResult(j) PROVE IdleInv'
  BY <1>31 DEF WriteResult
<1>32. ASSUME NEW j \in Jobs, UnitExits(j) PROVE IdleInv'
  BY <1>32 DEF UnitExits
<1>33. ASSUME NEW j \in Jobs, SignalledEarly(j) PROVE IdleInv'
  BY <1>33 DEF SignalledEarly
<1>34. CASE PruneRecord
  BY <1>34 DEF PruneRecord, Fresh, NoRecord
<1> QED BY <1>2, <1>3, <1>4, <1>5, <1>6, <1>7, <1>8, <1>9, <1>10, <1>11, <1>12,
     <1>13, <1>14, <1>15, <1>16, <1>17, <1>18, <1>19, <1>20, <1>21, <1>22, <1>23,
     <1>24, <1>25, <1>26, <1>27, <1>28, <1>29, <1>30, <1>31, <1>32, <1>33, <1>34
     DEF Next, Step, ForgetStep, Systemd

\* The call has launched the job, or someone has before it.
LEMMA LaunchNext == RInv /\ IdleInv /\ LaunchInv /\ OrphanInv /\ [Next]_vars => LaunchInv'
<1> SUFFICES ASSUME RInv, IdleInv, LaunchInv, OrphanInv, [Next]_vars PROVE LaunchInv'
  OBVIOUS
<1> USE DEF durable, systemd, locks, call, forget, bounds, history, Goto, FGoto,
            Return, Local, Others, Fault, Write, WriteFails
<1>1. ASSUME UNCHANGED <<pc, tries, seen, job, launched>> PROVE LaunchInv'
  BY <1>1 DEF LaunchInv, Working
<1>2. ASSUME
        \/ ForgetReset \/ ForgetLockLegacy \/ ForgetMapping \/ ForgetLockKey
        \/ ForgetDirectory \/ ForgetEnds \/ UNCHANGED vars
        \/ \E j \in Jobs : \/ StartUnit(j) \/ RefuseUnit(j) \/ WriteResult(j)
                           \/ UnitExits(j) \/ SignalledEarly(j) \/ ForgetInspect(j)
      PROVE LaunchInv'
  BY <1>1, <1>2 DEF ForgetReset, ForgetLockLegacy, ForgetMapping, ForgetLockKey,
       ForgetDirectory, ForgetEnds, StartUnit, RefuseUnit, WriteResult, UnitExits,
       SignalledEarly, ForgetInspect, vars
<1> USE KeyedJobStartAssumption DEF LaunchInv, IdleInv, Idle, Present,
     HasResult, RInv, TypeOK, LockInv, RecordInv, CallInv, Working, Starting,
     InProgress, Completed, NoRecord
<1>3. CASE Begin
  BY <1>3 DEF Begin
<1>4. CASE Lock
  BY <1>4 DEF Lock
<1>5. CASE ReadCompleted
  BY <1>5 DEF ReadCompleted
<1>6. CASE Reconcile
  BY <1>6 DEF Reconcile
<1>7. CASE ReadNotFound
  BY <1>7 DEF ReadNotFound
<1>8. CASE ImportLock
  BY <1>8 DEF ImportLock
<1>9. CASE Import
  BY <1>9 DEF Import, Completed, InProgress
<1>10. CASE WriteSpec
  BY <1>10 DEF WriteSpec
<1>11. CASE PublishJob
  BY <1>11 DEF PublishJob, InProgress
<1>12. CASE RecordAttempt
  BY <1>12 DEF RecordAttempt, InProgress
<1>13. CASE Canceled
  BY <1>13 DEF Canceled
<1>14. CASE Launch
  BY <1>14 DEF Launch
<1>15. CASE LaunchReturns
  BY <1>15 DEF LaunchReturns
<1>16. CASE InspectUnit
  BY <1>16 DEF InspectUnit, FirstLook
<1>17. CASE VerdictAccepted
  BY <1>17 DEF VerdictAccepted, Accepted, SecondLook
<1>18. CASE Poll
  BY <1>18 DEF Poll
<1>19. CASE VerdictAbsent
  BY <1>19 DEF VerdictAbsent
<1>20. CASE VerdictUncertain
  BY <1>20 DEF VerdictUncertain
<1>21. CASE Complete
  BY <1>21 DEF Complete, Completed
<1>22. CASE Unlock
  BY <1>22 DEF Unlock, Answered, Completed
<1>23. CASE ForgetState
  BY <1>23 DEF ForgetState, Fresh, NoRecord, OrphanInv
<1>24. CASE Crash
  BY <1>24 DEF Crash, CallDies, Release
<1>25. CASE Reboot
  BY <1>25 DEF Reboot, CallDies
<1>26. ASSUME NEW j \in Jobs, MakeDirectory(j) PROVE LaunchInv'
  BY <1>26 DEF MakeDirectory
<1>27. CASE PruneRecord
  BY <1>27 DEF PruneRecord, Fresh, NoRecord
<1> QED BY <1>2, <1>3, <1>4, <1>5, <1>6, <1>7, <1>8, <1>9, <1>10, <1>11, <1>12,
     <1>13, <1>14, <1>15, <1>16, <1>17, <1>18, <1>19, <1>20, <1>21, <1>22, <1>23,
     <1>24, <1>25, <1>26, <1>27
     DEF Next, Step, ForgetStep, Systemd

\* A job that is not published has left nothing that could be forgotten, and
\* the old mapping of a job is removed before its record is looked for.
LEMMA OrphanNext ==
    RInv /\ UsedInv /\ MappedInv /\ IdleInv /\ OrphanInv /\ [Next]_vars => OrphanInv'
<1> SUFFICES ASSUME RInv, UsedInv, MappedInv, IdleInv, OrphanInv, [Next]_vars
             PROVE  OrphanInv'
  OBVIOUS
<1> USE DEF durable, systemd, locks, call, forget, bounds, history, Goto, FGoto,
            Return, Local, Others, Fault, Write, WriteFails
<1>1. ASSUME UNCHANGED <<pc, job, record, fpc, fjob, lock, forgotten>> PROVE OrphanInv'
  BY <1>1 DEF OrphanInv
<1>2. ASSUME
        \/ ForgetReset \/ ForgetLockLegacy \/ UNCHANGED vars
        \/ \E j \in Jobs : \/ StartUnit(j) \/ RefuseUnit(j) \/ WriteResult(j)
                           \/ UnitExits(j) \/ SignalledEarly(j)
      PROVE OrphanInv'
  BY <1>1, <1>2 DEF OrphanInv, ForgetReset, ForgetLockLegacy, StartUnit, RefuseUnit,
       WriteResult, UnitExits, SignalledEarly, vars
<1> USE KeyedJobStartAssumption DEF OrphanInv, MappedInv, UsedInv, IdleInv, Idle,
     Terminal, HasResult, RInv, TypeOK, LockInv, RecordInv, CallInv, Working,
     Starting, InProgress, Completed, NoRecord
<1>3. ASSUME
        \/ ForgetMapping \/ ForgetLockKey \/ ForgetDirectory \/ ForgetEnds
        \/ Crash \/ Reboot \/ \E j \in Jobs : ForgetInspect(j)
      PROVE OrphanInv'
  BY <1>3 DEF ForgetMapping, ForgetLockKey, ForgetDirectory, ForgetEnds,
       Crash, CallDies, Release, Reboot, ForgetInspect
<1>4. CASE ForgetState
  BY <1>4 DEF ForgetState, Fresh, Release
<1>5. CASE PruneRecord
  BY <1>5 DEF PruneRecord, Fresh, Release
<1>6. ASSUME UNCHANGED <<record, fpc, fjob, forgotten>>,
             lock' = "forget" <=> lock = "forget",
             pc' \notin {"spec", "publish"}
      PROVE OrphanInv'
  BY <1>6
<1>7. ASSUME
        \/ Begin \/ Lock \/ ReadCompleted \/ Reconcile \/ ReadNotFound
        \/ ImportLock \/ Canceled \/ Launch \/ LaunchReturns \/ InspectUnit
        \/ VerdictAccepted \/ Poll \/ VerdictAbsent \/ VerdictUncertain \/ Unlock
      PROVE OrphanInv'
  <2>1. lock' = "forget" <=> lock = "forget"
    BY <1>7 DEF Begin, Lock, ReadCompleted, Reconcile, ReadNotFound, ImportLock,
       Canceled, Launch, LaunchReturns, InspectUnit, VerdictAccepted, Poll,
       VerdictAbsent, VerdictUncertain, Unlock
  <2>2. UNCHANGED <<record, fpc, fjob, forgotten>> /\ pc' \notin {"spec", "publish"}
    BY <1>7 DEF Begin, Lock, ReadCompleted, Reconcile, ReadNotFound, ImportLock,
       Canceled, Launch, LaunchReturns, InspectUnit, VerdictAccepted, Poll,
       VerdictAbsent, VerdictUncertain, Unlock
  <2> QED BY <1>6, <2>1, <2>2
<1>8. CASE Import
  BY <1>8 DEF Import
<1>9. CASE WriteSpec
  BY <1>9 DEF WriteSpec
<1>10. CASE PublishJob
  BY <1>10 DEF PublishJob
<1>11. CASE RecordAttempt
  BY <1>11 DEF RecordAttempt
<1>12. CASE Complete
  BY <1>12 DEF Complete
<1>13. ASSUME NEW j \in Jobs, MakeDirectory(j) PROVE OrphanInv'
  BY <1>13 DEF MakeDirectory
<1> QED
  BY <1>2, <1>3, <1>4, <1>5, <1>7, <1>8, <1>9, <1>10, <1>11, <1>12, <1>13
     DEF Next, Step, ForgetStep, Systemd

\* The invariants of the record and of the promise hold together, whatever
\* systemd and the host do.
LEMMA KeyInvariant == Spec => [](RInv /\ PromiseInv)
<1>1. RInv /\ PromiseInv /\ [Next]_vars => (RInv /\ PromiseInv)'
  BY RType, RLock, RRecord, RCall, UsedNext, MappedNext, IdleNext, LaunchNext,
     OrphanNext DEF RInv, PromiseInv
<1> QED BY RInit, PromiseInit, <1>1, PTL DEF Spec

\* What the record alone says.
LEMMA RInvariant == Spec => []RInv
BY KeyInvariant, PTL

\* The type invariant of the keyed start, for any constants.
THEOREM TypeCorrect == Spec => []TypeOK
<1>1. RInv => TypeOK
  BY DEF RInv
<1> QED BY RInvariant, <1>1, PTL

\* keyed_job.go: while a key is retained, the only job launched for it is the
\* one its record names, also across host restarts and late launches.
THEOREM OneUnitPerKeyHolds == Spec => []OneUnitPerKey
<1>1. RInv => OneUnitPerKey
  BY DEF RInv, RecordInv, OneUnitPerKey
<1> QED BY RInvariant, <1>1, PTL

\* keyed_job.go: all answers given for a retained key are the same job, or the
\* same failure.
THEOREM AnswersAgreeHolds == Spec => []AnswersAgree
<1>1. RInv => AnswersAgree
  <2> SUFFICES ASSUME RInv PROVE AnswersAgree
    OBVIOUS
  <2>1. answers = {} \/ answers = {<<record.job, record.reply>>}
    BY DEF RInv, RecordInv
  <2>2. Cardinality(answers) \in {0, 1}
    BY <2>1, FS_EmptySet, FS_Singleton
  <2> QED BY <2>2 DEF AnswersAgree
<1> QED BY RInvariant, <1>1, PTL

\* A fresh key, or one that HEC v0.0.11 left a mapping of.
LEMMA InitRefines == Init => Promise!Init
<1> SUFFICES ASSUME Init PROVE Promise!Init
  OBVIOUS
<1>1. /\ record = NoRecord /\ launched = {} /\ answers = {} /\ forgotten = {}
      /\ pc = "idle" /\ legacy \in Jobs \cup {NoJob} /\ used = {legacy} \ {NoJob}
  BY KeyedJobStartAssumption DEF Init, InitLegacy
<1> QED BY <1>1 DEF Promise!Init, NoRecord, Spent

\* A step that neither writes the record nor loses a job before it is published
\* is hidden.
LEMMA HiddenStep ==
    ASSUME UNCHANGED <<record, legacy, launched, answers, forgotten, Spent>>
    PROVE  UNCHANGED Promise!vars
BY DEF Promise!vars

\* A call that fails or dies before the record names its job wastes the job.
LEMMA WasteStep ==
    ASSUME RInv, PromiseInv, pc \in {"spec", "publish"},
           pc' \notin {"spec", "publish"}, used' = used,
           UNCHANGED <<record, legacy, launched, answers, forgotten>>
    PROVE  Promise!Next
<1>1. job \in Jobs /\ job \in used
  BY DEF RInv, CallInv, PromiseInv, UsedInv
<1>2. Promise!Waste(job)
  BY <1>1 DEF Promise!Waste, Spent
<1> QED BY <1>1, <1>2 DEF Promise!Next

\* A call that publishes its job claims the key.
LEMMA ClaimStep ==
    ASSUME RInv, PromiseInv, pc = "publish", pc' \notin {"spec", "publish"},
           record' = InProgress(job, FALSE), used' = used,
           UNCHANGED <<legacy, launched, answers, forgotten>>
    PROVE  Promise!Next
<1>1. job \in Jobs /\ job \in used /\ record = NoRecord /\ legacy = NoJob
  BY DEF RInv, CallInv, Starting, PromiseInv, UsedInv, MappedInv
<1>2. Promise!Claim(job)
  BY <1>1 DEF Promise!Claim, Spent, InProgress, NoRecord
<1> QED BY <1>1, <1>2 DEF Promise!Next

\* The end of the call in a death, of its own or of the host's, changes nothing
\* but the fate of an unpublished job.
LEMMA DeathStep ==
    ASSUME RInv, PromiseInv, pc' = "idle", used' = used,
           UNCHANGED <<record, legacy, launched, answers, forgotten>>
    PROVE  [Promise!Next]_(Promise!vars)
<1>1. CASE pc \in {"spec", "publish"}
  BY <1>1, WasteStep
<1>2. CASE pc \notin {"spec", "publish"}
  BY <1>2, HiddenStep DEF Spent
<1> QED BY <1>1, <1>2

\* Every step of calls, systemd, job.forget and the host is one of the promise
\* or hidden.
LEMMA NextRefines ==
    ASSUME RInv, PromiseInv, [Next]_vars
    PROVE  [Promise!Next]_(Promise!vars)
<1> DEFINE Refined == [Promise!Next]_(Promise!vars)
<1> USE DEF durable, systemd, locks, call, forget, bounds, history, Goto, FGoto,
            Return, Local, Others, Fault, Write, WriteFails
<1>1. ASSUME
        \/ Begin \/ Lock \/ ReadCompleted \/ Reconcile \/ ReadNotFound
        \/ ImportLock \/ Canceled \/ LaunchReturns \/ InspectUnit
        \/ VerdictAccepted \/ Poll \/ VerdictAbsent \/ VerdictUncertain
        \/ ForgetReset \/ ForgetLockLegacy \/ ForgetLockKey
        \/ ForgetDirectory \/ ForgetEnds \/ UNCHANGED vars
        \/ \E j \in Jobs : \/ StartUnit(j) \/ RefuseUnit(j)
                           \/ WriteResult(j) \/ UnitExits(j) \/ SignalledEarly(j)
      PROVE Refined
  <2>1. UNCHANGED <<record, legacy, launched, answers, forgotten, used>>
    BY <1>1 DEF Begin, Lock, ReadCompleted, Reconcile, ReadNotFound, ImportLock,
       Canceled, LaunchReturns, InspectUnit, VerdictAccepted, Poll, VerdictAbsent,
       VerdictUncertain, ForgetReset, ForgetLockLegacy, ForgetLockKey,
       ForgetDirectory, ForgetEnds, vars, StartUnit, RefuseUnit, WriteResult,
       UnitExits, SignalledEarly
  <2>2. \/ pc' = pc /\ job' = job
        \/ pc \notin {"spec", "publish"} /\ pc' \notin {"spec", "publish"}
    BY <1>1 DEF Begin, Lock, ReadCompleted, Reconcile, ReadNotFound, ImportLock,
       Canceled, LaunchReturns, InspectUnit, VerdictAccepted, Poll, VerdictAbsent,
       VerdictUncertain, ForgetReset, ForgetLockLegacy, ForgetLockKey,
       ForgetDirectory, ForgetEnds, vars, StartUnit, RefuseUnit, WriteResult,
       UnitExits, SignalledEarly
  <2> QED BY <2>1, <2>2, HiddenStep DEF Spent
<1>2. CASE Import
  <2>1. /\ record = NoRecord /\ legacy \in Jobs \cup {NoJob}
        /\ UNCHANGED <<legacy, launched, answers, forgotten, used>>
        /\ pc = "imported" /\ pc' \notin {"spec", "publish"}
    BY <1>2 DEF Import, RInv, TypeOK, CallInv, Starting
  <2>2. \/ record' = record
        \/ legacy # NoJob /\ record' = Completed(legacy, "started")
        \/ legacy # NoJob /\ record' = InProgress(legacy, TRUE)
    BY <1>2 DEF Import
  <2>3. CASE record' = record
    BY <2>1, <2>3, HiddenStep DEF Spent
  <2>4. CASE legacy # NoJob /\ record' = Completed(legacy, "started")
    <3>1. Promise!Adopt
      BY <2>1, <2>4 DEF Promise!Adopt, Completed, NoRecord, Spent
    <3> QED BY <3>1 DEF Promise!Next
  <2>5. CASE legacy # NoJob /\ record' = InProgress(legacy, TRUE)
    <3>1. Promise!Adopt
      BY <2>1, <2>5 DEF Promise!Adopt, InProgress, NoRecord, Spent
    <3> QED BY <3>1 DEF Promise!Next
  <2> QED BY <2>2, <2>3, <2>4, <2>5, Zenon
<1>3. ASSUME NEW j \in Jobs, MakeDirectory(j) PROVE Refined
  <2>1. /\ pc = "mkdir" /\ pc' = "spec" /\ job' = j /\ j \notin used
        /\ used' = used \cup {j}
        /\ UNCHANGED <<record, legacy, launched, answers, forgotten>>
    BY <1>3 DEF MakeDirectory
  <2>2. Spent' = Spent
    BY <2>1 DEF Spent
  <2> QED BY <2>1, <2>2, HiddenStep
<1>4. CASE WriteSpec
  <2>1. /\ pc = "spec" /\ job' = job /\ pc' \in {"publish", "unlock"}
        /\ UNCHANGED <<record, legacy, launched, answers, forgotten, used>>
    BY <1>4 DEF WriteSpec
  <2>2. CASE pc' = "publish"
    BY <2>1, <2>2, HiddenStep DEF Spent
  <2>3. CASE pc' = "unlock"
    BY <2>1, <2>3, WasteStep
  <2> QED BY <2>1, <2>2, <2>3
<1>5. CASE PublishJob
  <2>1. /\ pc = "publish" /\ pc' \in {"attempt", "unlock"}
        /\ UNCHANGED <<legacy, launched, answers, forgotten, used>>
    BY <1>5 DEF PublishJob
  <2>2. CASE record' = record
    BY <2>1, <2>2, WasteStep
  <2>3. CASE record' = InProgress(job, FALSE)
    BY <2>1, <2>3, ClaimStep
  <2>4. record' = record \/ record' = InProgress(job, FALSE)
    BY <1>5 DEF PublishJob
  <2> QED BY <2>2, <2>3, <2>4, Zenon
<1>6. CASE RecordAttempt
  <2>1. /\ pc = "attempt" /\ pc' \in {"launch", "unlock"}
        /\ UNCHANGED <<legacy, launched, answers, forgotten, used>>
        /\ record' = record \/ record' = InProgress(job, TRUE)
    BY <1>6 DEF RecordAttempt
  <2>2. record = InProgress(job, FALSE)
    BY <2>1 DEF RInv, CallInv
  <2>3. UNCHANGED <<record.job, record.reply, Spent>>
    BY <2>1, <2>2 DEF InProgress, Spent
  <2> QED BY <2>1, <2>3 DEF Promise!vars
<1>7. CASE Launch
  <2>1. /\ pc = "launch" /\ pc' = "await" /\ launched' = launched \cup {job}
        /\ UNCHANGED <<record, legacy, answers, forgotten, used>>
    BY <1>7 DEF Launch
  <2>2. record = InProgress(job, TRUE) /\ job \in Jobs /\ launched \subseteq {record.job}
    BY <2>1 DEF RInv, CallInv, Working, RecordInv
  <2>3. record.job = job /\ record.reply = "none" /\ record.job # NoJob
    BY <2>2, KeyedJobStartAssumption DEF InProgress
  <2>4. Promise!Launch
    BY <2>1, <2>2, <2>3 DEF Promise!Launch, Spent
  <2> QED BY <2>4 DEF Promise!Next
<1>8. CASE Complete
  <2>1. /\ pc = "complete" /\ pc' = "unlock"
        /\ UNCHANGED <<legacy, launched, answers, forgotten, used>>
        /\ record' = record \/ record' = Completed(job, reply)
    BY <1>8 DEF Complete
  <2>2. /\ record = InProgress(job, TRUE) /\ launched \subseteq {record.job}
        /\ reply \in {"started", "job_start_failed"} /\ job \in launched
    BY <2>1 DEF RInv, CallInv, Working, RecordInv, PromiseInv, LaunchInv
  <2>3. record.job = job /\ record.reply = "none" /\ launched = {record.job}
    BY <2>2 DEF InProgress
  <2>4. CASE record' = record
    BY <2>1, <2>4, HiddenStep DEF Spent
  <2>5. CASE record' = Completed(job, reply)
    <3>1. Promise!Settle(reply)
      BY <2>1, <2>3, <2>5 DEF Promise!Settle, Completed, Spent
    <3> QED BY <2>2, <3>1 DEF Promise!Next, Promise!Outcomes
  <2> QED BY <2>1, <2>4, <2>5
<1>9. CASE Unlock
  <2>1. /\ pc = "unlock" /\ pc' = "idle"
        /\ UNCHANGED <<record, legacy, launched, forgotten, used>>
    BY <1>9 DEF Unlock
  <2>2. CASE answers' = answers
    BY <2>1, <2>2, HiddenStep DEF Spent
  <2>3. CASE answers' # answers
    <3>1. record = Completed(job, reply) /\ answers' = answers \cup {<<job, reply>>}
      BY <1>9, <2>3 DEF Unlock, Answered, RInv, CallInv
    <3>2. record.job = job /\ record.reply = reply /\ record.state = "completed"
      BY <3>1 DEF Completed
    <3>3. record.reply # "none" /\ answers \subseteq {<<record.job, record.reply>>}
      BY <3>2 DEF RInv, RecordInv
    <3>4. Promise!Answer
      BY <2>1, <3>1, <3>2, <3>3 DEF Promise!Answer, Spent
    <3> QED BY <3>4 DEF Promise!Next
  <2> QED BY <2>2, <2>3
<1>10. ASSUME NEW j \in Jobs, ForgetInspect(j) PROVE Refined
  <2>1. /\ UNCHANGED <<record, legacy, launched, answers, used, pc, job>>
        /\ forgotten' = forgotten \cup {j} /\ Terminal(j)
    BY <1>10 DEF ForgetInspect
  <2>2. ~Idle(j)
    BY <2>1 DEF Terminal, HasResult, Idle
  <2>3. j \in used
    BY <2>2 DEF PromiseInv, UsedInv, Unallocated, NeverLaunched, Idle
  <2>4. pc \in {"spec", "publish"} => j # job
    BY <2>2 DEF PromiseInv, IdleInv
  <2>5. Promise!Forget(j)
    BY <2>1, <2>3, <2>4 DEF Promise!Forget, Spent
  <2> QED BY <2>5 DEF Promise!Next
<1>11. CASE ForgetMapping
  <2>1. /\ UNCHANGED <<record, launched, answers, forgotten, used, pc, job>>
        /\ legacy' = IF legacy = fjob THEN NoJob ELSE legacy
        /\ fjob \in forgotten
    BY <1>11 DEF ForgetMapping, PromiseInv, UsedInv
  <2>2. CASE legacy = fjob
    <3>1. Promise!Unmap
      BY <2>1, <2>2 DEF Promise!Unmap, Spent
    <3> QED BY <3>1 DEF Promise!Next
  <2>3. CASE legacy # fjob
    BY <2>1, <2>3, HiddenStep DEF Spent
  <2> QED BY <2>2, <2>3
<1>12. CASE ForgetState
  <2>1. /\ UNCHANGED <<legacy, forgotten, used, pc, job>>
        /\ fjob \in forgotten /\ legacy # fjob /\ fjob # NoJob
    BY <1>12, KeyedJobStartAssumption
       DEF ForgetState, PromiseInv, UsedInv, MappedInv, RInv, TypeOK
  <2>2. CASE record.job = fjob
    <3>1. Fresh
      BY <1>12, <2>2 DEF ForgetState
    <3>2. Promise!Expire
      BY <2>1, <2>2, <3>1 DEF Promise!Expire, Fresh, NoRecord, Spent
    <3> QED BY <3>2 DEF Promise!Next
  <2>3. CASE record.job # fjob
    <3>1. UNCHANGED <<record, launched, answers>>
      BY <1>12, <2>3 DEF ForgetState
    <3> QED BY <2>1, <3>1, HiddenStep DEF Spent
  <2> QED BY <2>2, <2>3
<1>13. CASE Crash
  BY <1>13, DeathStep DEF Crash, CallDies
<1>14. CASE Reboot
  BY <1>14, DeathStep DEF Reboot, CallDies
<1>15. CASE PruneRecord
  <2>1. /\ record.state = "completed" /\ record' = NoRecord
        /\ launched' = {} /\ answers' = {}
        /\ UNCHANGED <<legacy, forgotten, used, pc, job>>
    BY <1>15 DEF PruneRecord, Fresh
  <2>2. record.job # NoJob /\ record.reply # "none"
    BY <2>1, KeyedJobStartAssumption DEF RInv, RecordInv
  <2>3. Promise!Expire
    BY <2>1, <2>2 DEF Promise!Expire, NoRecord, Spent
  <2> QED BY <2>3 DEF Promise!Next
<1> QED
  BY <1>1, <1>2, <1>3, <1>4, <1>5, <1>6, <1>7, <1>8, <1>9, <1>10, <1>11, <1>12,
     <1>13, <1>14, <1>15
     DEF Next, Step, ForgetStep, Systemd

\* keyed_job.go: under any key, with any calls, errors, deaths, host restarts and
\* delays of systemd, a start keeps the promise of KeyedStarts.
THEOREM KeyedJobStartImplements == Spec => ImplementsKeyedStarts
<1>1. RInv /\ PromiseInv /\ [Next]_vars => [Promise!Next]_(Promise!vars)
  BY NextRefines
<1> QED
  BY InitRefines, <1>1, KeyInvariant, PTL
     DEF Spec, ImplementsKeyedStarts, Promise!Spec

-----------------------------------------------------------------------------
(* The evidence.                                                           *)

\* Until the host restarts.
LEMMA NoReboot ==
    TypeOK /\ [Next]_vars /\ reboots' = 0 => reboots = 0 /\ ~Reboot
<1> SUFFICES ASSUME TypeOK, [Next]_vars, reboots' = 0 PROVE reboots = 0 /\ ~Reboot
  OBVIOUS
<1> USE DEF durable, systemd, locks, call, forget, bounds, history, Goto, FGoto,
            Return, Local, Others, Fault, Write, WriteFails
<1>0. reboots \in Nat
  BY DEF TypeOK
<1>1. CASE Reboot
  BY <1>0, <1>1 DEF Reboot
<1>2. CASE ~Reboot
  <2>1. reboots' = reboots
    BY <1>2 DEF Next, Step, ForgetStep, Systemd, vars, Begin, Lock, ReadCompleted,
       Reconcile, ReadNotFound, ImportLock, Import, MakeDirectory, WriteSpec,
       PublishJob, RecordAttempt, Canceled, Launch, LaunchReturns, InspectUnit,
       VerdictAccepted, Poll, VerdictAbsent, VerdictUncertain, Complete, Unlock,
       StartUnit, RefuseUnit, WriteResult, UnitExits, SignalledEarly,
       PruneRecord, ForgetInspect, ForgetReset,
       ForgetLockLegacy, ForgetMapping, ForgetLockKey, ForgetState,
       ForgetDirectory, ForgetEnds, Crash
  <2> QED BY <1>2, <2>1
<1> QED BY <1>1, <1>2

\* A legacy job was started once or never, and left what such a job leaves.
LEMMA EvidenceInit == Init => EvidenceInv
<1> SUFFICES ASSUME Init PROVE EvidenceInv
  OBVIOUS
<1> QED
  BY KeyedJobStartAssumption
     DEF Init, InitLegacy, LegacyStates, NoRecord, EvidenceInv, UsedInv, JobInv,
         ConclusionInv, TruthInv, Evidence, Unallocated, NeverLaunched, ToNothing, Present,
         HasResult, Working

\* The evidence of a job that is not being forgotten: requests become at most
\* one run, because the call makes a second one only after the evidence says
\* that the first came to nothing.
LEMMA EvidenceJob ==
    ASSUME RInv, EvidenceInv, LateAcceptance = FALSE, reboots' = 0, [Next]_vars,
           NEW i \in Jobs \ forgotten'
    PROVE  Evidence(i)'
<1> USE KeyedJobStartAssumption DEF durable, systemd, locks, call, forget, bounds,
        history, Goto, FGoto, Return, Local, Others, Fault, Write, WriteFails
<1>1. ASSUME UNCHANGED <<runs, unheard, pending, unit, dir, result>>, i \in Jobs \ forgotten
      PROVE  Evidence(i)'
  BY <1>1 DEF EvidenceInv, JobInv, Evidence, NeverLaunched, Present, HasResult
<1> USE DEF EvidenceInv, UsedInv, JobInv, Evidence, Unallocated,
            NeverLaunched, ToNothing, RInv, TypeOK, RecordInv, CallInv, Working,
            Starting, Present, HasResult, Terminal, InProgress, Completed,
            NoRecord
<1>2. ASSUME
        \/ Begin \/ Lock \/ ReadCompleted \/ Reconcile \/ ReadNotFound
        \/ ImportLock \/ Import \/ RecordAttempt \/ Canceled \/ LaunchReturns
        \/ InspectUnit \/ VerdictAccepted \/ Poll \/ VerdictAbsent
        \/ VerdictUncertain \/ Complete \/ Unlock \/ ForgetLockLegacy
        \/ ForgetMapping \/ ForgetLockKey \/ ForgetState \/ ForgetEnds
        \/ Crash \/ PruneRecord
        \/ UNCHANGED vars
        \/ \E j \in Jobs : ForgetInspect(j)
      PROVE Evidence(i)'
  BY <1>2, <1>1 DEF Begin, Lock, ReadCompleted, Reconcile, ReadNotFound,
       ImportLock, Import, RecordAttempt, Canceled, LaunchReturns,
       InspectUnit, VerdictAccepted, Poll, VerdictAbsent, VerdictUncertain,
       Complete, Unlock, ForgetLockLegacy, ForgetMapping, ForgetLockKey,
       ForgetState, ForgetEnds, Crash, PruneRecord, ForgetInspect, vars
<1>3. CASE WriteSpec
  <2>1. i = job => NeverLaunched(i) /\ ~Present(i) /\ i \notin result
    BY <1>3 DEF WriteSpec, ConclusionInv
  <2> QED BY <1>3, <2>1 DEF WriteSpec
<1>4. CASE PublishJob
  <2>1. i = job => NeverLaunched(i) /\ ~Present(i) /\ i \notin result
    BY <1>4 DEF PublishJob, ConclusionInv
  <2> QED BY <1>4, <2>1 DEF PublishJob
<1>5. CASE Launch
  <2>1. i = job => ToNothing(i) /\ dir[i] = "ready"
    BY <1>5 DEF Launch, ConclusionInv
  <2>2. pending'[i] = IF i = job THEN pending[i] + 1 ELSE pending[i]
    BY <1>5 DEF Launch
  <2> QED BY <1>5, <2>1, <2>2 DEF Launch
<1>6. CASE ForgetReset
  BY <1>6 DEF ForgetReset
<1>7. CASE ForgetDirectory
  BY <1>7 DEF ForgetDirectory
<1>8. ~Reboot
  BY NoReboot DEF RInv
<1>9. ASSUME NEW j \in Jobs, MakeDirectory(j) PROVE (Evidence(i))'
  BY <1>9 DEF MakeDirectory
<1>10. ASSUME NEW j \in Jobs, StartUnit(j) PROVE (Evidence(i))'
  BY <1>10 DEF StartUnit, Report
<1>11. ASSUME NEW j \in Jobs, RefuseUnit(j) PROVE (Evidence(i))'
  BY <1>11 DEF RefuseUnit, Report
<1>12. ASSUME NEW j \in Jobs, WriteResult(j) PROVE (Evidence(i))'
  BY <1>12 DEF WriteResult
<1>13. ASSUME NEW j \in Jobs, UnitExits(j) PROVE (Evidence(i))'
  BY <1>13 DEF UnitExits
<1>14. ASSUME NEW j \in Jobs, SignalledEarly(j) PROVE (Evidence(i))'
  BY <1>14 DEF SignalledEarly
<1> QED
  BY <1>2, <1>3, <1>4, <1>5, <1>6, <1>7, <1>8, <1>9, <1>10, <1>11, <1>12,
     <1>13, <1>14
     DEF Next, Step, ForgetStep, Systemd

\* What the call concluded stays true while other actors move on.
LEMMA EvidenceConclusion ==
    ASSUME RInv, EvidenceInv, LateAcceptance = FALSE, reboots' = 0, [Next]_vars
    PROVE  ConclusionInv'
<1> USE KeyedJobStartAssumption DEF durable, systemd, locks, call, forget, bounds,
        history, Goto, FGoto, Return, Local, Others, Fault, Write, WriteFails
<1> USE DEF ConclusionInv, EvidenceInv, UsedInv, JobInv, Evidence, Unallocated,
     NeverLaunched, ToNothing, RInv, TypeOK, RecordInv, CallInv, Working, Starting, Present,
     HasResult, Terminal, InProgress, Completed, NoRecord, LockInv
<1>1. CASE Begin
  BY <1>1 DEF Begin
<1>2. CASE Lock
  BY <1>2 DEF Lock
<1>3. CASE ReadCompleted
  BY <1>3 DEF ReadCompleted
<1>4. CASE Reconcile
  BY <1>4 DEF Reconcile, TruthInv
<1>5. CASE ReadNotFound
  BY <1>5 DEF ReadNotFound
<1>6. CASE ImportLock
  BY <1>6 DEF ImportLock
<1>7. CASE Import
  BY <1>7 DEF Import, Completed, InProgress
<1>8. CASE WriteSpec
  BY <1>8 DEF WriteSpec
<1>9. CASE PublishJob
  BY <1>9 DEF PublishJob, InProgress
<1>10. CASE RecordAttempt
  BY <1>10 DEF RecordAttempt, InProgress
<1>11. CASE Canceled
  BY <1>11 DEF Canceled
<1>12. CASE Launch
  BY <1>12 DEF Launch
<1>13. CASE LaunchReturns
  BY <1>13 DEF LaunchReturns
<1>14. CASE InspectUnit
  <2> SUFFICES ASSUME job \notin forgotten PROVE ConclusionInv'
    BY <1>14 DEF InspectUnit
  <2>1. job \in Jobs \ forgotten /\ dir[job] = "ready"
    BY <1>14 DEF InspectUnit
  <2>2. seen' = "present" => runs[job] >= 1
    BY <1>14, <2>1 DEF InspectUnit, FirstLook
  <2>3. seen' = "absent" =>
          pending[job] = 0 /\ (runs[job] = 0 \/ job \in unheard \/ HasResult(job))
    <3>1. runs[job] = 0 \/ runs[job] = 1 \/ job \in unheard
      BY <2>1
    <3>2. runs[job] = 1 /\ job \notin unheard => Present(job) \/ HasResult(job)
      BY <2>1
    <3>3. seen' = "absent" => ~Present(job) /\ pending[job] = 0
      BY <1>14 DEF InspectUnit, FirstLook
    <3> QED BY <3>1, <3>2, <3>3
  <2>4. job' = job /\ pc' = "verdict" /\ UNCHANGED <<dir, runs, unheard, pending, result>>
    BY <1>14 DEF InspectUnit
  <2> QED BY <2>1, <2>2, <2>3, <2>4
<1>15. CASE VerdictAccepted
  BY <1>15 DEF VerdictAccepted, Accepted, SecondLook
<1>16. CASE Poll
  BY <1>16 DEF Poll
<1>17. CASE VerdictAbsent
  BY <1>17 DEF VerdictAbsent, Accepted, SecondLook
<1>18. CASE VerdictUncertain
  BY <1>18 DEF VerdictUncertain
<1>19. CASE Complete
  BY <1>19 DEF Complete, Completed
<1>20. CASE Unlock
  BY <1>20 DEF Unlock, Answered, Completed
<1>21. CASE ForgetReset
  BY <1>21 DEF ForgetReset
<1>22. CASE ForgetLockLegacy
  BY <1>22 DEF ForgetLockLegacy
<1>23. CASE ForgetMapping
  BY <1>23 DEF ForgetMapping
<1>24. CASE ForgetLockKey
  BY <1>24 DEF ForgetLockKey
<1>25. CASE ForgetState
  BY <1>25 DEF ForgetState, Fresh, NoRecord
<1>26. CASE ForgetDirectory
  BY <1>26 DEF ForgetDirectory
<1>27. CASE ForgetEnds
  BY <1>27 DEF ForgetEnds, Release
<1>28. CASE Crash
  BY <1>28 DEF Crash, CallDies, Release
<1>29. ~Reboot
  BY NoReboot DEF RInv
<1>30. ASSUME NEW j \in Jobs, MakeDirectory(j) PROVE (ConclusionInv)'
  BY <1>30 DEF MakeDirectory
<1>31. ASSUME NEW j \in Jobs, StartUnit(j) PROVE (ConclusionInv)'
  BY <1>31 DEF StartUnit, Report
<1>32. ASSUME NEW j \in Jobs, RefuseUnit(j) PROVE (ConclusionInv)'
  BY <1>32 DEF RefuseUnit, Report
<1>33. ASSUME NEW j \in Jobs, WriteResult(j) PROVE (ConclusionInv)'
  BY <1>33 DEF WriteResult
<1>34. ASSUME NEW j \in Jobs, UnitExits(j) PROVE (ConclusionInv)'
  BY <1>34 DEF UnitExits
<1>35. ASSUME NEW j \in Jobs, ForgetInspect(j) PROVE (ConclusionInv)'
  BY <1>35 DEF ForgetInspect
<1>36. CASE UNCHANGED vars
  BY <1>36 DEF vars
<1>37. ASSUME NEW j \in Jobs, SignalledEarly(j) PROVE (ConclusionInv)'
  BY <1>37 DEF SignalledEarly
<1>38. CASE PruneRecord
  BY <1>38 DEF PruneRecord, Fresh, Release, NoRecord
<1> QED
  BY <1>1, <1>2, <1>3, <1>4, <1>5, <1>6, <1>7, <1>8, <1>9, <1>10, <1>11, <1>12,
       <1>13, <1>14, <1>15, <1>16, <1>17, <1>18, <1>19, <1>20, <1>21, <1>22, <1>23,
       <1>24, <1>25, <1>26, <1>27, <1>28, <1>29, <1>30, <1>31, <1>32, <1>33, <1>34,
       <1>35, <1>36, <1>37, <1>38
  DEF Next, Step, ForgetStep, Systemd

\* What was recorded stays true after the call is gone.
LEMMA EvidenceTruth ==
    ASSUME RInv, EvidenceInv, LateAcceptance = FALSE, reboots' = 0, [Next]_vars
    PROVE  TruthInv'
<1> USE KeyedJobStartAssumption DEF durable, systemd, locks, call, forget, bounds,
        history, Goto, FGoto, Return, Local, Others, Fault, Write, WriteFails
<1> USE DEF TruthInv, ConclusionInv, EvidenceInv, UsedInv, JobInv, Evidence,
     Unallocated, NeverLaunched, ToNothing, RInv, TypeOK, RecordInv, CallInv, Working, Starting,
     Present, HasResult, Terminal, InProgress, Completed, NoRecord, LockInv
<1>1. ASSUME UNCHANGED <<record, runs, pending>>, forgotten \subseteq forgotten',
             unheard \subseteq unheard'
      PROVE  TruthInv'
  BY <1>1 DEF TruthInv, NeverLaunched, ToNothing
<1>2. ASSUME
        \/ Begin \/ Lock \/ ReadCompleted \/ Reconcile \/ ReadNotFound
        \/ ImportLock \/ WriteSpec \/ Canceled \/ LaunchReturns
        \/ InspectUnit \/ VerdictAccepted \/ Poll \/ VerdictAbsent
        \/ VerdictUncertain \/ Unlock \/ ForgetReset \/ ForgetLockLegacy
        \/ ForgetMapping \/ ForgetLockKey \/ ForgetDirectory \/ ForgetEnds
        \/ Crash
        \/ UNCHANGED vars
        \/ \E j \in Jobs : \/ MakeDirectory(j) \/ WriteResult(j)
                           \/ UnitExits(j) \/ SignalledEarly(j) \/ ForgetInspect(j)
      PROVE TruthInv'
  BY <1>2, <1>1 DEF Begin, Lock, ReadCompleted, Reconcile, ReadNotFound,
       ImportLock, WriteSpec, Canceled, LaunchReturns, InspectUnit,
       VerdictAccepted, Poll, VerdictAbsent, VerdictUncertain, Unlock,
       ForgetReset, ForgetLockLegacy, ForgetMapping, ForgetLockKey,
       ForgetDirectory, ForgetEnds, Crash, MakeDirectory, WriteResult,
       UnitExits, SignalledEarly, ForgetInspect, vars
<1>3. CASE Import
  BY <1>3 DEF Import, Completed, InProgress
<1>4. CASE PublishJob
  BY <1>4 DEF PublishJob, InProgress
<1>5. CASE RecordAttempt
  BY <1>5 DEF RecordAttempt, InProgress
<1>6. CASE Launch
  BY <1>6 DEF Launch
<1>7. CASE Complete
  BY <1>7 DEF Complete, Completed
<1>8. CASE ForgetState
  BY <1>8 DEF ForgetState, Fresh, NoRecord
<1>9. ~Reboot
  BY NoReboot DEF RInv
<1>10. ASSUME NEW j \in Jobs, StartUnit(j) PROVE (TruthInv)'
  BY <1>10 DEF StartUnit, Report
<1>11. ASSUME NEW j \in Jobs, RefuseUnit(j) PROVE (TruthInv)'
  BY <1>11 DEF RefuseUnit, Report
<1>12. CASE PruneRecord
  BY <1>12 DEF PruneRecord, Fresh, NoRecord
<1> QED
  BY <1>2, <1>3, <1>4, <1>5, <1>6, <1>7, <1>8, <1>9, <1>10, <1>11, <1>12
     DEF Next, Step, ForgetStep, Systemd

\* As long as the host runs, and if systemd acts on a launch request within the
\* evidence window or not at all.
LEMMA EvidenceInvariant ==
    ASSUME LateAcceptance = FALSE
    PROVE  Spec => [](reboots = 0 => EvidenceInv)
<1>1. ASSUME RInv, reboots = 0 => EvidenceInv, [Next]_vars
      PROVE  (reboots = 0 => EvidenceInv)'
  <2> SUFFICES ASSUME reboots' = 0 PROVE EvidenceInv'
    OBVIOUS
  <2>1. EvidenceInv
    BY <1>1, NoReboot DEF RInv
  <2>2. JobInv'
    <3>1. ASSUME NEW i \in Jobs \ forgotten' PROVE Evidence(i)'
      BY <1>1, <2>1, EvidenceJob
    <3> QED BY <3>1 DEF JobInv
  <2> QED
    BY <1>1, <2>1, <2>2, UsedNext, EvidenceConclusion, EvidenceTruth
       DEF EvidenceInv
<1> QED BY <1>1, EvidenceInit, RInvariant, PTL DEF Spec

\* keyed_job.go: the runner of a job is started at most once, whatever responses
\* are lost, however often the service dies and the client retries -- until the
\* host restarts, and if the evidence window is long enough; excepted are the
\* jobs that a job.forget has begun to remove, and those whose runner a signal
\* killed before it listened to signals (job_runner.go).
THEOREM RunsAtMostOnceHolds ==
    ASSUME LateAcceptance = FALSE
    PROVE  Spec => [](reboots = 0 => RunsAtMostOnce)
<1>1. RInv /\ EvidenceInv => RunsAtMostOnce
  BY DEF RInv, TypeOK, EvidenceInv, JobInv, Evidence, RunsAtMostOnce
<1> QED BY <1>1, RInvariant, EvidenceInvariant, PTL

\* keyed_job.go: under the same conditions a recorded start is true, and a
\* recorded failure is final: nothing will be started any more, and nothing was,
\* except a runner that a signal killed before it listened to signals.
THEOREM RecordIsTrueHolds ==
    ASSUME LateAcceptance = FALSE
    PROVE  Spec => [](reboots = 0 => RecordIsTrue)
<1>1. RInv /\ EvidenceInv => RecordIsTrue
  BY DEF EvidenceInv, TruthInv, ToNothing, RecordIsTrue
<1> QED BY <1>1, RInvariant, EvidenceInvariant, PTL

=============================================================================
