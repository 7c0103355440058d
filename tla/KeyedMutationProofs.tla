------------------------- MODULE KeyedMutationProofs -------------------------
(***************************************************************************)
(* Proofs about KeyedMutation, for any number of calls, keys, requests and *)
(* results, any bounds and any retention.  TypeOK is inductive as it is.   *)
(* The safety properties hold behind the call gate (Gated), and without it *)
(* for as long as no record is surplus or expired (NeverPrunes): calls     *)
(* that overlap exclude each other by their claims, but the removals of a  *)
(* prune could take a record that was rewritten since its scan.  They      *)
(* follow from the inductive invariant IInv, which says for every step of  *)
(* a call what the record of its key must be.                              *)
(***************************************************************************)
EXTENDS KeyedMutation, FiniteSetTheorems, TLAPS

-----------------------------------------------------------------------------
(* The inductive invariant.                                                *)

\* No prune finds a record to remove: the keys are no more than MaxRecords and
\* that of the call which prunes, and none grows older than the retention.
NeverPrunes ==
    /\ IsFiniteSet(Keys) /\ Cardinality(Keys) <= MaxRecords + 1
    /\ MaxClock <= Retention

\* A call in flight has claimed its key, and no other call has the same.
ClaimInv ==
    /\ \A c \in Calls : pc[c] # "idle" => key[c] \in active
    /\ \A c, d \in Calls :
         pc[c] # "idle" /\ pc[d] # "idle" /\ key[c] = key[d] => c = d

\* Behind the gate at most one call is in flight.
OneInFlight ==
    \A c, d \in Calls : pc[c] # "idle" /\ pc[d] # "idle" => c = d

\* A call that removes records is alone, or has none to remove.
RemovalInv ==
    IF Gated THEN OneInFlight
    ELSE /\ clock <= MaxClock
         /\ \A c \in Calls : pc[c] = "remove" => todo[c] = {}

\* The fields of a record fit its state, and its key has taken effect never
\* before it is claimed and exactly once when it is completed.
RecordInv ==
    \A k \in Keys :
        /\ record[k].state = "none" =>
             /\ record[k].req = NoRequest /\ record[k].result = NoResult
             /\ execs[k] = 0
        /\ record[k].state = "in_progress" =>
             /\ record[k].req \in Requests /\ record[k].result = NoResult
             /\ execs[k] \in {0, 1}
        /\ record[k].state = "completed" =>
             /\ record[k].req \in Requests /\ record[k].result \in Results
             /\ execs[k] = 1

\* Client-visible history against the records.
HistoryInv ==
    /\ \A k \in uncertain : record[k].state = "in_progress"
    /\ \A a \in answers :
         /\ record[a[1]].state = "completed"
         /\ record[a[1]].req = a[2] /\ record[a[1]].result = a[3]

\* The record of a call's key holds the call's own request in this state.
Owns(c, state) ==
    record[key[c]].state = state /\ record[key[c]].req = req[c]

\* What a call in flight relies on at each of its steps.
CallInv(c) ==
    /\ pc[c] = "publish" => record[key[c]].state = "none"
    /\ pc[c] \in {"native", "scan", "scanlock"} =>
         /\ Owns(c, "in_progress") /\ execs[key[c]] = 0
         /\ key[c] \notin uncertain
    /\ pc[c] = "complete" =>
         /\ Owns(c, "in_progress") /\ execs[key[c]] = 1
         /\ key[c] \notin uncertain
         /\ reply[c].code = "result" /\ reply[c].value \in Results
    /\ pc[c] \in {"prune", "remove"} =>
         /\ Owns(c, "completed") /\ reply[c].code = "result"
         /\ record[key[c]].result = reply[c].value
    /\ pc[c] = "remove" =>
         /\ key[c] \notin todo[c]
         /\ \A k \in todo[c] : record[k].state = "completed"
    /\ pc[c] \in {"unlock", "deactivate"} /\ reply[c].code = "result" =>
         /\ Owns(c, "completed")
         /\ record[key[c]].result = reply[c].value
    /\ pc[c] \in {"unlock", "deactivate"}
       /\ reply[c].code = "uncertain_prior_execution" =>
         record[key[c]].state = "in_progress"

CallsInv == \A c \in Calls : CallInv(c)

IInv == ClaimInv /\ RemovalInv /\ RecordInv /\ HistoryInv /\ CallsInv

-----------------------------------------------------------------------------
(* Type correctness.                                                       *)

\* The initial state is well typed.
LEMMA TypeInit == Init => TypeOK
  BY DEF Init, TypeOK, NoRecord, Record, Failed, Reply, Codes, Steps

\* Every step of the service, of a hec process and of the clock keeps the
\* types.
LEMMA TypeNext == TypeOK /\ [Next]_vars => TypeOK'
  <1> SUFFICES ASSUME TypeOK, [Next]_vars PROVE TypeOK'
    OBVIOUS
  <1> USE DEF TypeOK, Steps, Goto, storeVars, callVars, bounds, history
  <1>1. ASSUME NEW c \in Calls, NEW k \in Keys, NEW r \in Requests,
               Activate(c, k, r)
        PROVE  TypeOK'
    BY <1>1 DEF Activate
  <1>2. ASSUME NEW c \in Calls, NEW k \in Keys, RejectActive(c, k)
        PROVE  TypeOK'
    BY <1>2 DEF RejectActive
  <1>3. ASSUME NEW c \in Calls, Step(c) \/ StepFails(c) PROVE TypeOK'
    <2>1. CASE Lock(c)
      BY <2>1 DEF Lock
    <2>2. CASE ReadConflict(c)
      BY <2>2 DEF ReadConflict, Decide, Answer, Failed, Reply, Codes
    <2>3. CASE ReadCompleted(c)
      BY <2>3 DEF ReadCompleted, Decide, Answer, Reply, Codes, Record
    <2>4. CASE ReadInProgress(c)
      BY <2>4 DEF ReadInProgress, Decide, Answer, Failed, Reply, Codes
    <2>5. CASE ReadNotFound(c)
      BY <2>5 DEF ReadNotFound
    <2>6. CASE PublishInProgress(c)
      BY <2>6 DEF PublishInProgress, Write, InProgress, Record
    <2>7. CASE BeginForget(c)
      BY <2>7 DEF BeginForget
    <2>8. CASE ScanVisit(c)
      BY <2>8 DEF ScanVisit
    <2>9. CASE Complete(c)
      BY <2>9 DEF Complete, Write, Completed, Record
    <2>10. CASE PruneScan(c)
      BY <2>10 DEF PruneScan, Candidates, Expired
    <2>11. CASE PruneDone(c)
      BY <2>11 DEF PruneDone
    <2>12. CASE Unlock(c)
      BY <2>12 DEF Unlock
    <2>13. CASE Deactivate(c)
      BY <2>13 DEF Deactivate, Answer, Failed, Reply, Codes
    <2>14. CASE LockFails(c)
      BY <2>14 DEF LockFails, Fault, Answer, Failed, Reply, Codes
    <2>15. CASE ReadFails(c)
      BY <2>15 DEF ReadFails, Decide, Answer, Failed, Reply, Codes, Fault
    <2>16. CASE PublishInProgressFails(c)
      <3>1. InProgress(req[c]) \in Record
        BY DEF InProgress, Record
      <3>2. record' \in [Keys -> Record]
        BY <2>16, <3>1 DEF PublishInProgressFails, WriteFails, Write
      <3>3. reply' \in [Calls -> [code : Codes, value : Results \cup {NoResult}]]
        BY <2>16 DEF PublishInProgressFails, Answer, Failed, Reply, Codes
      <3>4. faults' \in Nat
        BY <2>16 DEF PublishInProgressFails, WriteFails, Fault
      <3>5. QED
        BY <2>16, <3>2, <3>3, <3>4 DEF PublishInProgressFails
    <2>17. CASE ScanFails(c)
      BY <2>17 DEF ScanFails, Fault
    <2>18. CASE CompleteFails(c)
      <3>1. Completed(req[c], reply[c].value) \in Record
        BY DEF Completed, Record
      <3>2. record' \in [Keys -> Record]
        BY <2>18, <3>1 DEF CompleteFails, WriteFails, Write
      <3>3. reply' \in [Calls -> [code : Codes, value : Results \cup {NoResult}]]
        BY <2>18 DEF CompleteFails, Answer, Failed, Reply, Codes
      <3>4. faults' \in Nat
        BY <2>18 DEF CompleteFails, WriteFails, Fault
      <3>5. QED
        BY <2>18, <3>2, <3>3, <3>4 DEF CompleteFails
    <2>19. ASSUME NEW k \in Keys, ScanSkip(c, k) PROVE TypeOK'
      BY <2>19 DEF ScanSkip
    <2>20. ASSUME NEW k \in Keys, ScanEnter(c, k) PROVE TypeOK'
      BY <2>20 DEF ScanEnter
    <2>21. ASSUME NEW k \in Keys, PruneRemove(c, k) PROVE TypeOK'
      <3>1. record' \in [Keys -> Record]
        BY <2>21 DEF PruneRemove, Write, NoRecord, Record
      <3>2. /\ execs' \in [Keys -> Nat]
            /\ answers' \in SUBSET (Keys \X Requests \X (Results \cup {NoResult}))
            /\ uncertain' \in SUBSET Keys
        <4>1. answers' \subseteq answers
          BY <2>21 DEF PruneRemove, Refresh
        <4>2. QED
          <5>1. CASE record[k].state = "completed"
            BY <2>21, <4>1, <5>1 DEF PruneRemove, Refresh
          <5>2. CASE record[k].state # "completed"
            BY <2>21, <5>2 DEF PruneRemove, Refresh
          <5>3. QED
            BY <5>1, <5>2
      <3>3. QED
        BY <2>21, <3>1, <3>2 DEF PruneRemove
    <2>22. ASSUME NEW k \in Keys, PruneRemoveFails(c, k) PROVE TypeOK'
      BY <2>22 DEF PruneRemoveFails, Fault
    <2>23. ASSUME NEW v \in Results, DispatchNative(c, v) PROVE TypeOK'
      BY <2>23 DEF DispatchNative, Answer, Reply, Codes
    <2>24. CASE DispatchPanics(c)
      BY <2>24 DEF DispatchPanics, Fault, Answer, Failed, Reply, Codes
    <2>25. QED
      BY <1>3, <2>24, <2>1, <2>2, <2>3, <2>4, <2>5, <2>6, <2>7, <2>8, <2>9,
           <2>10, <2>11, <2>12, <2>13, <2>14, <2>15, <2>16, <2>17, <2>18, <2>19,
           <2>20, <2>21, <2>22, <2>23
         DEF Step, StepFails
  <1>4. CASE Crash
    BY <1>4 DEF Crash, Failed, Reply, Codes
  <1>5. ASSUME NEW k \in Keys, CliLock(k) \/ CliUnlock(k) PROVE TypeOK'
    BY <1>5 DEF CliLock, CliUnlock
  <1>6. CASE TimePasses
    BY <1>6 DEF TimePasses
  <1>7. CASE UNCHANGED vars
    BY <1>7 DEF vars
  <1>8. QED
    BY <1>1, <1>2, <1>3, <1>4, <1>5, <1>6, <1>7 DEF Next

\* The state of the keyed mutation store and of the calls is well typed in
\* every reachable state.
THEOREM TypeCorrect == Spec => []TypeOK
  BY TypeInit, TypeNext, PTL DEF Spec

-----------------------------------------------------------------------------
(* Safety of the keys.                                                     *)

\* The inductive invariant holds initially.
LEMMA InvInit == Init => IInv
  <1>1. Init => RemovalInv
    BY KeyedMutationAssumption
       DEF KeyedMutationAssumption, Init, RemovalInv, OneInFlight
  <1>2. QED
    BY <1>1 DEF Init, IInv, ClaimInv, RecordInv, HistoryInv, CallsInv, CallInv,
                NoRecord

\* A step of a call that leaves the other calls, their keys and the claims on
\* them alone.
OwnStep(c) ==
    /\ UNCHANGED <<key, req, clock>>
    /\ \A d \in Calls : d # c =>
         pc'[d] = pc[d] /\ reply'[d] = reply[d] /\ todo'[d] = todo[d]
    /\ \A k \in Keys : k # key[c] =>
         /\ record'[k] = record[k] /\ execs'[k] = execs[k]
         /\ k \in uncertain' <=> k \in uncertain
         /\ k \in active' <=> k \in active
    /\ pc'[c] # "idle" => active' = active

\* Every step of a call is one, but for the removals of a prune.
LEMMA StepIsOwn ==
    ASSUME TypeOK, NEW c \in Calls, Step(c) \/ StepFails(c),
           ~ \E k \in Keys : PruneRemove(c, k)
    PROVE  pc[c] # "idle" /\ OwnStep(c)
  <1> USE DEF TypeOK, OwnStep, Goto, storeVars, callVars, bounds, history
  <1>1. CASE \/ Lock(c) \/ LockFails(c) \/ ReadConflict(c) \/ ReadCompleted(c)
             \/ ReadInProgress(c) \/ ReadFails(c) \/ ReadNotFound(c)
    BY <1>1 DEF Lock, LockFails, ReadConflict, ReadCompleted, ReadInProgress,
                ReadFails, ReadNotFound, Decide, Answer
  <1>2. CASE \/ BeginForget(c) \/ ScanVisit(c) \/ ScanFails(c) \/ PruneDone(c)
             \/ Unlock(c)
    BY <1>2 DEF BeginForget, ScanVisit, ScanFails, PruneDone, Unlock
  <1>3. CASE PublishInProgress(c) \/ PublishInProgressFails(c)
    BY <1>3 DEF PublishInProgress, PublishInProgressFails, Write, WriteFails,
                Answer
  <1>4. CASE Complete(c) \/ CompleteFails(c)
    BY <1>4 DEF Complete, CompleteFails, Write, WriteFails, Answer
  <1>5. CASE DispatchPanics(c) \/ \E v \in Results : DispatchNative(c, v)
    BY <1>5 DEF DispatchPanics, DispatchNative, NativeReady, Answer
  <1>6. CASE PruneScan(c)
    BY <1>6 DEF PruneScan
  <1>7. CASE Deactivate(c)
    BY <1>7 DEF Deactivate, Answer
  <1>8. ASSUME NEW k \in Keys,
               ScanSkip(c, k) \/ ScanEnter(c, k) \/ PruneRemoveFails(c, k)
        PROVE  pc[c] # "idle" /\ OwnStep(c)
    BY <1>8 DEF ScanSkip, ScanEnter, PruneRemoveFails
  <1>9. QED
    BY <1>1, <1>2, <1>3, <1>4, <1>5, <1>6, <1>7, <1>8 DEF Step, StepFails

\* A store that has no surplus and nothing expired gives a prune no work.
LEMMA ScanFindsNothing ==
    ASSUME KeyedMutationAssumption, NeverPrunes, TypeOK, clock <= MaxClock,
           NEW c \in Calls, PruneScan(c)
    PROVE  todo'[c] = {}
  <1>1. PICK old \in SUBSET Candidates(c) :
             /\ Surplus(Candidates(c), old)
             /\ todo' = [todo EXCEPT ![c] = old \cup Expired(Candidates(c))]
    BY DEF PruneScan
  <1>2. Expired(Candidates(c)) = {}
    <2>1. /\ clock \in Nat /\ MaxClock \in Nat /\ Retention \in Nat
          /\ \A k \in Keys : record[k].updated \in Nat
      BY DEF KeyedMutationAssumption, TypeOK, Record
    <2>2. \A k \in Keys : ~(clock > record[k].updated + Retention)
      BY <2>1 DEF NeverPrunes
    <2>3. QED
      BY <2>2 DEF Expired, Candidates
  <1>3. Cardinality(Candidates(c)) <= MaxRecords
    <2>1. key[c] \in Keys
      BY DEF TypeOK
    <2>2. /\ IsFiniteSet(Keys \ {key[c]})
          /\ Cardinality(Keys \ {key[c]}) = Cardinality(Keys) - 1
      BY <2>1, FS_RemoveElement DEF NeverPrunes
    <2>3. Candidates(c) \in SUBSET (Keys \ {key[c]})
      BY DEF Candidates
    <2>4. /\ IsFiniteSet(Candidates(c))
          /\ Cardinality(Candidates(c)) <= Cardinality(Keys \ {key[c]})
      BY <2>2, <2>3, FS_Subset
    <2>5. /\ Cardinality(Keys) \in Nat /\ Cardinality(Candidates(c)) \in Nat
          /\ MaxRecords \in Nat
      BY <2>4, FS_CardinalityType DEF NeverPrunes, KeyedMutationAssumption
    <2>6. QED
      BY <2>2, <2>4, <2>5 DEF NeverPrunes
  <1>4. old = {}
    <2>1. IsFiniteSet(Candidates(c))
      BY FS_Subset DEF NeverPrunes, Candidates
    <2>2. IsFiniteSet(old)
      BY <2>1, FS_Subset
    <2>3. Cardinality(Candidates(c)) \in Nat /\ MaxRecords \in Nat
      BY <2>1, FS_CardinalityType DEF KeyedMutationAssumption
    <2>4. Cardinality(old) = 0
      BY <1>1, <1>3, <2>3 DEF Surplus
    <2>5. QED
      BY <2>2, <2>4, FS_EmptySet
  <1>5. QED
    BY <1>1, <1>2, <1>4 DEF TypeOK

\* Of two calls in flight none has anything to remove.
LEMMA RemovalStep ==
    ASSUME KeyedMutationAssumption, Gated \/ NeverPrunes, TypeOK, RemovalInv,
           NEW c \in Calls, Step(c) \/ StepFails(c), pc[c] # "idle", OwnStep(c)
    PROVE  RemovalInv'
  <1>1. CASE Gated
    BY <1>1 DEF RemovalInv, OneInFlight, OwnStep
  <1>2. CASE ~Gated
    <2>1. clock' <= MaxClock
      BY <1>2 DEF RemovalInv, OwnStep
    <2>2. ASSUME pc'[c] = "remove" PROVE todo'[c] = {}
      <3>1. CASE pc[c] = "remove"
        <4>1. todo[c] = {}
          BY <1>2, <3>1 DEF RemovalInv
        <4>2. QED
          BY <3>1, <4>1, <2>2
             DEF Step, StepFails, Lock, LockFails, ReadConflict, ReadCompleted,
                 ReadInProgress, ReadFails, ReadNotFound, Decide, BeginForget,
                 ScanVisit, ScanFails, ScanSkip, ScanEnter, PublishInProgress,
                 PublishInProgressFails, DispatchNative, DispatchPanics,
                 NativeReady, Complete, CompleteFails, PruneScan, PruneDone,
                 PruneRemove, PruneRemoveFails, Unlock, Deactivate, Goto, TypeOK
      <3>2. CASE pc[c] # "remove"
        <4>1. PruneScan(c)
          BY <3>2, <2>2
             DEF Step, StepFails, Lock, LockFails, ReadConflict, ReadCompleted,
                 ReadInProgress, ReadFails, ReadNotFound, Decide, BeginForget,
                 ScanVisit, ScanFails, ScanSkip, ScanEnter, PublishInProgress,
                 PublishInProgressFails, DispatchNative, DispatchPanics,
                 NativeReady, Complete, CompleteFails, PruneDone, PruneRemove,
                 PruneRemoveFails, Unlock, Deactivate, Goto, TypeOK
        <4>2. QED
          BY <1>2, <4>1, ScanFindsNothing DEF RemovalInv
      <3>3. QED
        BY <3>1, <3>2
    <2>3. QED
      BY <1>2, <2>1, <2>2 DEF RemovalInv, OwnStep
  <1>3. QED
    BY <1>1, <1>2

\* What a call relies on is about its own key, which no other call has: the
\* invariant of the others survives a step of the call.
LEMMA OtherCalls ==
    ASSUME TypeOK, ClaimInv, RemovalInv, CallsInv, NEW c \in Calls,
           pc[c] # "idle", OwnStep(c), CallInv(c)'
    PROVE  ClaimInv' /\ CallsInv'
  <1>1. ASSUME NEW d \in Calls, d # c, pc[d] # "idle"
        PROVE  key[d] \in Keys /\ key[d] # key[c]
    BY <1>1 DEF ClaimInv, TypeOK
  <1>2. ClaimInv'
    BY <1>1 DEF ClaimInv, OwnStep
  <1>3. ASSUME NEW d \in Calls, d # c PROVE CallInv(d)'
    <2>1. CallInv(d)
      BY DEF CallsInv
    <2>2. CASE pc[d] = "idle"
      BY <1>3, <2>2 DEF CallInv, OwnStep
    <2>3. CASE pc[d] # "idle"
      <3>1. key[d] \in Keys /\ key[d] # key[c]
        BY <1>1, <1>3, <2>3
      <3>2. /\ pc'[d] = pc[d] /\ reply'[d] = reply[d] /\ todo'[d] = todo[d]
            /\ key'[d] = key[d] /\ req'[d] = req[d]
            /\ record'[key[d]] = record[key[d]] /\ execs'[key[d]] = execs[key[d]]
            /\ key[d] \in uncertain' <=> key[d] \in uncertain
        BY <1>3, <3>1 DEF OwnStep
      <3>3. pc[d] = "remove" => todo[d] = {}
        BY <1>3, <2>3 DEF RemovalInv, OneInFlight
      <3>4. QED
        BY <2>1, <3>2, <3>3 DEF CallInv, Owns
    <2>4. QED
      BY <2>2, <2>3
  <1>4. QED
    BY <1>2, <1>3 DEF CallsInv

\* What is said of the records, of the history and of one call.
StepInv(c) == RecordInv /\ HistoryInv /\ CallInv(c)

\* A step that leaves the records and the history alone keeps what is said
\* of them.
LEMMA QuietStep ==
    ASSUME RecordInv, HistoryInv, UNCHANGED <<record, history>>
    PROVE  RecordInv' /\ HistoryInv'
  BY DEF RecordInv, HistoryInv, history

\* Every step of a call that neither writes a record nor answers a client
\* keeps the invariant.
LEMMA InvQuietSteps ==
    ASSUME TypeOK, IInv, NEW c \in Calls,
           \/ Lock(c) \/ LockFails(c) \/ ReadConflict(c) \/ ReadCompleted(c)
           \/ ReadInProgress(c) \/ ReadFails(c) \/ ReadNotFound(c)
           \/ BeginForget(c) \/ ScanVisit(c) \/ ScanFails(c)
           \/ PruneScan(c) \/ PruneDone(c) \/ Unlock(c)
    PROVE  StepInv(c)'
  <1>1. RecordInv /\ HistoryInv /\ CallInv(c)
    BY DEF IInv, CallsInv
  <1> USE DEF TypeOK, storeVars, history, bounds, callVars, Goto
  <1>2. CASE Lock(c)
    <2>1. UNCHANGED <<record, history>>
      BY <1>2 DEF Lock
    <2>2. CallInv(c)'
      BY <1>1, <1>2 DEF CallInv, Owns, Lock
    <2>3. QED
      BY <1>1, <2>1, <2>2, QuietStep DEF StepInv
  <1>3. CASE LockFails(c)
    <2>1. UNCHANGED <<record, history>>
      BY <1>3 DEF LockFails
    <2>2. CallInv(c)'
      BY <1>1, <1>3 DEF CallInv, Owns, LockFails, Answer, Failed, Reply
    <2>3. QED
      BY <1>1, <2>1, <2>2, QuietStep DEF StepInv
  <1>4. CASE ReadConflict(c)
    <2>1. UNCHANGED <<record, history>>
      BY <1>4 DEF ReadConflict, Decide
    <2>2. CallInv(c)'
      BY <1>1, <1>4 DEF CallInv, Owns, ReadConflict, Decide, Answer, Failed, Reply
    <2>3. QED
      BY <1>1, <2>1, <2>2, QuietStep DEF StepInv
  <1>5. CASE ReadCompleted(c)
    <2>1. UNCHANGED <<record, history>>
      BY <1>5 DEF ReadCompleted, Decide
    <2>2. CallInv(c)'
      BY <1>1, <1>5 DEF CallInv, Owns, ReadCompleted, Decide, Answer, Reply,
           Mismatch
    <2>3. QED
      BY <1>1, <2>1, <2>2, QuietStep DEF StepInv
  <1>6. CASE ReadInProgress(c)
    <2>1. UNCHANGED <<record, history>>
      BY <1>6 DEF ReadInProgress, Decide
    <2>2. CallInv(c)'
      BY <1>1, <1>6 DEF CallInv, Owns, ReadInProgress, Decide, Answer, Failed,
           Reply
    <2>3. QED
      BY <1>1, <2>1, <2>2, QuietStep DEF StepInv
  <1>7. CASE ReadFails(c)
    <2>1. UNCHANGED <<record, history>>
      BY <1>7 DEF ReadFails, Decide
    <2>2. CallInv(c)'
      BY <1>1, <1>7 DEF CallInv, Owns, ReadFails, Decide, Answer, Failed, Reply
    <2>3. QED
      BY <1>1, <2>1, <2>2, QuietStep DEF StepInv
  <1>8. CASE ReadNotFound(c)
    <2>1. UNCHANGED <<record, history>>
      BY <1>8 DEF ReadNotFound
    <2>2. CallInv(c)'
      BY <1>1, <1>8 DEF CallInv, Owns, ReadNotFound
    <2>3. QED
      BY <1>1, <2>1, <2>2, QuietStep DEF StepInv
  <1>9. CASE BeginForget(c)
    <2>1. UNCHANGED <<record, history>>
      BY <1>9 DEF BeginForget
    <2>2. CallInv(c)'
      BY <1>1, <1>9 DEF CallInv, Owns, BeginForget
    <2>3. QED
      BY <1>1, <2>1, <2>2, QuietStep DEF StepInv
  <1>10. CASE ScanVisit(c)
    <2>1. UNCHANGED <<record, history>>
      BY <1>10 DEF ScanVisit
    <2>2. CallInv(c)'
      BY <1>1, <1>10 DEF CallInv, Owns, ScanVisit
    <2>3. QED
      BY <1>1, <2>1, <2>2, QuietStep DEF StepInv
  <1>11. CASE ScanFails(c)
    <2>1. UNCHANGED <<record, history>>
      BY <1>11 DEF ScanFails
    <2>2. CallInv(c)'
      BY <1>1, <1>11 DEF CallInv, Owns, ScanFails
    <2>3. QED
      BY <1>1, <2>1, <2>2, QuietStep DEF StepInv
  <1>12. CASE PruneScan(c)
    <2>1. UNCHANGED <<record, history>>
      BY <1>12 DEF PruneScan
    <2>2. CallInv(c)'
      BY <1>1, <1>12 DEF CallInv, Owns, PruneScan, Candidates, Expired
    <2>3. QED
      BY <1>1, <2>1, <2>2, QuietStep DEF StepInv
  <1>13. CASE PruneDone(c)
    <2>1. UNCHANGED <<record, history>>
      BY <1>13 DEF PruneDone
    <2>2. CallInv(c)'
      BY <1>1, <1>13 DEF CallInv, Owns, PruneDone
    <2>3. QED
      BY <1>1, <2>1, <2>2, QuietStep DEF StepInv
  <1>14. CASE Unlock(c)
    <2>1. UNCHANGED <<record, history>>
      BY <1>14 DEF Unlock
    <2>2. CallInv(c)'
      BY <1>1, <1>14 DEF CallInv, Owns, Unlock
    <2>3. QED
      BY <1>1, <2>1, <2>2, QuietStep DEF StepInv
  <1>15. QED
    BY <1>2, <1>3, <1>4, <1>5, <1>6, <1>7, <1>8, <1>9, <1>10, <1>11, <1>12,
         <1>13, <1>14

\* So does a step of a loop that neither writes a record nor answers.
LEMMA InvLoopSteps ==
    ASSUME TypeOK, IInv, NEW c \in Calls, NEW k \in Keys,
           ScanSkip(c, k) \/ ScanEnter(c, k) \/ PruneRemoveFails(c, k)
    PROVE  StepInv(c)'
  <1>1. RecordInv /\ HistoryInv /\ CallInv(c)
    BY DEF IInv, CallsInv
  <1> USE DEF TypeOK, storeVars, history, bounds, callVars, Goto
  <1>2. CASE ScanSkip(c, k)
    <2>1. UNCHANGED <<record, history>>
      BY <1>2 DEF ScanSkip
    <2>2. CallInv(c)'
      BY <1>1, <1>2 DEF CallInv, Owns, ScanSkip
    <2>3. QED
      BY <1>1, <2>1, <2>2, QuietStep DEF StepInv
  <1>3. CASE ScanEnter(c, k)
    <2>1. UNCHANGED <<record, history>>
      BY <1>3 DEF ScanEnter
    <2>2. CallInv(c)'
      BY <1>1, <1>3 DEF CallInv, Owns, ScanEnter
    <2>3. QED
      BY <1>1, <2>1, <2>2, QuietStep DEF StepInv
  <1>4. CASE PruneRemoveFails(c, k)
    <2>1. UNCHANGED <<record, history>>
      BY <1>4 DEF PruneRemoveFails
    <2>2. CallInv(c)'
      BY <1>1, <1>4 DEF CallInv, Owns, PruneRemoveFails
    <2>3. QED
      BY <1>1, <2>1, <2>2, QuietStep DEF StepInv
  <1>5. QED
    BY <1>2, <1>3, <1>4

\* Publishing in_progress claims a key that is fresh; if the write fails the
\* record may be in progress although nothing will be executed.
LEMMA InvPublish ==
    ASSUME TypeOK, IInv, NEW c \in Calls,
           PublishInProgress(c) \/ PublishInProgressFails(c)
    PROVE  StepInv(c)'
  <1>1. RecordInv /\ HistoryInv /\ CallInv(c)
    BY DEF IInv, CallsInv
  <1> USE DEF TypeOK, history
  <1>2. /\ pc[c] = "publish" /\ record[key[c]].state = "none"
        /\ UNCHANGED <<key, req, todo, history>>
        /\ record' = [record EXCEPT ![key[c]] = InProgress(req[c])]
           \/ UNCHANGED record
    BY <1>1 DEF CallInv, PublishInProgress, PublishInProgressFails, Write,
                WriteFails
  <1>3. RecordInv'
    BY <1>1, <1>2 DEF RecordInv, InProgress
  <1>4. HistoryInv'
    BY <1>1, <1>2 DEF HistoryInv, InProgress
  <1>5. CASE PublishInProgress(c)
    <2>1. CallInv(c)'
      <3>1. key[c] \notin uncertain /\ execs[key[c]] = 0
        BY <1>1, <1>2 DEF HistoryInv, RecordInv
      <3>2. QED
        BY <1>2, <1>5, <3>1
           DEF CallInv, Owns, PublishInProgress, Goto, Write, InProgress
    <2>2. QED
      BY <1>3, <1>4, <2>1 DEF StepInv
  <1>6. CASE PublishInProgressFails(c)
    <2>1. Goto(c, "unlock") /\ reply'[c].code = "idempotency_state_failed"
      BY <1>6 DEF PublishInProgressFails, Answer, Failed, Reply
    <2>2. CallInv(c)'
      BY <2>1 DEF CallInv, Goto
    <2>3. QED
      BY <1>3, <1>4, <2>2 DEF StepInv
  <1>7. QED
    BY <1>5, <1>6

\* The native execution happens on a key whose record is in progress and
\* which has not taken effect.
LEMMA InvNative ==
    ASSUME TypeOK, IInv, NEW c \in Calls, NEW v \in Results,
           DispatchNative(c, v)
    PROVE  StepInv(c)'
  <1>1. RecordInv /\ HistoryInv /\ CallInv(c)
    BY DEF IInv, CallsInv
  <1> USE DEF TypeOK
  <1>2. /\ pc[c] \in {"native", "scan"} /\ Goto(c, "complete")
        /\ Owns(c, "in_progress") /\ execs[key[c]] = 0
        /\ key[c] \notin uncertain
        /\ UNCHANGED <<record, key, req, todo, answers, uncertain>>
        /\ execs' = [execs EXCEPT ![key[c]] = 1]
        /\ reply' = [reply EXCEPT ![c] = Reply("result", v)]
    <2>1. pc[c] \in {"native", "scan"}
      BY DEF DispatchNative, NativeReady
    <2>2. /\ Owns(c, "in_progress") /\ execs[key[c]] = 0
          /\ key[c] \notin uncertain
      BY <1>1, <2>1 DEF CallInv
    <2>3. execs[key[c]] + 1 = 1
      BY <2>2
    <2>4. QED
      BY <2>1, <2>2, <2>3 DEF DispatchNative, storeVars, Answer
  <1>3. RecordInv'
    BY <1>1, <1>2 DEF RecordInv, Owns
  <1>4. HistoryInv'
    BY <1>1, <1>2 DEF HistoryInv
  <1>5. CallInv(c)'
    BY <1>2 DEF CallInv, Owns, Goto, Reply
  <1>6. QED
    BY <1>3, <1>4, <1>5 DEF StepInv

\* A panic leaves the record in progress, with at most one effect.
LEMMA InvPanics ==
    ASSUME TypeOK, IInv, NEW c \in Calls, DispatchPanics(c)
    PROVE  StepInv(c)'
  <1>1. RecordInv /\ HistoryInv /\ CallInv(c)
    BY DEF IInv, CallsInv
  <1> USE DEF TypeOK
  <1>2. /\ pc[c] \in {"native", "scan"} /\ Goto(c, "unlock")
        /\ reply'[c].code = "internal_error"
        /\ UNCHANGED <<record, key, req, todo, answers, uncertain>>
    BY DEF DispatchPanics, NativeReady, storeVars, Answer, Failed, Reply
  <1>3. Owns(c, "in_progress") /\ execs[key[c]] = 0
    BY <1>1, <1>2 DEF CallInv
  <1>4. execs' = [execs EXCEPT ![key[c]] = 1] \/ UNCHANGED execs
    <2>1. execs[key[c]] + 1 = 1
      BY <1>3
    <2>2. QED
      BY <2>1 DEF DispatchPanics
  <1>5. RecordInv'
    BY <1>1, <1>2, <1>3, <1>4 DEF RecordInv, Owns
  <1>6. HistoryInv'
    BY <1>1, <1>2 DEF HistoryInv
  <1>7. CallInv(c)'
    BY <1>2 DEF CallInv, Goto
  <1>8. QED
    BY <1>5, <1>6, <1>7 DEF StepInv

\* The completion write settles the key with the value just computed; when
\* it fails the record is either settled or still in progress.
LEMMA InvComplete ==
    ASSUME TypeOK, IInv, NEW c \in Calls, Complete(c) \/ CompleteFails(c)
    PROVE  StepInv(c)'
  <1>1. RecordInv /\ HistoryInv /\ CallInv(c)
    BY DEF IInv, CallsInv
  <1> USE DEF TypeOK, history
  <1>2. /\ pc[c] = "complete"
        /\ Owns(c, "in_progress") /\ execs[key[c]] = 1
        /\ key[c] \notin uncertain
        /\ reply[c].code = "result" /\ reply[c].value \in Results
        /\ UNCHANGED <<key, req, todo, history>>
        /\ \/ record' = [record EXCEPT ![key[c]] =
                                    Completed(req[c], reply[c].value)]
           \/ UNCHANGED record
    BY <1>1 DEF CallInv, Complete, CompleteFails, Write, WriteFails
  <1>3. RecordInv'
    BY <1>1, <1>2 DEF RecordInv, Completed
  <1>4. HistoryInv'
    BY <1>1, <1>2 DEF HistoryInv, Completed, Owns
  <1>5. CASE Complete(c)
    <2>1. CallInv(c)'
      BY <1>2, <1>5 DEF CallInv, Owns, Complete, Goto, Write, Completed
    <2>2. QED
      BY <1>3, <1>4, <2>1 DEF StepInv
  <1>6. CASE CompleteFails(c)
    <2>1. Goto(c, "unlock") /\ reply'[c].code = "idempotency_state_failed"
      BY <1>6 DEF CompleteFails, Answer, Failed, Reply
    <2>2. CallInv(c)'
      BY <2>1 DEF CallInv, Goto
    <2>3. QED
      BY <1>3, <1>4, <2>2 DEF StepInv
  <1>7. QED
    BY <1>5, <1>6

\* Behind the gate the record a prune removes is still the completed record
\* its scan saw, so that the key really becomes fresh.  Elsewhere there is none.
LEMMA InvPruneRemove ==
    ASSUME TypeOK, IInv, NEW c \in Calls, NEW k \in Keys, PruneRemove(c, k)
    PROVE  IInv'
  <1>1. RecordInv /\ HistoryInv /\ RemovalInv /\ ClaimInv /\ CallInv(c)
    BY DEF IInv, CallsInv
  <1> USE DEF TypeOK
  <1>2. /\ pc[c] = "remove" /\ k \in todo[c]
        /\ k # key[c] /\ record[k].state = "completed"
        /\ UNCHANGED <<active, pc, key, req, reply, uncertain>>
        /\ todo' = [todo EXCEPT ![c] = @ \ {k}]
        /\ record' = [record EXCEPT ![k] = NoRecord]
        /\ execs' = [execs EXCEPT ![k] = 0]
        /\ answers' = {a \in answers : a[1] # k}
    BY <1>1 DEF PruneRemove, CallInv, Refresh, Write
  <1>3. Gated /\ OneInFlight
    BY <1>1, <1>2 DEF RemovalInv
  <1>4. RecordInv'
    BY <1>1, <1>2 DEF RecordInv, NoRecord
  <1>5. HistoryInv'
    BY <1>1, <1>2 DEF HistoryInv, NoRecord
  <1>6. CallInv(c)'
    BY <1>1, <1>2 DEF CallInv, Owns
  <1>7. \A d \in Calls : d # c => pc'[d] = "idle"
    BY <1>2, <1>3 DEF OneInFlight
  <1>8. ASSUME NEW d \in Calls PROVE CallInv(d)'
    <2>1. CASE d = c
      BY <1>6, <2>1
    <2>2. CASE d # c
      BY <1>7, <2>2 DEF CallInv
    <2>3. QED
      BY <2>1, <2>2
  <1>9. ClaimInv' /\ RemovalInv'
    BY <1>1, <1>2, <1>3 DEF ClaimInv, RemovalInv, OneInFlight
  <1>10. QED
    BY <1>4, <1>5, <1>8, <1>9 DEF IInv, CallsInv

\* What a client is told at the end of a call is what the record says.
LEMMA InvDeactivate ==
    ASSUME TypeOK, IInv, NEW c \in Calls, Deactivate(c)
    PROVE  StepInv(c)'
  <1>1. RecordInv /\ HistoryInv /\ CallInv(c)
    BY DEF IInv, CallsInv
  <1> USE DEF TypeOK
  <1>2. /\ pc[c] = "deactivate" /\ Goto(c, "idle")
        /\ UNCHANGED <<record, key, req, todo, execs>>
    BY DEF Deactivate
  <1>3. RecordInv'
    BY <1>1, <1>2 DEF RecordInv
  <1>4. \A k \in uncertain' : record[k].state = "in_progress"
    BY <1>1, <1>2 DEF Deactivate, HistoryInv, CallInv
  <1>5. \A a \in answers' : /\ record[a[1]].state = "completed"
                            /\ record[a[1]].req = a[2]
                            /\ record[a[1]].result = a[3]
    <2>1. CASE reply[c].code = "result"
      BY <1>1, <1>2, <2>1 DEF Deactivate, HistoryInv, CallInv, Owns
    <2>2. CASE reply[c].code # "result"
      BY <1>1, <2>2 DEF Deactivate, HistoryInv
    <2>3. QED
      BY <2>1, <2>2
  <1>6. HistoryInv'
    BY <1>2, <1>4, <1>5 DEF HistoryInv
  <1>7. CallInv(c)'
    BY <1>2 DEF CallInv, Goto
  <1>8. QED
    BY <1>3, <1>6, <1>7 DEF StepInv

\* A call claims a key that no other call has; behind the gate it is admitted
\* when no other is in flight.  The environment's steps end all calls or touch
\* only locks and the clock.
LEMMA InvOther ==
    ASSUME KeyedMutationAssumption, TypeOK, IInv,
           \/ \E c \in Calls, k \in Keys, r \in Requests : Activate(c, k, r)
           \/ \E c \in Calls, k \in Keys : RejectActive(c, k)
           \/ Crash
           \/ \E k \in Keys : CliLock(k) \/ CliUnlock(k)
           \/ TimePasses
           \/ UNCHANGED vars
    PROVE  IInv'
  <1>1. RecordInv /\ HistoryInv /\ ClaimInv /\ RemovalInv /\ CallsInv
    BY DEF IInv
  <1> USE DEF TypeOK
  <1>2. UNCHANGED <<record, history>>
    BY DEF Activate, RejectActive, Crash, CliLock, CliUnlock, TimePasses,
           storeVars, vars
  <1>3. RecordInv' /\ HistoryInv'
    BY <1>1, <1>2, QuietStep
  <1>4. clock <= MaxClock => clock' <= MaxClock
    BY DEF KeyedMutationAssumption, Activate, RejectActive, Crash, CliLock,
           CliUnlock, TimePasses, bounds, vars
  <1>5. ASSUME NEW c \in Calls, NEW k \in Keys, NEW r \in Requests,
               Activate(c, k, r)
        PROVE  IInv'
    <2>1. /\ pc[c] = "idle" /\ k \notin active /\ active' = active \cup {k}
          /\ pc' = [pc EXCEPT ![c] = "lock"] /\ key' = [key EXCEPT ![c] = k]
          /\ req' = [req EXCEPT ![c] = r] /\ UNCHANGED <<reply, todo>>
          /\ Gated => \A d \in Calls : pc[d] = "idle"
      BY <1>5 DEF Activate, Admit, Goto
    <2>2. ClaimInv'
      BY <1>1, <2>1 DEF ClaimInv
    <2>3. RemovalInv'
      BY <1>1, <1>4, <2>1 DEF RemovalInv, OneInFlight
    <2>4. ASSUME NEW d \in Calls PROVE CallInv(d)'
      <3>1. CASE d = c
        BY <2>1, <3>1 DEF CallInv
      <3>2. CASE d # c
        BY <1>1, <1>2, <2>1, <3>2 DEF CallsInv, CallInv, Owns, history
      <3>3. QED
        BY <3>1, <3>2
    <2>5. QED
      BY <1>3, <2>2, <2>3, <2>4 DEF IInv, CallsInv
  <1>6. CASE Crash
    <2>1. \A d \in Calls : pc'[d] = "idle"
      BY <1>6 DEF Crash
    <2>2. QED
      BY <1>1, <1>3, <1>4, <2>1
         DEF IInv, ClaimInv, RemovalInv, OneInFlight, CallsInv, CallInv
  <1>7. CASE UNCHANGED <<active, callVars>>
    <2>1. UNCHANGED <<active, pc, key, req, reply, todo, record, execs, uncertain>>
      BY <1>2, <1>7 DEF callVars, history
    <2>2. ClaimInv' /\ RemovalInv'
      BY <1>1, <1>4, <2>1 DEF ClaimInv, RemovalInv, OneInFlight
    <2>3. CallsInv'
      BY <1>1, <2>1 DEF CallsInv, CallInv, Owns
    <2>4. QED
      BY <1>3, <2>2, <2>3 DEF IInv
  <1>8. QED
    BY <1>5, <1>6, <1>7
       DEF RejectActive, CliLock, CliUnlock, TimePasses, vars, storeVars

\* The invariant is inductive behind the gate, and where nothing is pruned.
LEMMA InvNext ==
    ASSUME Gated \/ NeverPrunes PROVE TypeOK /\ IInv /\ [Next]_vars => IInv'
  <1> SUFFICES ASSUME TypeOK, IInv, [Next]_vars PROVE IInv'
    OBVIOUS
  <1>1. ASSUME NEW c \in Calls, Step(c) \/ StepFails(c),
               ~ \E k \in Keys : PruneRemove(c, k)
        PROVE  IInv'
    <2>1. StepInv(c)'
      BY <1>1, InvQuietSteps, InvLoopSteps, InvPublish, InvNative, InvPanics,
         InvComplete, InvDeactivate
         DEF Step, StepFails
    <2>2. pc[c] # "idle" /\ OwnStep(c)
      BY <1>1, StepIsOwn
    <2>3. RemovalInv'
      BY <1>1, <2>2, RemovalStep, KeyedMutationAssumption DEF IInv
    <2>4. ClaimInv' /\ CallsInv'
      BY <2>1, <2>2, OtherCalls DEF IInv, StepInv
    <2>5. QED
      BY <2>1, <2>3, <2>4 DEF IInv, StepInv
  <1>2. QED
    BY <1>1, InvPruneRemove, InvOther, KeyedMutationAssumption DEF Next

\* The invariant implies the four safety properties the runs check.
LEMMA InvImpliesSafety ==
    TypeOK /\ IInv =>
      AtMostOnce /\ EffectIsRecorded /\ AnswersAgree /\ UncertainIsFinal
  <1> SUFFICES ASSUME TypeOK, IInv
               PROVE  /\ AtMostOnce /\ EffectIsRecorded
                      /\ AnswersAgree /\ UncertainIsFinal
    OBVIOUS
  <1>1. AtMostOnce /\ EffectIsRecorded
    BY DEF TypeOK, Record, IInv, RecordInv, AtMostOnce, EffectIsRecorded
  <1>2. AnswersAgree
    BY DEF TypeOK, IInv, HistoryInv, AnswersAgree
  <1>3. UncertainIsFinal
    BY DEF IInv, HistoryInv, UncertainIsFinal
  <1>4. QED
    BY <1>1, <1>2, <1>3

\* Behind the call gate, and without it where nothing is pruned, the inductive
\* invariant holds in every reachable state.
THEOREM InvHolds ==
    ASSUME Gated \/ NeverPrunes PROVE Spec => [](TypeOK /\ IInv)
  BY InvInit, InvNext, TypeInit, TypeNext, PTL DEF Spec

\* A native mutation runs at most once under a retained key, whatever crashes,
\* I/O errors and retries happen: behind the call gate, and for calls that
\* overlap as long as nothing is pruned.
THEOREM AtMostOnceHolds ==
    ASSUME Gated \/ NeverPrunes PROVE Spec => []AtMostOnce
  BY InvHolds, InvImpliesSafety, PTL

\* No crash point loses the evidence of an execution, under the same condition.
THEOREM EffectIsRecordedHolds ==
    ASSUME Gated \/ NeverPrunes PROVE Spec => []EffectIsRecorded
  BY InvHolds, InvImpliesSafety, PTL

\* All results given for a retained key agree, under the same condition.
THEOREM AnswersAgreeHolds ==
    ASSUME Gated \/ NeverPrunes PROVE Spec => []AnswersAgree
  BY InvHolds, InvImpliesSafety, PTL

\* An uncertain outcome is never revised, under the same condition.
THEOREM UncertainIsFinalHolds ==
    ASSUME Gated \/ NeverPrunes PROVE Spec => []UncertainIsFinal
  BY InvHolds, InvImpliesSafety, PTL

-----------------------------------------------------------------------------
(* The promise of IdempotentKeys is implemented.                           *)

\* What the promise sees of a record.
Seen(r) == [state |-> r.state, req |-> r.req, result |-> r.result]

\* A write of one record is one change of one entry.
LEMMA EntryWrite ==
    ASSUME NEW k \in Keys, NEW r, record \in [Keys -> Record],
           record' = [record EXCEPT ![k] = r]
    PROVE  [j \in Keys |-> Seen(record[j])]' =
             [[j \in Keys |-> Seen(record[j])] EXCEPT ![k] = Seen(r)]
  BY DEF Seen

\* The initial store is the initial promise.
LEMMA InitRefines == Init => Promise!Init
  BY DEF Init, Promise!Init, Promise!Fresh, NoRecord

\* Every step is a step of the promise or leaves it alone.
LEMMA NextRefines ==
    ASSUME TypeOK, IInv, [Next]_vars
    PROVE  [Promise!Next]_(Promise!vars)
  <1> DEFINE entry == [k \in Keys |-> Seen(record[k])]
  <1>1. RecordInv /\ \A c \in Calls : CallInv(c)
    BY DEF IInv, CallsInv
  <1>2. UNCHANGED <<record, execs>> => UNCHANGED Promise!vars
    BY DEF Promise!vars
  <1>3. ASSUME NEW c \in Calls, pc[c] = "publish",
               record' = [record EXCEPT ![key[c]] = InProgress(req[c])],
               UNCHANGED execs
        PROVE  Promise!Next
    <2>1. /\ key[c] \in Keys /\ req[c] \in Requests
          /\ Seen(record[key[c]]) = Promise!Fresh
      BY <1>1, <1>3 DEF TypeOK, CallInv, RecordInv, Seen, Promise!Fresh
    <2>2. entry' = [entry EXCEPT ![key[c]] = Promise!Claimed(req[c])]
      BY <1>3, <2>1, EntryWrite DEF TypeOK, Seen, InProgress, Promise!Claimed
    <2>3. Promise!Claim(key[c], req[c])
      BY <1>3, <2>1, <2>2 DEF Promise!Claim, Seen
    <2>4. QED
      BY <2>1, <2>3 DEF Promise!Next, Promise!Claim
  <1>4. ASSUME NEW c \in Calls, NEW v \in Results, DispatchNative(c, v)
        PROVE  Promise!Next
    <2>1. pc[c] \in {"native", "scan"} /\ UNCHANGED record
      BY <1>4 DEF DispatchNative, NativeReady, storeVars
    <2>2. /\ key[c] \in Keys /\ req[c] \in Requests
          /\ Owns(c, "in_progress") /\ execs[key[c]] = 0
          /\ record[key[c]].result = NoResult
      BY <1>1, <2>1 DEF TypeOK, CallInv, RecordInv, Owns
    <2>3. execs[key[c]] + 1 = 1
      BY <2>2
    <2>4. execs' = [execs EXCEPT ![key[c]] = 1]
      BY <1>4, <2>3 DEF DispatchNative
    <2>5. Promise!Effect(key[c], req[c])
      BY <2>1, <2>2, <2>4 DEF Promise!Effect, Promise!Claimed, Owns
    <2>6. QED
      BY <2>2, <2>5 DEF Promise!Next
  <1>5. ASSUME NEW c \in Calls, DispatchPanics(c)
         PROVE  Promise!Next \/ UNCHANGED <<record, execs>>
    <2>1. pc[c] \in {"native", "scan"} /\ UNCHANGED record
      BY <1>5 DEF DispatchPanics, NativeReady, storeVars
    <2>2. /\ key[c] \in Keys /\ req[c] \in Requests
          /\ Owns(c, "in_progress") /\ execs[key[c]] = 0
          /\ record[key[c]].result = NoResult
      BY <1>1, <2>1 DEF TypeOK, CallInv, RecordInv, Owns
    <2>3. execs[key[c]] + 1 = 1
      BY <2>2
    <2>4. CASE execs' = [execs EXCEPT ![key[c]] = @ + 1]
      <3>1. execs' = [execs EXCEPT ![key[c]] = 1]
        BY <2>3, <2>4
      <3>2. Promise!Effect(key[c], req[c])
        BY <2>1, <2>2, <3>1 DEF Promise!Effect, Promise!Claimed, Owns
      <3>3. QED
        BY <2>2, <3>2 DEF Promise!Next
    <2>5. CASE UNCHANGED execs
      BY <2>1, <2>5
    <2>6. QED
      BY <1>5, <2>4, <2>5 DEF DispatchPanics
  <1>6. ASSUME NEW c \in Calls, pc[c] = "complete",
               record' = [record EXCEPT ![key[c]] =
                                   Completed(req[c], reply[c].value)],
               UNCHANGED execs
        PROVE  Promise!Next
    <2>1. /\ key[c] \in Keys /\ req[c] \in Requests
          /\ reply[c].value \in Results /\ execs[key[c]] = 1
          /\ Seen(record[key[c]]) = Promise!Claimed(req[c])
      BY <1>1, <1>6
         DEF TypeOK, CallInv, RecordInv, Owns, Seen, Promise!Claimed
    <2>2. entry' = [entry EXCEPT ![key[c]] =
                              Promise!Settled(req[c], reply[c].value)]
      BY <1>6, <2>1, EntryWrite DEF TypeOK, Seen, Completed, Promise!Settled
    <2>3. Promise!Settle(key[c], req[c], reply[c].value)
      BY <1>6, <2>1, <2>2 DEF Promise!Settle, Seen
    <2>4. QED
      BY <2>1, <2>3 DEF Promise!Next, Promise!Settle
  <1>7. ASSUME NEW c \in Calls, NEW k \in Keys, PruneRemove(c, k)
        PROVE  Promise!Next
    <2>1. pc[c] = "remove" /\ k \in todo[c]
          /\ record' = [record EXCEPT ![k] = NoRecord]
      BY <1>7 DEF PruneRemove, Write
    <2>2. record[k].state = "completed"
      BY <1>1, <2>1 DEF CallInv
    <2>3. execs' = [execs EXCEPT ![k] = 0]
      BY <1>7, <2>2 DEF PruneRemove, Refresh
    <2>4. /\ record[k].req \in Requests /\ record[k].result \in Results
          /\ Seen(record[k]) = Promise!Settled(record[k].req, record[k].result)
      BY <1>1, <2>2 DEF RecordInv, Seen, Promise!Settled
    <2>5. entry' = [entry EXCEPT ![k] = Promise!Fresh]
      BY <2>1, EntryWrite DEF TypeOK, Seen, NoRecord, Promise!Fresh
    <2>6. Promise!Expire(k, record[k].req, record[k].result)
      BY <2>3, <2>4, <2>5 DEF Promise!Expire, Seen
    <2>7. QED
      BY <2>4, <2>6 DEF Promise!Next, Promise!Expire
  <1>8. ASSUME NEW c \in Calls, Step(c) \/ StepFails(c)
        PROVE  Promise!Next \/ UNCHANGED <<record, execs>>
    <2>1. CASE \/ Lock(c) \/ LockFails(c) \/ BeginForget(c) \/ ScanVisit(c)
               \/ ScanFails(c) \/ PruneScan(c) \/ PruneDone(c) \/ Unlock(c)
               \/ Deactivate(c) \/ ReadNotFound(c)
      BY <2>1 DEF Lock, LockFails, BeginForget, ScanVisit, ScanFails, PruneScan,
                  PruneDone, Unlock, Deactivate, ReadNotFound, storeVars, history
    <2>2. CASE \/ ReadConflict(c) \/ ReadCompleted(c) \/ ReadInProgress(c)
               \/ ReadFails(c)
      BY <2>2 DEF ReadConflict, ReadCompleted, ReadInProgress, ReadFails, Decide,
                  storeVars, history
    <2>3. CASE PublishInProgress(c) \/ PublishInProgressFails(c)
      BY <1>3, <2>3 DEF PublishInProgress, PublishInProgressFails, Write,
                        WriteFails, history
    <2>4. CASE Complete(c) \/ CompleteFails(c)
      BY <1>6, <2>4 DEF Complete, CompleteFails, Write, WriteFails, history
    <2>5. ASSUME NEW k \in Keys,
                 ScanSkip(c, k) \/ ScanEnter(c, k) \/ PruneRemoveFails(c, k)
          PROVE  UNCHANGED <<record, execs>>
      BY <2>5 DEF ScanSkip, ScanEnter, PruneRemoveFails, storeVars, history
    <2>6. QED
      BY <1>4, <1>7, <1>8, <1>5, <2>1, <2>2, <2>3, <2>4, <2>5 DEF Step, StepFails
  <1>9. \/ \E c \in Calls : Step(c) \/ StepFails(c)
        \/ UNCHANGED <<record, execs>>
    BY DEF Next, Activate, RejectActive, Crash, CliLock, CliUnlock, TimePasses,
           storeVars, history, vars
  <1>10. QED
    BY <1>2, <1>8, <1>9

\* The keyed mutation protocol implements the abstract idempotency keys: claims,
\* effects, settlements and expiries happen in that order, whatever crashes,
\* faults and concurrent commands do.  So it is behind the call gate, and for
\* calls that overlap as long as nothing is pruned.
THEOREM KeyedMutationImplements ==
    ASSUME Gated \/ NeverPrunes PROVE Spec => ImplementsIdempotentKeys
  <1>1. Init => Promise!Init
    BY InitRefines
  <1>2. TypeOK /\ IInv /\ [Next]_vars => [Promise!Next]_(Promise!vars)
    BY NextRefines
  <1>3. QED
    BY <1>1, <1>2, InvHolds, PTL DEF Spec, ImplementsIdempotentKeys, Promise!Spec

-----------------------------------------------------------------------------
(* A prune restores the bound of the store.                                *)

CompletedKeys == {k \in Keys : record[k].state = "completed"}

\* The completed records that a prune is going to leave.
Spared(c) == CompletedKeys \ ({key[c]} \cup todo[c])

\* Behind the gate only the key of the call in flight is active, so that a prune
\* considers all others; and each record that it leaves beyond MaxRecords is
\* one that it failed to remove.
PruneInv ==
    /\ \A k \in active : \E c \in Calls : pc[c] # "idle" /\ key[c] = k
    /\ IsFiniteSet(CompletedKeys)
    /\ \A c \in Calls : pc[c] = "remove" =>
         Cardinality(Spared(c)) <= MaxRecords + faults

\* No record exists at first, and no call is in flight.
LEMMA PruneInit == Init => PruneInv
  <1> SUFFICES ASSUME Init PROVE PruneInv
    OBVIOUS
  <1>1. CompletedKeys = {}
    BY DEF Init, CompletedKeys, NoRecord
  <1>2. IsFiniteSet(CompletedKeys)
    BY <1>1, FS_EmptySet
  <1>3. QED
    BY <1>2 DEF Init, PruneInv

\* A step of the call in flight that completes no other key than its own and
\* does not lead into the removals of a prune has nothing to account for.
LEMMA PruneElsewhere ==
    ASSUME TypeOK, OneInFlight, PruneInv, NEW c \in Calls, pc[c] # "idle",
           NEW s \in Steps \ {"idle", "remove"}, Goto(c, s),
           UNCHANGED <<active, key>>,
           CompletedKeys' \subseteq CompletedKeys \cup {key[c]}
    PROVE  PruneInv'
  <1>1. \A d \in Calls : pc'[d] = IF d = c THEN s ELSE "idle"
    BY DEF TypeOK, OneInFlight, Goto
  <1>2. \A k \in active' : \E d \in Calls : pc'[d] # "idle" /\ key'[d] = k
    <2> TAKE k \in active'
    <2>1. PICK d \in Calls : pc[d] # "idle" /\ key[d] = k
      BY DEF PruneInv
    <2>2. d = c
      BY <2>1 DEF OneInFlight
    <2>3. QED
      BY <1>1, <2>1, <2>2
  <1>3. IsFiniteSet(CompletedKeys')
    <2>1. IsFiniteSet(CompletedKeys \cup {key[c]})
      BY FS_AddElement DEF PruneInv
    <2>2. QED
      BY <2>1, FS_Subset
  <1>4. \A d \in Calls : pc'[d] # "remove"
    BY <1>1
  <1>5. QED
    BY <1>2, <1>3, <1>4 DEF PruneInv

\* Of n candidates beyond the bound the oldest n - MaxRecords are removed.
LEMMA SurplusLeaves ==
    ASSUME KeyedMutationAssumption, NEW cand, NEW old,
           IsFiniteSet(cand), Surplus(cand, old)
    PROVE  Cardinality(cand \ old) <= MaxRecords
  <1>1. MaxRecords \in Nat
    BY DEF KeyedMutationAssumption
  <1>2. old \in SUBSET cand
    BY DEF Surplus
  <1>3. IsFiniteSet(old) /\ IsFiniteSet(cand \ old)
    BY <1>2, FS_Subset
  <1>4. cand \cap old = old
    BY <1>2
  <1>5. Cardinality(cand \ old) = Cardinality(cand) - Cardinality(old)
    BY <1>4, FS_Difference
  <1>6. Cardinality(cand) \in Nat /\ Cardinality(old) \in Nat
    BY <1>3, FS_CardinalityType
  <1>7. CASE Cardinality(cand) > MaxRecords
    <2>1. Cardinality(old) = Cardinality(cand) - MaxRecords
      BY <1>7 DEF Surplus
    <2>2. QED
      BY <1>1, <1>5, <1>6, <2>1
  <1>8. CASE ~(Cardinality(cand) > MaxRecords)
    <2>1. Cardinality(old) = 0
      BY <1>8 DEF Surplus
    <2>2. QED
      BY <1>1, <1>5, <1>6, <1>8, <2>1
  <1>9. QED
    BY <1>7, <1>8

\* The scan of a prune spares at most MaxRecords records of other keys.
LEMMA PruneScanKeeps ==
    ASSUME KeyedMutationAssumption, TypeOK, OneInFlight, PruneInv,
           NEW c \in Calls, PruneScan(c)
    PROVE  PruneInv'
  <1>1. PICK old \in SUBSET Candidates(c) :
             /\ Surplus(Candidates(c), old)
             /\ todo' = [todo EXCEPT ![c] = old \cup Expired(Candidates(c))]
    BY DEF PruneScan
  <1>2. /\ pc[c] = "prune" /\ pc' = [pc EXCEPT ![c] = "remove"]
        /\ UNCHANGED <<active, key, record, faults>>
    BY DEF PruneScan, Goto, storeVars, bounds
  <1>3. \A d \in Calls : pc'[d] = IF d = c THEN "remove" ELSE "idle"
    BY <1>2 DEF TypeOK, OneInFlight
  <1>4. \A k \in active : k = key[c]
    BY <1>2 DEF PruneInv, OneInFlight
  <1>5. Candidates(c) = CompletedKeys \ {key[c]}
    BY <1>4 DEF Candidates, CompletedKeys
  <1>6. CompletedKeys' = CompletedKeys
    BY <1>2 DEF CompletedKeys
  <1>7. IsFiniteSet(CompletedKeys) /\ IsFiniteSet(Candidates(c))
    BY <1>5, FS_Subset DEF PruneInv
  <1>8. Cardinality(Candidates(c) \ old) <= MaxRecords
    BY <1>1, <1>7, SurplusLeaves
  <1>9. Spared(c)' \in SUBSET (Candidates(c) \ old)
    <2>1. todo'[c] = old \cup Expired(Candidates(c))
      BY <1>1 DEF TypeOK
    <2>2. Spared(c)' = CompletedKeys \ ({key[c]} \cup todo'[c])
      BY <1>2, <1>6 DEF Spared
    <2>3. QED
      BY <1>5, <2>1, <2>2
  <1>10. IsFiniteSet(Candidates(c) \ old)
    BY <1>7, FS_Subset
  <1>11. /\ Cardinality(Spared(c)') <= Cardinality(Candidates(c) \ old)
         /\ IsFiniteSet(Spared(c)')
    BY <1>9, <1>10, FS_Subset
  <1>12. Cardinality(Spared(c)') \in Nat /\ Cardinality(Candidates(c) \ old) \in Nat
    BY <1>10, <1>11, FS_CardinalityType
  <1>13. Cardinality(Spared(c)') <= MaxRecords + faults'
    <2>1. MaxRecords \in Nat /\ faults' \in Nat
      BY <1>2 DEF KeyedMutationAssumption, TypeOK
    <2>2. QED
      BY <1>8, <1>11, <1>12, <2>1
  <1>14. \A k \in active' : \E d \in Calls : pc'[d] # "idle" /\ key'[d] = k
    BY <1>2, <1>3, <1>4
  <1>15. \A d \in Calls : pc'[d] = "remove" =>
           Cardinality(Spared(d)') <= MaxRecords + faults'
    BY <1>3, <1>13
  <1>16. QED
    BY <1>6, <1>7, <1>14, <1>15 DEF PruneInv

\* A removal leaves the spared records alone; one that fails adds its key.
LEMMA PruneRemoveKeeps ==
    ASSUME KeyedMutationAssumption, TypeOK, OneInFlight, PruneInv,
           NEW c \in Calls, NEW k \in Keys,
           PruneRemove(c, k) \/ PruneRemoveFails(c, k)
    PROVE  PruneInv'
  <1>1. /\ pc[c] = "remove" /\ UNCHANGED <<active, key, pc>>
        /\ todo' = [todo EXCEPT ![c] = todo[c] \ {k}]
    BY DEF PruneRemove, PruneRemoveFails
  <1>2. \A d \in Calls : pc'[d] = "remove" => d = c
    BY <1>1 DEF OneInFlight
  <1>3. CompletedKeys' \in SUBSET CompletedKeys
    BY DEF PruneRemove, PruneRemoveFails, Write, NoRecord, CompletedKeys, TypeOK
  <1>4. IsFiniteSet(CompletedKeys')
    BY <1>3, FS_Subset DEF PruneInv
  <1>5. Spared(c) \in SUBSET CompletedKeys
    BY DEF Spared
  <1>6. IsFiniteSet(Spared(c)) /\ Cardinality(Spared(c)) \in Nat
    BY <1>5, FS_Subset, FS_CardinalityType DEF PruneInv
  <1>7. Cardinality(Spared(c)) <= MaxRecords + faults
    BY <1>1 DEF PruneInv
  <1>8. MaxRecords \in Nat /\ faults \in Nat
    BY DEF KeyedMutationAssumption, TypeOK
  <1>9. todo'[c] = todo[c] \ {k}
    BY <1>1 DEF TypeOK
  <1>10. Cardinality(Spared(c)') <= MaxRecords + faults'
    <2>1. CASE PruneRemove(c, k)
      <3>1. k \notin CompletedKeys'
        BY <2>1 DEF PruneRemove, Write, NoRecord, CompletedKeys, TypeOK
      <3>2. Spared(c)' \in SUBSET Spared(c)
        BY <1>1, <1>3, <1>9, <3>1 DEF Spared
      <3>3. Cardinality(Spared(c)') <= Cardinality(Spared(c))
        BY <1>6, <3>2, FS_Subset
      <3>4. Cardinality(Spared(c)') \in Nat
        BY <1>6, <3>2, FS_Subset, FS_CardinalityType
      <3>5. faults' = faults
        BY <2>1 DEF PruneRemove, bounds
      <3>6. QED
        BY <1>6, <1>7, <1>8, <3>3, <3>4, <3>5
    <2>2. CASE PruneRemoveFails(c, k)
      <3>1. Spared(c)' \in SUBSET (Spared(c) \cup {k})
        BY <1>1, <1>3, <1>9 DEF Spared
      <3>2. /\ IsFiniteSet(Spared(c) \cup {k})
            /\ Cardinality(Spared(c) \cup {k}) =
                 IF k \in Spared(c) THEN Cardinality(Spared(c))
                 ELSE Cardinality(Spared(c)) + 1
        BY <1>6, FS_AddElement
      <3>3. Cardinality(Spared(c)') <= Cardinality(Spared(c) \cup {k})
        BY <3>1, <3>2, FS_Subset
      <3>4. Cardinality(Spared(c)') \in Nat
        BY <3>1, <3>2, FS_Subset, FS_CardinalityType
      <3>5. faults' = faults + 1
        BY <2>2 DEF PruneRemoveFails, Fault
      <3>6. QED
        BY <1>6, <1>7, <1>8, <3>2, <3>3, <3>4, <3>5
    <2>3. QED
      BY <2>1, <2>2
  <1>11. \A j \in active' : \E d \in Calls : pc'[d] # "idle" /\ key'[d] = j
    BY <1>1 DEF PruneInv
  <1>12. \A d \in Calls : pc'[d] = "remove" =>
           Cardinality(Spared(d)') <= MaxRecords + faults'
    BY <1>2, <1>10
  <1>13. QED
    BY <1>4, <1>11, <1>12 DEF PruneInv

\* Every step of a call keeps the account of its prune.
LEMMA PruneStep ==
    ASSUME KeyedMutationAssumption, Gated, TypeOK, IInv, PruneInv,
           NEW c \in Calls, Step(c) \/ StepFails(c)
    PROVE  PruneInv'
  <1>1. OneInFlight
    BY DEF IInv, RemovalInv
  <1> USE DEF Steps
  <1>2. CASE \/ Lock(c) \/ LockFails(c) \/ ReadConflict(c) \/ ReadCompleted(c)
             \/ ReadInProgress(c) \/ ReadFails(c) \/ ReadNotFound(c)
    <2>1. /\ pc[c] # "idle" /\ UNCHANGED <<active, key, record>>
          /\ Goto(c, "read") \/ Goto(c, "deactivate") \/ Goto(c, "unlock")
             \/ Goto(c, "publish")
      BY <1>2 DEF Lock, LockFails, ReadConflict, ReadCompleted, ReadInProgress,
                  ReadFails, ReadNotFound, Decide, storeVars
    <2>2. CompletedKeys' \subseteq CompletedKeys \cup {key[c]}
      BY <2>1 DEF CompletedKeys
    <2>3. QED
      BY <1>1, <2>1, <2>2, PruneElsewhere
  <1>3. CASE \/ BeginForget(c) \/ ScanVisit(c) \/ ScanFails(c) \/ PruneDone(c)
             \/ Unlock(c) \/ DispatchPanics(c)
             \/ \E v \in Results : DispatchNative(c, v)
    <2>1. /\ pc[c] # "idle" /\ UNCHANGED <<active, key, record>>
          /\ Goto(c, "scan") \/ Goto(c, "deactivate") \/ Goto(c, "unlock")
             \/ Goto(c, "complete")
      BY <1>3 DEF BeginForget, ScanVisit, ScanFails, PruneDone, Unlock,
                  DispatchPanics, DispatchNative, NativeReady, storeVars
    <2>2. CompletedKeys' \subseteq CompletedKeys \cup {key[c]}
      BY <2>1 DEF CompletedKeys
    <2>3. QED
      BY <1>1, <2>1, <2>2, PruneElsewhere
  <1>4. ASSUME NEW k \in Keys, ScanSkip(c, k) \/ ScanEnter(c, k)
        PROVE  PruneInv'
    <2>1. /\ pc[c] # "idle" /\ UNCHANGED <<active, key, record>>
          /\ Goto(c, "scan") \/ Goto(c, "scanlock")
      BY <1>4 DEF ScanSkip, ScanEnter, Goto, storeVars, TypeOK
    <2>2. CompletedKeys' \subseteq CompletedKeys \cup {key[c]}
      BY <2>1 DEF CompletedKeys
    <2>3. QED
      BY <1>1, <2>1, <2>2, PruneElsewhere
  <1>5. CASE \/ PublishInProgress(c) \/ PublishInProgressFails(c)
             \/ Complete(c) \/ CompleteFails(c)
    <2>1. /\ pc[c] # "idle" /\ UNCHANGED <<active, key>>
          /\ Goto(c, "native") \/ Goto(c, "prune") \/ Goto(c, "unlock")
      BY <1>5 DEF PublishInProgress, PublishInProgressFails, Complete,
                  CompleteFails
    <2>2. \/ UNCHANGED record
          \/ \E r \in {InProgress(req[c]), Completed(req[c], reply[c].value)} :
               record' = [record EXCEPT ![key[c]] = r]
      BY <1>5 DEF PublishInProgress, PublishInProgressFails, Complete,
                  CompleteFails, Write, WriteFails
    <2>3. CompletedKeys' \subseteq CompletedKeys \cup {key[c]}
      BY <2>2 DEF CompletedKeys, TypeOK
    <2>4. QED
      BY <1>1, <2>1, <2>3, PruneElsewhere
  <1>6. CASE Deactivate(c)
    <2>1. /\ pc[c] # "idle" /\ active' = active \ {key[c]}
          /\ pc' = [pc EXCEPT ![c] = "idle"] /\ UNCHANGED record
      BY <1>6 DEF Deactivate, Goto
    <2>2. \A k \in active : k = key[c]
      BY <1>1, <2>1 DEF PruneInv, OneInFlight
    <2>3. active' = {} /\ \A d \in Calls : pc'[d] = "idle"
      BY <1>1, <2>1, <2>2 DEF TypeOK, OneInFlight
    <2>4. CompletedKeys' = CompletedKeys
      BY <2>1 DEF CompletedKeys
    <2>5. QED
      BY <2>3, <2>4 DEF PruneInv
  <1>7. QED
    BY <1>1, <1>2, <1>3, <1>4, <1>5, <1>6, PruneScanKeeps, PruneRemoveKeeps
       DEF Step, StepFails

\* Behind the gate a call claims its key when no other claim is left, and the
\* environment changes neither the claims nor the records.
LEMMA PruneOther ==
    ASSUME Gated, TypeOK, PruneInv,
           \/ \E c \in Calls, k \in Keys, r \in Requests : Activate(c, k, r)
           \/ \E c \in Calls, k \in Keys : RejectActive(c, k)
           \/ Crash
           \/ \E k \in Keys : CliLock(k) \/ CliUnlock(k)
           \/ TimePasses
           \/ UNCHANGED vars
    PROVE  PruneInv'
  <1>1. UNCHANGED <<record, faults>>
    BY DEF Activate, RejectActive, Crash, CliLock, CliUnlock, TimePasses,
           storeVars, bounds, vars
  <1>2. CompletedKeys' = CompletedKeys
    BY <1>1 DEF CompletedKeys
  <1>3. ASSUME NEW c \in Calls, NEW k \in Keys, NEW r \in Requests,
               Activate(c, k, r)
        PROVE  PruneInv'
    <2>1. active = {}
      BY <1>3 DEF Activate, Admit, PruneInv
    <2>2. /\ active' = {k} /\ key'[c] = k
          /\ \A d \in Calls : pc'[d] = IF d = c THEN "lock" ELSE "idle"
      BY <1>3, <2>1 DEF Activate, Admit, Goto, TypeOK
    <2>3. QED
      BY <1>2, <2>2 DEF PruneInv
  <1>4. CASE Crash
    <2>1. active' = {} /\ \A d \in Calls : pc'[d] = "idle"
      BY <1>4 DEF Crash
    <2>2. QED
      BY <1>2, <2>1 DEF PruneInv
  <1>5. CASE UNCHANGED <<active, callVars>>
    <2>1. UNCHANGED <<active, pc, key, todo>>
      BY <1>5 DEF callVars
    <2>2. \A c \in Calls : Spared(c)' = Spared(c)
      BY <1>2, <2>1 DEF Spared
    <2>3. QED
      BY <1>1, <1>2, <2>1, <2>2 DEF PruneInv
  <1>6. QED
    BY <1>3, <1>4, <1>5
       DEF RejectActive, CliLock, CliUnlock, TimePasses, vars, storeVars

\* The account of the prunes is inductive behind the gate.
LEMMA PruneNext ==
    ASSUME Gated PROVE TypeOK /\ IInv /\ PruneInv /\ [Next]_vars => PruneInv'
  BY KeyedMutationAssumption, PruneStep, PruneOther DEF Next

\* A prune that has nothing left to remove has spared all the records that
\* remain, but for that of the call itself.
LEMMA PruneEnds ==
    ASSUME TypeOK, IInv, PruneInv, [Next]_vars, NEW c \in Calls,
           pc[c] = "remove", pc'[c] = "unlock"
    PROVE  Cardinality(CompletedKeys) <= MaxRecords + 1 + faults
  <1>1. PruneDone(c)
    <2>1. ASSUME NEW d \in Calls, Step(d) \/ StepFails(d), ~PruneDone(c)
          PROVE  FALSE
      <3>1. d = c \/ pc'[c] = pc[c]
        BY <2>1
           DEF Step, StepFails, Lock, ReadConflict, ReadCompleted,
               ReadInProgress, ReadNotFound, Decide, PublishInProgress,
               BeginForget, ScanVisit, ScanSkip, ScanEnter, DispatchNative,
               Complete, PruneScan, PruneDone, PruneRemove, Unlock, Deactivate,
               LockFails, ReadFails, PublishInProgressFails, ScanFails,
               DispatchPanics, CompleteFails, PruneRemoveFails, Goto, TypeOK
      <3>2. QED
        BY <2>1, <3>1
           DEF Step, StepFails, Lock, ReadConflict, ReadCompleted,
               ReadInProgress, ReadNotFound, Decide, PublishInProgress,
               BeginForget, ScanVisit, ScanSkip, ScanEnter, DispatchNative,
               NativeReady, Complete, PruneScan, PruneRemove, Unlock,
               Deactivate, LockFails, ReadFails, PublishInProgressFails,
               ScanFails, DispatchPanics, CompleteFails, PruneRemoveFails
    <2>2. ASSUME NEW d \in Calls, NEW k \in Keys, NEW r \in Requests,
                 Activate(d, k, r)
          PROVE  FALSE
      BY <2>2 DEF Activate, Goto, TypeOK
    <2>3. ~Crash
      BY DEF Crash
    <2>4. ~UNCHANGED pc
      OBVIOUS
    <2>5. QED
      BY <2>1, <2>2, <2>3, <2>4
         DEF Next, RejectActive, CliLock, CliUnlock, TimePasses, callVars, vars
  <1>2. todo[c] = {}
    BY <1>1 DEF PruneDone
  <1>3. CompletedKeys \in SUBSET (Spared(c) \cup {key[c]})
    BY <1>2 DEF Spared
  <1>4. Spared(c) \in SUBSET CompletedKeys
    BY DEF Spared
  <1>5. IsFiniteSet(Spared(c)) /\ Cardinality(Spared(c)) \in Nat
    BY <1>4, FS_Subset, FS_CardinalityType DEF PruneInv
  <1>6. /\ IsFiniteSet(Spared(c) \cup {key[c]})
        /\ Cardinality(Spared(c) \cup {key[c]}) =
             IF key[c] \in Spared(c) THEN Cardinality(Spared(c))
             ELSE Cardinality(Spared(c)) + 1
    BY <1>5, FS_AddElement
  <1>7. /\ Cardinality(CompletedKeys) <= Cardinality(Spared(c) \cup {key[c]})
        /\ Cardinality(CompletedKeys) \in Nat
    BY <1>3, <1>6, FS_Subset, FS_CardinalityType
  <1>8. Cardinality(Spared(c)) <= MaxRecords + faults
    BY DEF PruneInv
  <1>9. MaxRecords \in Nat /\ faults \in Nat
    BY KeyedMutationAssumption DEF KeyedMutationAssumption, TypeOK
  <1>10. QED
    BY <1>5, <1>6, <1>7, <1>8, <1>9

\* Behind the call gate every prune that ends leaves at most MaxRecords
\* completed records beside that of its own call and those that it failed to
\* remove: the store stays bounded whatever the calls before it left.
THEOREM PruneRestoresBoundHolds ==
    ASSUME Gated PROVE Spec => PruneRestoresBound
  <1>1. Init => PruneInv
    BY PruneInit
  <1>2. TypeOK /\ IInv /\ PruneInv /\ [Next]_vars => PruneInv'
    BY PruneNext
  <1>3. TypeOK /\ IInv /\ PruneInv /\ [Next]_vars =>
          [\A c \in Calls :
             pc[c] = "remove" /\ pc'[c] = "unlock" =>
               Cardinality({k \in Keys : record[k].state = "completed"})
                 <= MaxRecords + 1 + faults]_vars
    BY PruneEnds DEF CompletedKeys
  <1>4. QED
    BY <1>1, <1>2, <1>3, InvHolds, PTL DEF Spec, PruneRestoresBound

=============================================================================
