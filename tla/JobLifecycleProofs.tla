-------------------------- MODULE JobLifecycleProofs --------------------------
(***************************************************************************)
(* Statuses that calls compute from a unit and a file end once, a forgotten*)
(* job runs no more, and a job that met with no accident is accounted for  *)
(* -- for any callers and any jobs.                                        *)
(***************************************************************************)
EXTENDS JobLifecycle, TLAPS

CallSteps == {"idle", "spec", "launch", "await", "result", "kill", "reset", "erase",
              "rmdir"}
Exiting   == {"exits_well", "exits_badly", "gone"}

\* The call c has still to request the unit of its job.
Starts(c)   == op[c] = "start" /\ pc[c] \in {"spec", "launch"}
Starting(j) == \E c \in Callers : Starts(c) /\ jobOf[c] = j

\* Nothing will ever write a result, or run a command, for the job again.
Ended(j) ==
    /\ j \in known /\ ~Starting(j)
    /\ command[j] # "running"
    /\ runner[j] \in Exiting \/ (runner[j] = "none" /\ jobUnit[j] \in {"absent", "failed"})

\* And its unit stays failed or, once it was reset, absent.
Over(j) == Ended(j) /\ runner[j] \in {"none", "gone"} /\ jobUnit[j] \in {"absent", "failed"}

\* The order in which unit, runner, command and result follow each other
JobInv(j) ==
    /\ j \notin known => /\ runner[j] = "none" /\ jobUnit[j] = "absent"
                         /\ command[j] = "none" /\ reported[j] = {}
    /\ j \in known \ withdrawn => jobDir[j] # "none"
    /\ Starting(j) => /\ runner[j] = "none" /\ jobUnit[j] = "absent"
                      /\ command[j] # "running" /\ reported[j] = {}
    /\ jobUnit[j] \in {"requested", "activating"} =>
         runner[j] = "none" /\ command[j] # "running"
    /\ runner[j] \notin {"none", "gone"} => jobUnit[j] = "active"
    /\ runner[j] \in {"none", "boot", "reaped", "exits_well", "exits_badly"} =>
         command[j] # "running"
    /\ jobUnit[j] \in {"absent", "failed"} =>
         runner[j] \in {"none", "gone"} /\ command[j] # "running"
    /\ jobResult[j] # "none" => runner[j] \in Exiting /\ command[j] # "running"
    /\ j \notin withdrawn =>
         \A s \in reported[j] :
           \/ jobResult[j] = s
           \/ s = "failed" /\ jobResult[j] = "none" /\ Over(j)

\* What a call has seen of its job still holds where it relies on it.
CallerInv(c) ==
    /\ pc[c] = "idle" => op[c] = "none" /\ jobOf[c] = NoJob
    /\ pc[c] # "idle" => jobOf[c] \in known
    /\ pc[c] \in {"reset", "erase", "rmdir"} => jobOf[c] \in withdrawn
    /\ pc[c] = "result" /\ ~seen[c].dir => jobOf[c] \in withdrawn
    /\ op[c] = "start" => pc[c] # "result"
    /\ pc[c] # "idle" /\ op[c] # "start" /\ seen[c].unit = "failed" => Over(jobOf[c])
    /\ op[c] = "forget" /\ pc[c] \in {"reset", "erase", "rmdir"} => Ended(jobOf[c])
    /\ op[c] = "forget" /\ pc[c] \in {"erase", "rmdir"} /\ seen[c].unit = "failed" =>
         jobUnit[jobOf[c]] = "absent"

StartInv ==
    \A c, d \in Callers : Starts(c) /\ Starts(d) /\ jobOf[c] = jobOf[d] => c = d

ForgottenInv ==
    \A f \in forgotten :
        /\ f[1] \in Jobs /\ Ended(f[1])
        /\ f[2] = "failed" => jobUnit[f[1]] = "absent"

JInv ==
    /\ JobsTypeOK
    /\ pc \in [Callers -> CallSteps]
    /\ op \in [Callers -> {"none", "start", "look", "signal", "forget"}]
    /\ \A j \in Jobs : JobInv(j)
    /\ \A c \in Callers : CallerInv(c)
    /\ StartInv
    /\ ForgottenInv

\* At first no job exists.
LEMMA JInvInit == CallersInit /\ JobsInit => JInv
<1> SUFFICES ASSUME CallersInit, JobsInit PROVE JInv
  OBVIOUS
<1> USE DEF CallersInit, JobsInit
<1>1. JobsTypeOK
  BY DEF JobsTypeOK, NotSeen, UnitStates
<1>2. /\ pc \in [Callers -> CallSteps]
      /\ op \in [Callers -> {"none", "start", "look", "signal", "forget"}]
  BY DEF CallSteps
<1>3. ASSUME NEW j \in Jobs PROVE JobInv(j)
  BY DEF JobInv, Starting, Starts
<1>4. ASSUME NEW c \in Callers PROVE CallerInv(c)
  BY DEF CallerInv
<1>5. StartInv /\ ForgottenInv
  BY DEF StartInv, ForgottenInv, Starts
<1> QED BY <1>1, <1>2, <1>3, <1>4, <1>5 DEF JInv

\* A step that starts nothing, forgets nothing and keeps what ended keeps the
\* invariants of calls and of forgotten jobs.
LEMMA ProcessFrame ==
  ASSUME JInv, NotByCalls, UNCHANGED jobDir,
         JobsTypeOK',
         \A j \in Jobs : Ended(j) => /\ UNCHANGED jobResult[j]
                                     /\ Ended(j)' /\ (Over(j) => Over(j)')
                                     /\ (jobUnit[j] = "absent" => jobUnit'[j] = "absent"),
         \A j \in Jobs : JobInv(j)'
  PROVE  JInv'
<1> USE DEF NotByCalls, callers
<1>1. ASSUME NEW c \in Callers PROVE CallerInv(c)'
  <2>1. pc[c] # "idle" => jobOf[c] \in Jobs
    BY CallerInv(c) DEF JInv, CallerInv, JobsTypeOK
  <2> QED BY <2>1, CallerInv(c) DEF JInv, CallerInv, Over, Ended, CallSteps
<1>2. StartInv'
  BY DEF JInv, StartInv, Starts
<1>3. ForgottenInv'
  BY DEF JInv, ForgottenInv
<1> QED BY <1>1, <1>2, <1>3 DEF JInv

\* systemd and the runner
LEMMA ProcessKeeps ==
  ASSUME JInv, NEW j \in Jobs, JobStep(j)
  PROVE  JInv'
<1> USE DEF NotByCalls, callers, jobFiles
<1>1. JobInv(j) /\ JobsTypeOK
  BY DEF JInv
<1>2. NotByCalls /\ UNCHANGED <<jobDir, unheard>>
  BY DEF JobStep, UnitStarts, UnitExecutes, RunnerExits, UnitEnds, Boot, Listen,
         JobEnds, TimerFires, Reap, WriteResult, Record
<1>3. \A k \in Jobs : Starting(k)' <=> Starting(k)
  BY <1>2 DEF Starting, Starts
<1> DEFINE Elsewhere ==
      \A k \in Jobs \ {j} : UNCHANGED <<jobUnit[k], runner[k], command[k], jobResult[k]>>
<1>4. ASSUME JobsTypeOK', Elsewhere, JobInv(j)',
             Ended(j) => /\ UNCHANGED jobResult[j]
                         /\ Ended(j)' /\ (Over(j) => Over(j)')
                         /\ (jobUnit[j] = "absent" => jobUnit'[j] = "absent")
      PROVE  JInv'
  <2>1. ASSUME NEW k \in Jobs, k # j
        PROVE  /\ JobInv(k)' /\ (Ended(k)' <=> Ended(k)) /\ (Over(k)' <=> Over(k))
               /\ UNCHANGED <<jobResult[k], jobUnit[k]>>
    <3>1. UNCHANGED <<jobUnit[k], runner[k], command[k], jobResult[k], jobDir[k],
                      reported[k], known, withdrawn>>
      BY <1>2, <1>4, <2>1
    <3>2. (Ended(k)' <=> Ended(k)) /\ (Over(k)' <=> Over(k))
      BY <1>3, <3>1 DEF Ended, Over
    <3>3. JobInv(k)
      BY DEF JInv
    <3> QED BY <1>3, <3>1, <3>2, <3>3 DEF JobInv
  <2> QED BY <1>2, <1>4, <2>1, ProcessFrame
<1> HIDE DEF Elsewhere
<1>5. CASE UnitStarts(j) \/ UnitExecutes(j) \/ RunnerExits(j) \/ UnitEnds(j)
  <2> USE DEF UnitStarts, UnitExecutes, RunnerExits, UnitEnds
  <2>1. JobsTypeOK'
    BY <1>1, <1>5 DEF JobsTypeOK, UnitStates
  <2>2. Elsewhere
    BY <1>1, <1>5 DEF JobsTypeOK, Elsewhere
  <2>3. Ended(j) => /\ UNCHANGED jobResult[j]
                    /\ Ended(j)' /\ (Over(j) => Over(j)')
                    /\ (jobUnit[j] = "absent" => jobUnit'[j] = "absent")
    BY <1>1, <1>3, <1>5 DEF JobInv, JobsTypeOK, Ended, Over, Exiting
  <2>4. JobInv(j)'
    BY <1>1, <1>3, <1>5, <2>3 DEF JobInv, JobsTypeOK, Exiting, Over
  <2> QED BY <2>1, <2>2, <2>3, <2>4, <1>4
<1>6. CASE Boot(j) \/ Listen(j) \/ JobEnds(j)
  <2> USE DEF Boot, Listen, JobEnds, Record
  <2>1. JobsTypeOK'
    BY <1>1, <1>6 DEF JobsTypeOK, Final
  <2>2. Elsewhere
    BY <1>1, <1>6 DEF JobsTypeOK, Elsewhere
  <2>3. ~Ended(j)
    BY <1>1, <1>6 DEF JobInv, Ended, Exiting
  <2>4. JobInv(j)'
    BY <1>1, <1>3, <1>6, <2>3 DEF JobInv, JobsTypeOK, Exiting, Over, Final
  <2> QED BY <2>1, <2>2, <2>3, <2>4, <1>4
<1>7. CASE TimerFires(j) \/ Reap(j) \/ WriteResult(j)
  <2> USE DEF TimerFires, Reap, WriteResult, Record
  <2>1. FinalStatus(j) \in Final /\ Exits(j) \subseteq {"exits_well", "exits_badly"}
    BY DEF FinalStatus, Exits, Final
  <2>2. JobsTypeOK'
    BY <1>1, <1>7, <2>1 DEF JobsTypeOK
  <2>3. Elsewhere
    BY <1>1, <1>7 DEF JobsTypeOK, Elsewhere
  <2>4. ~Ended(j)
    BY <1>1, <1>7 DEF JobInv, Ended, Exiting
  <2>5. JobInv(j)'
    BY <1>1, <1>3, <1>7, <2>1, <2>4 DEF JobInv, JobsTypeOK, Exiting, Over, Final
  <2> QED BY <2>2, <2>3, <2>4, <2>5, <1>4
<1> QED BY <1>5, <1>6, <1>7 DEF JobStep

-----------------------------------------------------------------------------
(* Calls.                                                                  *)

\* A step of one call leaves what the others rely on.
LEMMA OthersFrame ==
  ASSUME JInv, NEW c \in Callers, NEW d \in Callers, d # c,
         UNCHANGED <<pc[d], op[d], jobOf[d], seen[d]>>,
         known \subseteq known', withdrawn \subseteq withdrawn',
         \A j \in Jobs : Ended(j) => /\ Ended(j)' /\ (Over(j) => Over(j)')
                                     /\ (jobUnit[j] = "absent" => jobUnit'[j] = "absent")
  PROVE  CallerInv(d)'
<1>1. CallerInv(d) /\ (pc[d] # "idle" => jobOf[d] \in Jobs)
  BY CallerInv(d) DEF JInv, CallerInv, JobsTypeOK
<1> QED BY <1>1 DEF CallerInv, Over

\* A job that a step does not touch
LEMMA JobFrame ==
  ASSUME JInv, NEW j \in Jobs,
         UNCHANGED <<runner[j], jobUnit[j], command[j], jobResult[j], jobDir[j],
                     reported[j]>>,
         j \in known' <=> j \in known, withdrawn \subseteq withdrawn',
         Starting(j)' => Starting(j), Over(j) => Over(j)'
  PROVE  JobInv(j)'
<1>1. JobInv(j)
  BY DEF JInv
<1> QED BY <1>1 DEF JobInv

\* A step of a call that touches neither processes nor files.
LEMMA LookFrame ==
  ASSUME JInv, NEW c \in Callers,
         UNCHANGED <<jobFiles, jobProcess, known, forgotten>>,
         JobsTypeOK',
         pc' \in [Callers -> CallSteps],
         op' \in [Callers -> {"none", "start", "look", "signal", "forget"}],
         \A d \in Callers \ {c} : UNCHANGED <<pc[d], op[d], jobOf[d], seen[d]>>,
         Starts(c)' => Starts(c) /\ jobOf'[c] = jobOf[c],
         withdrawn \subseteq withdrawn',
         \A j \in Jobs \ withdrawn' : \A s \in reported'[j] :
           \/ s \in reported[j] \/ jobResult[j] = s
           \/ s = "failed" /\ jobResult[j] = "none" /\ Over(j),
         \A j \in Jobs : Starting(j)' \/ j \notin known => reported'[j] = reported[j],
         (\A j \in Jobs : (Ended(j) => Ended(j)') /\ (Over(j) => Over(j)'))
           => CallerInv(c)'
  PROVE  JInv'
<1> USE DEF jobFiles, jobProcess
<1>1. \A d \in Callers : Starts(d)' => Starts(d) /\ jobOf'[d] = jobOf[d]
  BY DEF Starts
<1>2. \A j \in Jobs : Starting(j)' => Starting(j)
  BY <1>1 DEF Starting
<1>3. \A j \in Jobs : (Ended(j) => Ended(j)') /\ (Over(j) => Over(j)')
  BY <1>2 DEF Ended, Over
<1>4. ASSUME NEW d \in Callers PROVE CallerInv(d)'
  <2>1. CASE d = c
    BY <1>3, <2>1
  <2>2. CASE d # c
    BY <1>3, <2>2, OthersFrame
  <2> QED BY <2>1, <2>2
<1>5. ASSUME NEW j \in Jobs PROVE JobInv(j)'
  <2>1. JobInv(j)
    BY DEF JInv
  <2> QED BY <1>2, <1>3, <2>1 DEF JobInv
<1>6. StartInv'
  BY <1>1 DEF JInv, StartInv
<1>7. ForgottenInv'
  BY <1>3 DEF JInv, ForgottenInv
<1> QED BY <1>4, <1>5, <1>6, <1>7 DEF JInv

\* Making the directory of a job keeps the invariant.
LEMMA MakeDirectoryKeeps ==
  ASSUME JInv, NEW c \in Callers, NEW j \in Jobs, MakeJobDirectory(c, j)
  PROVE  JInv'
<1> USE DEF MakeJobDirectory, NoSystemd, jobProcess, Enter
<1>1. JobInv(j) /\ CallerInv(c) /\ JobsTypeOK
  BY DEF JInv
<1>2. JobsTypeOK'
  BY <1>1 DEF JobsTypeOK
<1>3. \A k \in Jobs \ {j} : Starting(k)' <=> Starting(k)
  BY <1>1 DEF JInv, JobsTypeOK, Starting, Starts, CallerInv
<1>4. \A k \in Jobs : Ended(k) => Ended(k)' /\ (Over(k) => Over(k)')
  BY <1>3 DEF Ended, Over
<1>5. ASSUME NEW d \in Callers PROVE CallerInv(d)'
  <2>1. CASE d = c
    BY <1>1, <2>1 DEF JInv, JobsTypeOK, CallerInv
  <2>2. CASE d # c
    BY <1>1, <1>4, <2>2, OthersFrame DEF JInv, JobsTypeOK
  <2> QED BY <2>1, <2>2
<1>6. ASSUME NEW k \in Jobs PROVE JobInv(k)'
  <2>1. CASE k = j
    BY <1>1, <2>1 DEF JobInv, JobsTypeOK, Exiting
  <2>2. CASE k # j
    <3>1. UNCHANGED <<runner[k], jobUnit[k], command[k], jobResult[k], jobDir[k],
                      reported[k]>>
      BY <1>1, <2>2 DEF JobsTypeOK
    <3> QED BY <1>1, <1>3, <1>4, <2>2, <3>1, JobFrame DEF Over, JobsTypeOK
  <2> QED BY <2>1, <2>2
<1>7. StartInv'
  <2>1. ASSUME NEW d \in Callers, Starts(d) PROVE jobOf[d] # j
    BY <2>1, CallerInv(d) DEF JInv, CallerInv, Starts
  <2> QED BY <1>1, <2>1 DEF JInv, JobsTypeOK, StartInv, Starts
<1>8. ForgottenInv'
  BY <1>4 DEF JInv, ForgottenInv
<1> QED BY <1>1, <1>2, <1>5, <1>6, <1>7, <1>8 DEF JInv, CallSteps

\* The unit of a job is requested once: its start is over with it.
LEMMA LaunchKeeps ==
  ASSUME JInv, NEW c \in Callers, LaunchJob(c)
  PROVE  JInv'
<1> USE DEF LaunchJob, jobFiles, Goto
<1> DEFINE j == jobOf[c]
<1>1. CallerInv(c) /\ JobsTypeOK /\ j \in known /\ j \in Jobs /\ Starting(j) /\ JobInv(j)
  BY CallerInv(c) DEF JInv, JobsTypeOK, CallerInv, Starting, Starts
<1>2. CASE jobUnit' = [jobUnit EXCEPT ![j] = "requested"] /\ Goto(c, "await")
           /\ UNCHANGED withdrawn
  <2>1. JobsTypeOK'
    BY <1>1, <1>2 DEF JobsTypeOK, UnitStates
  <2>2. ~Starting(j)'
    BY <1>1, <1>2 DEF JInv, StartInv, Starting, Starts, CallSteps
  <2>3. \A k \in Jobs \ {j} : Starting(k)' <=> Starting(k)
    BY <1>1, <1>2 DEF JInv, Starting, Starts
  <2>4. \A k \in Jobs : Ended(k) => k # j
    BY <1>1 DEF Ended
  <2>5. \A k \in Jobs : Ended(k) => /\ Ended(k)' /\ (Over(k) => Over(k)')
                                    /\ jobUnit'[k] = jobUnit[k]
    BY <1>1, <1>2, <2>3, <2>4 DEF Ended, Over, JobsTypeOK
  <2>6. ASSUME NEW d \in Callers PROVE CallerInv(d)'
    <3>1. CASE d = c
      BY <1>1, <1>2, <3>1 DEF JInv, CallerInv
    <3>2. CASE d # c
      BY <1>1, <1>2, <2>5, <3>2, OthersFrame DEF JInv
    <3> QED BY <3>1, <3>2
  <2>7. ASSUME NEW k \in Jobs PROVE JobInv(k)'
    <3>1. CASE k = j
      BY <1>1, <1>2, <2>2, <3>1 DEF JobInv, JobsTypeOK, Exiting
    <3>2. CASE k # j
      <4>1. UNCHANGED <<runner[k], jobUnit[k], command[k], jobResult[k], jobDir[k],
                        reported[k]>>
        BY <1>1, <1>2, <3>2 DEF JobsTypeOK
      <4> QED BY <1>2, <2>3, <2>5, <3>2, <4>1, JobFrame DEF Over
    <3> QED BY <3>1, <3>2
  <2>8. StartInv'
    BY <1>1, <1>2 DEF JInv, StartInv, Starts
  <2>9. ForgottenInv'
    BY <1>2, <2>5 DEF JInv, ForgottenInv
  <2> QED BY <1>2, <2>1, <2>6, <2>7, <2>8, <2>9 DEF JInv, CallSteps
<1>3. CASE AbandonStart(c) /\ UNCHANGED jobUnit
  BY <1>1, <1>3, LookFrame
     DEF AbandonStart, GotoFailing, jobProcess, JInv, JobsTypeOK, CallSteps, Starts,
         CallerInv
<1> QED BY <1>2, <1>3

\* So does writing its specification.
LEMMA WriteSpecKeeps ==
  ASSUME JInv, NEW c \in Callers, WriteJobSpec(c)
  PROVE  JInv'
<1> USE DEF WriteJobSpec, NoSystemd, jobProcess
<1> DEFINE j == jobOf[c]
<1>1. CallerInv(c) /\ JobsTypeOK /\ j \in known /\ j \in Jobs /\ Starts(c)
  BY CallerInv(c) DEF JInv, JobsTypeOK, CallerInv, Starts
<1>2. CASE jobDir' = [jobDir EXCEPT ![j] = "ready"] /\ Goto(c, "launch")
           /\ UNCHANGED withdrawn
  <2> USE <1>2 DEF Goto
  <2>1. JobsTypeOK'
    BY <1>1 DEF JobsTypeOK
  <2>2. \A d \in Callers : Starts(d)' <=> Starts(d)
    BY <1>1 DEF JInv, Starts
  <2>3. \A k \in Jobs : Starting(k)' <=> Starting(k)
    BY <2>2 DEF Starting
  <2>4. \A k \in Jobs : (Ended(k)' <=> Ended(k)) /\ (Over(k)' <=> Over(k))
    BY <2>3 DEF Ended, Over
  <2>5. ASSUME NEW d \in Callers PROVE CallerInv(d)'
    <3>1. CASE d = c
      BY <1>1, <3>1 DEF JInv, CallerInv
    <3>2. CASE d # c
      BY <2>4, <3>2, OthersFrame DEF JInv
    <3> QED BY <3>1, <3>2
  <2>6. ASSUME NEW k \in Jobs PROVE JobInv(k)'
    <3>1. JobInv(k)
      BY DEF JInv
    <3> QED BY <1>1, <2>3, <2>4, <3>1 DEF JobInv, JobsTypeOK
  <2>7. StartInv' /\ ForgottenInv'
    BY <2>2, <2>4 DEF JInv, StartInv, ForgottenInv
  <2> QED BY <2>1, <2>5, <2>6, <2>7 DEF JInv, CallSteps
<1>3. CASE AbandonStart(c) /\ UNCHANGED jobDir
  BY <1>1, <1>3, LookFrame
     DEF AbandonStart, GotoFailing, jobFiles, JInv, JobsTypeOK, CallSteps, Starts,
         CallerInv
<1> QED BY <1>2, <1>3

\* A call looks at a unit and then at the result: what it reports then is the
\* result, or the failure of a unit that nothing will ever start again.
LEMMA LookKeeps ==
  ASSUME JInv, NEW c \in Callers,
         \/ JobLaunchReturns(c) \/ InspectResult(c)
         \/ \E j \in Jobs, o \in {"look", "signal", "forget"} : InspectUnit(c, j, o)
  PROVE  JInv'
<1>1. CallerInv(c) /\ JobsTypeOK /\ pc \in [Callers -> CallSteps]
      /\ op \in [Callers -> {"none", "start", "look", "signal", "forget"}]
  BY DEF JInv
<1>2. CASE JobLaunchReturns(c)
  <2>1. /\ UNCHANGED <<jobFiles, jobProcess, known, forgotten, reported>>
        /\ \A d \in Callers \ {c} : UNCHANGED <<pc[d], op[d], jobOf[d], seen[d]>>
        /\ withdrawn' \in {withdrawn, withdrawn \cup {jobOf[c]}}
    BY <1>1, <1>2 DEF JobLaunchReturns, AbandonStart, GotoFailing, Return, Leave,
                      FinishJobCall, JobsTypeOK
  <2>2. jobOf[c] \in known /\ jobOf[c] \in Jobs
    BY <1>1, <1>2 DEF JobLaunchReturns, CallerInv, JobsTypeOK
  <2>3. JobsTypeOK' /\ pc' \in [Callers -> CallSteps]
        /\ op' \in [Callers -> {"none", "start", "look", "signal", "forget"}]
    <3>1. /\ jobOf' \in [Callers -> Jobs \cup {NoJob}]
          /\ seen' \in [Callers -> [dir : BOOLEAN, unit : UnitStates]]
      <4>1. NotSeen \in [dir : BOOLEAN, unit : UnitStates]
        BY DEF NotSeen, UnitStates
      <4> QED BY <1>1, <1>2, <4>1 DEF JobLaunchReturns, FinishJobCall, JobsTypeOK
    <3>2. withdrawn' \subseteq Jobs /\ UNCHANGED unheard
      BY <1>1, <1>2, <2>1, <2>2 DEF JobLaunchReturns, JobsTypeOK
    <3>3. /\ pc' \in [Callers -> CallSteps]
          /\ op' \in [Callers -> {"none", "start", "look", "signal", "forget"}]
      BY <1>1, <1>2 DEF JobLaunchReturns, AbandonStart, GotoFailing, Return, Leave, CallSteps
    <3> QED BY <1>1, <2>1, <3>1, <3>2, <3>3 DEF JobsTypeOK, jobFiles, jobProcess
  <2>4. ~Starts(c)' /\ CallerInv(c)'
    BY <1>1, <1>2, <2>2
       DEF JobLaunchReturns, AbandonStart, GotoFailing, Return, Leave, FinishJobCall,
           CallerInv, Starts, JobsTypeOK
  <2> QED BY <2>1, <2>3, <2>4, LookFrame
<1>3. ASSUME NEW j \in Jobs, NEW o \in {"look", "signal", "forget"}, InspectUnit(c, j, o)
      PROVE  JInv'
  <2> USE DEF InspectUnit, Enter, jobHistory
  <2>1. /\ UNCHANGED <<jobFiles, jobProcess, known, forgotten, reported, withdrawn>>
        /\ \A d \in Callers \ {c} : UNCHANGED <<pc[d], op[d], jobOf[d], seen[d]>>
    BY <1>1, <1>3 DEF JobsTypeOK
  <2>2. /\ pc'[c] = "result" /\ op'[c] = o /\ jobOf'[c] = j
        /\ seen'[c].dir <=> jobDir[j] # "none"
        /\ seen'[c].unit = jobUnit[j]
    <3>1. /\ pc'[c] = "result" /\ op'[c] = o /\ jobOf'[c] = j
          /\ seen'[c] = [dir |-> jobDir[j] # "none", unit |-> jobUnit[j]]
      BY <1>1, <1>3 DEF JobsTypeOK
    <3>2. seen'[c].unit = jobUnit[j]
      BY <3>1
    <3>3. seen'[c].dir = (jobDir[j] # "none")
      <4> DEFINE there == (jobDir[j] # "none")
      <4> HIDE DEF there
      <4>1. [dir |-> there, unit |-> jobUnit[j]].dir = there
        OBVIOUS
      <4> QED BY <3>1, <4>1, Zenon DEF there
    <3>4. seen'[c].dir <=> jobDir[j] # "none"
      BY <3>3, Zenon
    <3> QED BY <3>1, <3>2, <3>4
  <2>3. JobsTypeOK' /\ pc' \in [Callers -> CallSteps]
        /\ op' \in [Callers -> {"none", "start", "look", "signal", "forget"}]
    <3>1. [dir |-> jobDir[j] # "none", unit |-> jobUnit[j]]
            \in [dir : BOOLEAN, unit : UnitStates]
      BY <1>1 DEF JobsTypeOK
    <3>2. /\ jobOf' \in [Callers -> Jobs \cup {NoJob}]
          /\ seen' \in [Callers -> [dir : BOOLEAN, unit : UnitStates]]
      BY <1>1, <1>3, <3>1 DEF JobsTypeOK
    <3>3. /\ pc' \in [Callers -> CallSteps]
          /\ op' \in [Callers -> {"none", "start", "look", "signal", "forget"}]
      BY <1>1, <1>3 DEF CallSteps
    <3> QED BY <1>1, <1>3, <2>1, <3>2, <3>3 DEF JobsTypeOK, jobFiles, jobProcess
  <2>4. JobInv(j) /\ j \in known
    BY <1>3 DEF JInv
  <2>5. jobUnit[j] = "failed" => Over(j)
    BY <2>4 DEF JobInv, Over, Ended, Exiting
  <2>6. (\A k \in Jobs : Over(k) => Over(k)') => CallerInv(c)'
    BY <2>1, <2>2, <2>4, <2>5 DEF CallerInv, JobInv
  <2>7. ~Starts(c)'
    BY <2>2 DEF Starts
  <2> QED BY <2>1, <2>3, <2>6, <2>7, LookFrame
<1>4. CASE InspectResult(c)
  <2> DEFINE status == JobStatus(c)
  <2> USE DEF InspectResult, Goto, Return, Leave, FinishJobCall
  <2>0. PICK j \in Jobs : j = jobOf[c]
    BY <1>1, <1>4 DEF CallerInv, JobsTypeOK
  <2>1. pc[c] = "result" /\ j \in known /\ JobInv(j)
    BY <1>1, <1>4, <2>0 DEF CallerInv, JInv
  <2>2. /\ UNCHANGED <<jobFiles, jobProcess, known, forgotten>>
        /\ \A d \in Callers \ {c} : UNCHANGED <<pc[d], op[d], jobOf[d], seen[d]>>
        /\ withdrawn' \in {withdrawn, withdrawn \cup {j}}
    BY <1>1, <1>4, <2>0 DEF JobsTypeOK
  <2>3. reported' = [reported EXCEPT ![j] = @ \cup ({status} \cap Final)]
    BY <1>4, <2>0
  <2>4. status \in Final =>
          \/ jobResult[j] = status /\ Ended(j)
          \/ status = "failed" /\ Over(j) /\ (j \in withdrawn \/ jobResult[j] = "none")
    <3>1. CASE seen[c].dir /\ jobResult[j] # "none"
      <4>1. status = jobResult[j]
        BY <2>0, <3>1 DEF JobStatus
      <4>2. ~Starting(j)
        BY <2>1, <3>1 DEF JobInv, Exiting
      <4> QED BY <2>1, <3>1, <4>1, <4>2 DEF JobInv, Ended
    <3>2. CASE ~(seen[c].dir /\ jobResult[j] # "none")
      <4>1. status = UnitStatus(seen[c].unit) /\ seen[c].unit \in UnitStates
        BY <1>1, <2>0, <3>2 DEF JobStatus, JobsTypeOK
      <4>2. status \in Final => status = "failed" /\ seen[c].unit = "failed"
        BY <4>1 DEF UnitStatus, UnitStates, Final
      <4>3. op[c] # "start" /\ (~seen[c].dir => j \in withdrawn)
        BY <1>1, <2>0, <2>1 DEF CallerInv
      <4> QED BY <1>1, <2>0, <2>1, <3>2, <4>2, <4>3 DEF CallerInv
    <3> QED BY <3>1, <3>2
  <2>5. status \in Final => Ended(j)
    BY <2>4 DEF Over
  <2>6. \/ pc' = [pc EXCEPT ![c] = "idle"] /\ op' = [op EXCEPT ![c] = "none"]
           /\ jobOf' = [jobOf EXCEPT ![c] = NoJob]
           /\ seen' = [seen EXCEPT ![c] = NotSeen]
        \/ /\ UNCHANGED <<op, jobOf, seen>>
           /\ \/ op[c] = "signal" /\ pc' = [pc EXCEPT ![c] = "kill"]
              \/ /\ op[c] = "forget" /\ status \in Final /\ j \in withdrawn'
                 /\ \/ pc' = [pc EXCEPT ![c] = "reset"]
                    \/ seen[c].unit # "failed" /\ pc' = [pc EXCEPT ![c] = "erase"]
    BY <1>4, <2>0 DEF IsTerminal
  <2>7. JobsTypeOK' /\ pc' \in [Callers -> CallSteps]
        /\ op' \in [Callers -> {"none", "start", "look", "signal", "forget"}]
    <3>1. {status} \cap Final \subseteq Final
      OBVIOUS
    <3>2. NotSeen \in [dir : BOOLEAN, unit : UnitStates]
      BY DEF NotSeen, UnitStates
    <3>3. /\ jobOf' \in [Callers -> Jobs \cup {NoJob}]
          /\ seen' \in [Callers -> [dir : BOOLEAN, unit : UnitStates]]
      BY <1>1, <2>6, <3>2 DEF JobsTypeOK
    <3>4. reported' \in [Jobs -> SUBSET Final] /\ withdrawn' \subseteq Jobs
      BY <1>1, <2>2, <2>3, <3>1 DEF JobsTypeOK
    <3>5. /\ pc' \in [Callers -> CallSteps]
          /\ op' \in [Callers -> {"none", "start", "look", "signal", "forget"}]
      BY <1>1, <2>6 DEF CallSteps
    <3>6. UNCHANGED unheard
      BY <1>4
    <3> QED BY <1>1, <2>2, <3>3, <3>4, <3>5, <3>6 DEF JobsTypeOK, jobFiles, jobProcess
  <2>8. ~Starts(c)'
    BY <1>1, <2>1, <2>6 DEF Starts, CallSteps
  <2>9. (\A k \in Jobs : (Ended(k) => Ended(k)') /\ (Over(k) => Over(k)'))
          => CallerInv(c)'
    BY <1>1, <2>0, <2>1, <2>2, <2>5, <2>6 DEF CallerInv, JobsTypeOK
  <2>10. \A k \in Jobs \ withdrawn' : \A s \in reported'[k] :
           \/ s \in reported[k] \/ jobResult[k] = s
           \/ s = "failed" /\ jobResult[k] = "none" /\ Over(k)
    BY <1>1, <2>1, <2>2, <2>3, <2>4 DEF JobsTypeOK
  <2>11. \A k \in Jobs : Starting(k)' \/ k \notin known => reported'[k] = reported[k]
    <3>1. \A d \in Callers : Starts(d)' => Starts(d) /\ jobOf'[d] = jobOf[d]
      BY <2>2, <2>8 DEF Starts
    <3>2. Starting(j)' => Starting(j)
      BY <3>1 DEF Starting
    <3>3. Starting(j)' => status \notin Final
      BY <2>5, <3>2 DEF Ended
    <3>4. status \notin Final => {status} \cap Final = {}
      OBVIOUS
    <3> QED BY <1>1, <2>1, <2>3, <3>3, <3>4 DEF JobsTypeOK
  <2> QED BY <2>2, <2>7, <2>8, <2>9, <2>10, <2>11, LookFrame
<1> QED BY <1>2, <1>3, <1>4

\* A step of job.signal or of a removal, which touches one job, whose start is
\* not going on or which is withdrawn.
LEMMA TouchFrame ==
  ASSUME JInv, NEW c \in Callers, NEW j \in Jobs,
         UNCHANGED <<known, reported, withdrawn>>,
         JobsTypeOK',
         pc' \in [Callers -> CallSteps],
         op' \in [Callers -> {"none", "start", "look", "signal", "forget"}],
         \A d \in Callers \ {c} : UNCHANGED <<pc[d], op[d], jobOf[d], seen[d]>>,
         ~Starts(c)',
         \A k \in Jobs \ {j} : UNCHANGED <<runner[k], jobUnit[k], command[k],
                                           jobResult[k], jobDir[k]>>,
         Ended(j) => /\ (~Starting(j)' => Ended(j)' /\ (Over(j) => Over(j)'))
                     /\ (jobUnit[j] = "absent" => jobUnit'[j] = "absent"),
         \A f \in forgotten' : f \in forgotten \/ (f[1] = j /\ Ended(j) /\
                                 (f[2] = "failed" => jobUnit'[j] = "absent")),
         (~Starting(j) => ~Starting(j)') /\ (Ended(j) => Ended(j)') => CallerInv(c)',
         (Starting(j)' => Starting(j)) /\ (Over(j) => Over(j)') => JobInv(j)'
  PROVE  JInv'
<1>1. \A d \in Callers : Starts(d)' => Starts(d) /\ jobOf'[d] = jobOf[d]
  BY DEF Starts
<1>2. \A k \in Jobs : Starting(k)' => Starting(k)
  BY <1>1 DEF Starting
<1>3. Ended(j) => ~Starting(j)'
  BY <1>2 DEF Ended
<1>4. \A k \in Jobs : Ended(k) => /\ Ended(k)' /\ (Over(k) => Over(k)')
                                  /\ (jobUnit[k] = "absent" => jobUnit'[k] = "absent")
  BY <1>2, <1>3 DEF Ended, Over
<1>5. ASSUME NEW d \in Callers PROVE CallerInv(d)'
  <2>1. CASE d = c
    BY <1>2, <1>4, <2>1
  <2>2. CASE d # c
    BY <1>4, <2>2, OthersFrame
  <2> QED BY <2>1, <2>2
<1>6. ASSUME NEW k \in Jobs PROVE JobInv(k)'
  <2>1. CASE k = j
    BY <1>2, <1>4, <2>1 DEF Over
  <2>2. CASE k # j
    BY <1>2, <1>4, <2>2, JobFrame DEF Over
  <2> QED BY <2>1, <2>2
<1>7. StartInv'
  BY <1>1 DEF JInv, StartInv
<1>8. ForgottenInv'
  BY <1>4 DEF JInv, ForgottenInv
<1> QED BY <1>5, <1>6, <1>7, <1>8 DEF JInv

\* So does a signal to a job.
LEMMA SignalKeeps ==
  ASSUME JInv, NEW c \in Callers, SignalJob(c)
  PROVE  JInv'
<1> USE DEF SignalJob, SignalMain, SignalAll, KillRunner, Return, Leave, FinishJobCall,
            jobFiles
<1>1. CallerInv(c) /\ JobsTypeOK /\ pc \in [Callers -> CallSteps]
      /\ op \in [Callers -> {"none", "start", "look", "signal", "forget"}]
  BY DEF JInv
<1>2. PICK j \in Jobs : j = jobOf[c]
  BY <1>1 DEF CallerInv, JobsTypeOK
<1>3. JobInv(j)
  BY DEF JInv
<1>4. /\ pc' = [pc EXCEPT ![c] = "idle"] /\ op' = [op EXCEPT ![c] = "none"]
      /\ jobOf' = [jobOf EXCEPT ![c] = NoJob] /\ seen' = [seen EXCEPT ![c] = NotSeen]
      /\ UNCHANGED <<jobDir, jobResult, late, known, reported, withdrawn, forgotten>>
  OBVIOUS
<1>5. \/ UNCHANGED <<runner, jobUnit, command>>
      \/ /\ jobUnit[j] \in {"activating", "active"}
         /\ runner' = [runner EXCEPT ![j] = "gone"]
         /\ \E u \in {"ending_well", "ending_badly"} : jobUnit' = [jobUnit EXCEPT ![j] = u]
         /\ command' = command \/ command' = [command EXCEPT ![j] =
                                      IF @ = "running" THEN "signalled" ELSE @]
  BY <1>2, <1>3 DEF JobInv
<1>6. UNCHANGED unheard \/ unheard' = unheard \cup {j}
  BY <1>2
<1> HIDE DEF SignalJob, SignalMain, SignalAll, KillRunner, Return, Leave, FinishJobCall
<1>7. JobsTypeOK' /\ pc' \in [Callers -> CallSteps]
      /\ op' \in [Callers -> {"none", "start", "look", "signal", "forget"}]
  <2>1. NotSeen \in [dir : BOOLEAN, unit : UnitStates]
    BY DEF NotSeen, UnitStates
  <2>2. jobUnit' \in [Jobs -> UnitStates]
    BY <1>1, <1>5 DEF JobsTypeOK, UnitStates
  <2>3. seen' \in [Callers -> [dir : BOOLEAN, unit : UnitStates]]
    BY <1>1, <1>4, <2>1 DEF JobsTypeOK
  <2>4. jobOf' \in [Callers -> Jobs \cup {NoJob}] /\ unheard' \subseteq Jobs
    BY <1>1, <1>4, <1>6 DEF JobsTypeOK
  <2>5. pc' \in [Callers -> CallSteps]
        /\ op' \in [Callers -> {"none", "start", "look", "signal", "forget"}]
    BY <1>1, <1>4 DEF CallSteps
  <2>6. /\ runner' \in [Jobs -> {"none", "boot", "started", "watching", "reaped",
                                 "exits_well", "exits_badly", "gone"}]
        /\ command' \in [Jobs -> {"none", "running", "ok", "error", "signalled"}]
    BY <1>1, <1>5 DEF JobsTypeOK
  <2> QED BY <1>1, <1>4, <2>2, <2>3, <2>4, <2>5, <2>6 DEF JobsTypeOK
<1>8. ~Starts(c)' /\ CallerInv(c)'
  BY <1>1, <1>4 DEF CallerInv, Starts, JobsTypeOK
<1>9. Ended(j) /\ ~Starting(j)' => Ended(j)' /\ (Over(j) => Over(j)')
  BY <1>1, <1>3, <1>4, <1>5 DEF Ended, Over, Exiting, JobInv, JobsTypeOK
<1>10. (Starting(j)' => Starting(j)) /\ (Over(j) => Over(j)') => JobInv(j)'
  BY <1>1, <1>3, <1>4, <1>5 DEF JobInv, Exiting, JobsTypeOK
<1>11. \A k \in Jobs \ {j} : UNCHANGED <<runner[k], jobUnit[k], command[k],
                                         jobResult[k], jobDir[k]>>
  BY <1>1, <1>4, <1>5 DEF JobsTypeOK
<1>12. \A d \in Callers \ {c} : UNCHANGED <<pc[d], op[d], jobOf[d], seen[d]>>
  BY <1>1, <1>4 DEF JobsTypeOK
<1>13. jobUnit[j] = "absent" => jobUnit'[j] = "absent"
  BY <1>5
<1> QED BY <1>4, <1>7, <1>8, <1>9, <1>10, <1>11, <1>12, <1>13, TouchFrame

\* job.forget and the end of a failed start: a directory is removed only from a
\* job that is withdrawn, and forgotten only when it has ended.
LEMMA RemovalKeeps ==
  ASSUME JInv, NEW c \in Callers, ResetFailed(c) \/ EraseFiles(c) \/ RemoveJobDirectory(c)
  PROVE  JInv'
<1> USE DEF ResetFailed, EraseFiles, RemoveJobDirectory, Goto, Return, Leave, FinishJobCall,
            jobFiles, jobProcess, jobHistory
<1>1. CallerInv(c) /\ JobsTypeOK /\ pc \in [Callers -> CallSteps]
      /\ op \in [Callers -> {"none", "start", "look", "signal", "forget"}]
  BY DEF JInv
<1>2. PICK j \in Jobs : j = jobOf[c]
  BY <1>1 DEF CallerInv, JobsTypeOK
<1>3. JobInv(j) /\ j \in withdrawn /\ pc[c] \in {"reset", "erase", "rmdir"}
      /\ op[c] \in {"start", "forget"} /\ (op[c] = "forget" => Ended(j))
  BY <1>1, <1>2 DEF JInv, CallerInv
<1>4. /\ UNCHANGED <<runner, command, late, known, reported, withdrawn, unheard>>
      /\ UNCHANGED jobUnit \/ (jobUnit[j] = "failed"
                               /\ jobUnit' = [jobUnit EXCEPT ![j] = "absent"])
  BY <1>2
<1>5. \E dir \in {"none", "partial", jobDir[j]}, result \in {"none", jobResult[j]} :
         /\ jobDir' = [jobDir EXCEPT ![j] = dir]
         /\ jobResult' = [jobResult EXCEPT ![j] = result]
  <2>1. CASE ResetFailed(c)
    BY <1>1, <2>1 DEF JobsTypeOK
  <2>2. CASE EraseFiles(c)
    BY <1>2, <2>2
  <2>3. CASE RemoveJobDirectory(c)
    BY <1>2, <2>3
  <2> QED BY <2>1, <2>2, <2>3
<1>6. \A f \in forgotten' : f \in forgotten \/ (f[1] = j /\ Ended(j) /\
                              (f[2] = "failed" => jobUnit'[j] = "absent"))
  <2>1. CASE RemoveJobDirectory(c) /\ op[c] = "forget"
    BY <1>1, <1>2, <1>3, <2>1 DEF CallerInv
  <2>2. CASE ~(RemoveJobDirectory(c) /\ op[c] = "forget")
    BY <2>2
  <2> QED BY <2>1, <2>2
<1>7. \/ /\ pc' = [pc EXCEPT ![c] = "idle"] /\ op' = [op EXCEPT ![c] = "none"]
         /\ jobOf' = [jobOf EXCEPT ![c] = NoJob] /\ seen' = [seen EXCEPT ![c] = NotSeen]
      \/ /\ UNCHANGED <<op, jobOf, seen>>
         /\ \/ /\ pc[c] = "reset" /\ pc' = [pc EXCEPT ![c] = "erase"]
               /\ jobUnit' = [jobUnit EXCEPT ![j] = "absent"]
            \/ /\ pc[c] = "erase" /\ pc' = [pc EXCEPT ![c] = "rmdir"]
               /\ UNCHANGED jobUnit
  BY <1>2
<1>8. forgotten' \subseteq Jobs \X UnitStates
  <2>1. forgotten' \subseteq forgotten \cup {<<j, seen[c].unit>>}
    BY <1>2
  <2> QED BY <1>1, <2>1 DEF JobsTypeOK
<1> HIDE DEF ResetFailed, EraseFiles, RemoveJobDirectory, Goto, Return, Leave,
             FinishJobCall, jobFiles, jobProcess, jobHistory
<1>9. JobsTypeOK' /\ pc' \in [Callers -> CallSteps]
      /\ op' \in [Callers -> {"none", "start", "look", "signal", "forget"}]
  <2>1. NotSeen \in [dir : BOOLEAN, unit : UnitStates]
    BY DEF NotSeen, UnitStates
  <2>2. jobUnit' \in [Jobs -> UnitStates]
    BY <1>1, <1>4 DEF JobsTypeOK, UnitStates
  <2>3. seen' \in [Callers -> [dir : BOOLEAN, unit : UnitStates]]
    BY <1>1, <1>7, <2>1 DEF JobsTypeOK
  <2>4. jobOf' \in [Callers -> Jobs \cup {NoJob}]
    BY <1>1, <1>7 DEF JobsTypeOK
  <2>5. jobDir' \in [Jobs -> {"none", "partial", "ready"}]
        /\ jobResult' \in [Jobs -> Final \cup {"none"}]
    BY <1>1, <1>5 DEF JobsTypeOK
  <2>6. pc' \in [Callers -> CallSteps]
        /\ op' \in [Callers -> {"none", "start", "look", "signal", "forget"}]
    BY <1>1, <1>7 DEF CallSteps
  <2> QED BY <1>1, <1>4, <1>8, <2>2, <2>3, <2>4, <2>5, <2>6 DEF JobsTypeOK
<1>10. ~Starts(c)'
  BY <1>1, <1>3, <1>7 DEF Starts
<1>11. Ended(j) => (~Starting(j)' => Ended(j)' /\ (Over(j) => Over(j)'))
  BY <1>1, <1>4 DEF Ended, Over, JobsTypeOK
<1>12. (Starting(j)' => Starting(j)) /\ (Over(j) => Over(j)') => JobInv(j)'
  BY <1>1, <1>3, <1>4, <1>5 DEF JobInv, JobsTypeOK
<1>13. \A k \in Jobs \ {j} : UNCHANGED <<runner[k], jobUnit[k], command[k],
                                         jobResult[k], jobDir[k]>>
  BY <1>1, <1>4, <1>5 DEF JobsTypeOK
<1>14. \A d \in Callers \ {c} : UNCHANGED <<pc[d], op[d], jobOf[d], seen[d]>>
  BY <1>1, <1>7 DEF JobsTypeOK
<1>15. (~Starting(j) => ~Starting(j)') /\ (Ended(j) => Ended(j)') => CallerInv(c)'
  <2>1. Over(j) => Over(j)' \/ ~Ended(j)'
    BY <1>1, <1>4 DEF Over, JobsTypeOK
  <2>2. Over(j) => Ended(j)
    BY DEF Over
  <2> QED BY <1>1, <1>2, <1>3, <1>4, <1>7, <2>1, <2>2 DEF CallerInv, JobsTypeOK
<1>16. jobUnit[j] = "absent" => jobUnit'[j] = "absent"
  BY <1>4
<1> QED BY <1>4, <1>6, <1>9, <1>10, <1>11, <1>12, <1>13, <1>14, <1>15, <1>16, TouchFrame

\* A caller dies, at any step.
LEMMA DeathKeeps ==
  ASSUME JInv, NEW c \in Callers, JobCallerDies(c)
  PROVE  JInv'
<1> USE DEF JobCallerDies, ReturnFailing, Leave, FinishJobCall
<1>1. CallerInv(c) /\ JobsTypeOK /\ pc \in [Callers -> CallSteps]
      /\ op \in [Callers -> {"none", "start", "look", "signal", "forget"}]
  BY DEF JInv
<1>2. JobsTypeOK'
  <2>1. NotSeen \in [dir : BOOLEAN, unit : UnitStates]
    BY DEF NotSeen, UnitStates
  <2>2. seen' \in [Callers -> [dir : BOOLEAN, unit : UnitStates]]
    BY <1>1, <2>1 DEF JobsTypeOK
  <2>3. jobOf[c] \in Jobs
    BY <1>1 DEF CallerInv, JobsTypeOK
  <2>4. unheard' \subseteq Jobs /\ jobOf' \in [Callers -> Jobs \cup {NoJob}]
    BY <1>1, <2>3 DEF JobsTypeOK
  <2> QED BY <1>1, <2>2, <2>4 DEF JobsTypeOK, jobFiles, jobProcess
<1>3. ~Starts(c)' /\ CallerInv(c)'
  BY <1>1 DEF CallerInv, Starts, JobsTypeOK
<1>4. /\ pc' \in [Callers -> CallSteps]
      /\ op' \in [Callers -> {"none", "start", "look", "signal", "forget"}]
      /\ \A d \in Callers \ {c} : UNCHANGED <<pc[d], op[d], jobOf[d], seen[d]>>
  BY <1>1 DEF CallSteps, JobsTypeOK
<1> QED BY <1>2, <1>3, <1>4, LookFrame

\* The host restarts: every job that was known has ended.
LEMMA RestartKeeps ==
  ASSUME JInv, HostRestarts
  PROVE  JInv'
<1> USE DEF HostRestarts, jobFiles
<1>1. JobsTypeOK
  BY DEF JInv
<1>2. JobsTypeOK'
  <2>1. NotSeen \in [dir : BOOLEAN, unit : UnitStates]
    BY DEF NotSeen, UnitStates
  <2>2. jobUnit' \in [Jobs -> UnitStates]
    BY DEF UnitStates
  <2>3. seen' \in [Callers -> [dir : BOOLEAN, unit : UnitStates]]
    BY <2>1
  <2>4. command' \in [Jobs -> {"none", "running", "ok", "error", "signalled"}]
    BY <1>1 DEF JobsTypeOK
  <2> QED BY <1>1, <2>2, <2>3, <2>4 DEF JobsTypeOK
<1>3. \A d \in Callers : ~Starts(d)'
  BY DEF Starts
<1>4. \A j \in Jobs : ~Starting(j)'
  BY <1>3 DEF Starting
<1>5. \A j \in Jobs : command'[j] # "running"
  BY <1>1 DEF JobsTypeOK
<1>6. \A j \in known : j \in Jobs => Over(j)'
  BY <1>4, <1>5 DEF Over, Ended, Exiting
<1>7. ASSUME NEW d \in Callers PROVE CallerInv(d)'
  BY DEF CallerInv
<1>8. ASSUME NEW j \in Jobs PROVE JobInv(j)'
  <2>1. JobInv(j)
    BY DEF JInv
  <2>2. j \in known \/ runner'[j] = "none"
    OBVIOUS
  <2>3. j \notin known => command[j] = "none" /\ command'[j] = "none"
    BY <2>1 DEF JobInv
  <2> QED BY <1>4, <1>5, <1>6, <2>1, <2>2, <2>3 DEF JobInv, Exiting
<1>9. StartInv'
  BY <1>3 DEF StartInv
<1>10. ForgottenInv'
  BY <1>6 DEF JInv, ForgottenInv, Ended, Over
<1> QED BY <1>2, <1>7, <1>8, <1>9, <1>10 DEF JInv, CallSteps

-----------------------------------------------------------------------------

\* The invariant of the jobs is inductive.
LEMMA JInvNext == JInv /\ [JobsNext]_<<callers, jobVars>> => JInv'
<1> SUFFICES ASSUME JInv, [JobsNext]_<<callers, jobVars>> PROVE JInv'
  OBVIOUS
<1>1. ASSUME NEW j \in Jobs, JobStep(j) PROVE JInv'
  BY <1>1, ProcessKeeps
<1>2. ASSUME NEW c \in Callers, JobCallStep(c) PROVE JInv'
  BY <1>2, WriteSpecKeeps, LaunchKeeps, LookKeeps, SignalKeeps, RemovalKeeps, DeathKeeps
     DEF JobCallStep
<1>3. ASSUME NEW c \in Callers, NEW j \in Jobs, MakeJobDirectory(c, j) PROVE JInv'
  BY <1>3, MakeDirectoryKeeps
<1>4. ASSUME NEW c \in Callers, NEW j \in Jobs, NEW o \in {"look", "signal", "forget"},
             InspectUnit(c, j, o)
      PROVE  JInv'
  BY <1>4, LookKeeps
<1>5. CASE HostRestarts
  BY <1>5, RestartKeeps
<1>6. CASE UNCHANGED <<callers, jobVars>>
  <2> USE <1>6 DEF callers, jobVars, jobFiles, jobProcess, jobHistory
  <2>1. \A j \in Jobs : (Starting(j)' <=> Starting(j)) /\ (Ended(j)' <=> Ended(j))
                        /\ (Over(j)' <=> Over(j))
    BY DEF Starting, Starts, Ended, Over
  <2>2. ASSUME NEW c \in Callers PROVE CallerInv(c)'
    <3>1. pc[c] # "idle" => jobOf[c] \in Jobs
      BY CallerInv(c) DEF JInv, CallerInv, JobsTypeOK
    <3> QED BY <2>1, <3>1, CallerInv(c) DEF JInv, CallerInv, CallSteps
  <2>3. ASSUME NEW j \in Jobs PROVE JobInv(j)'
    BY <2>1, JobFrame
  <2>4. JobsTypeOK' /\ StartInv' /\ ForgottenInv'
    BY <2>1 DEF JInv, JobsTypeOK, StartInv, Starts, ForgottenInv
  <2> QED BY <2>2, <2>3, <2>4 DEF JInv
<1> QED BY <1>1, <1>2, <1>3, <1>4, <1>5, <1>6 DEF JobsNext

\* It holds in every reachable state.
LEMMA JInvHolds == JobsSpec => []JInv
BY JInvInit, JInvNext, PTL DEF JobsSpec

\* job.go: no two calls report different ends of a job whose directory no call
\* has begun to remove.
THEOREM StatusIsFinalHolds == JobsSpec => []StatusIsFinal
<1>1. JInv => StatusIsFinal
  <2> SUFFICES ASSUME JInv, NEW j \in Jobs \ withdrawn,
                      NEW s \in reported[j], NEW t \in reported[j]
               PROVE  s = t
    BY DEF StatusIsFinal
  <2>1. JobInv(j) /\ s # "none" /\ t # "none"
    BY DEF JInv, JobsTypeOK, Final
  <2> QED BY <2>1 DEF JobInv
<1> QED BY JInvHolds, <1>1, PTL

\* job.forget (job.go): a forgotten job runs no command, and the failed unit that
\* its forget has seen is gone.
THEOREM ForgetIsFinalHolds == JobsSpec => []ForgetIsFinal
<1>1. JInv => ForgetIsFinal
  BY DEF JInv, ForgottenInv, ForgetIsFinal, Ended
<1> QED BY JInvHolds, <1>1, PTL

-----------------------------------------------------------------------------
(* Jobs that are accounted for.                                            *)

\* A job whose starter, host and runner met with no accident leaves a unit or a
\* result from the time the runner is there, and has its starter until then.
\* systemd forgets only units that ended well, which a runner does after it has
\* written the result.
Account(j) ==
    /\ runner[j] = "none" =>
         \/ jobUnit[j] # "absent"
         \/ \E c \in Callers : op[c] = "start" /\ jobOf[c] = j
    /\ runner[j] # "none" => jobResult[j] # "none" \/ jobUnit[j] # "absent"
    /\ runner[j] = "exits_well" \/ jobUnit[j] = "ending_well" => jobResult[j] # "none"

AccountInv == \A j \in known \ (unheard \cup withdrawn) : Account(j)

\* The processes of a job do not touch its starter, and remove no result.
LEMMA AccountProcess ==
  ASSUME JInv, AccountInv, NEW k \in Jobs, JobStep(k),
         NEW j \in known' \ (unheard' \cup withdrawn')
  PROVE  Account(j)'
<1> USE DEF NotByCalls, callers, jobFiles
<1>1. NotByCalls /\ UNCHANGED <<jobDir, unheard>>
  BY DEF JobStep, UnitStarts, UnitExecutes, RunnerExits, UnitEnds, Boot, Listen,
         JobEnds, TimerFires, Reap, WriteResult, Record
<1>2. j \in Jobs /\ Account(j) /\ JobInv(j) /\ JobsTypeOK /\ jobDir[j] # "none"
  BY <1>1 DEF JInv, AccountInv, JobInv, JobsTypeOK
<1>3. CASE UNCHANGED <<runner[j], jobUnit[j], jobResult[j]>>
  BY <1>1, <1>2, <1>3 DEF Account
<1>4. CASE j # k
  <2>1. UNCHANGED <<runner[j], jobUnit[j], jobResult[j]>>
    BY <1>2, <1>4 DEF JobStep, UnitStarts, UnitExecutes, RunnerExits, UnitEnds, Boot,
       Listen, JobEnds, TimerFires, Reap, WriteResult, Record, JobsTypeOK
  <2> QED BY <2>1, <1>3
<1> USE DEF Account, JobsTypeOK
<1>5. CASE UnitStarts(j) \/ UnitExecutes(j)
  BY <1>1, <1>2, <1>5 DEF UnitStarts, UnitExecutes
<1>6. CASE RunnerExits(j) \/ UnitEnds(j)
  BY <1>1, <1>2, <1>6 DEF RunnerExits, UnitEnds, JobInv, Exiting
<1>7. CASE Boot(j)
  BY <1>1, <1>2, <1>7 DEF Boot, Record, JobInv
<1>8. CASE Listen(j) \/ JobEnds(j) \/ TimerFires(j) \/ Reap(j)
  BY <1>1, <1>2, <1>8 DEF Listen, JobEnds, TimerFires, Reap, JobInv
<1>9. CASE WriteResult(j)
  <2>1. FinalStatus(j) # "none" /\ jobUnit[j] = "active"
    BY <1>2, <1>9 DEF WriteResult, FinalStatus, JobInv
  <2>2. Exits(j) \subseteq {"exits_well", "exits_badly"}
    BY DEF Exits
  <2> QED BY <1>1, <1>2, <1>9, <2>1, <2>2 DEF WriteResult, Record
<1> QED BY <1>4, <1>5, <1>6, <1>7, <1>8, <1>9 DEF JobStep

\* A call removes results and ends the wait for a unit only where the job is
\* withdrawn, or has its runner.
LEMMA AccountCall ==
  ASSUME JInv, AccountInv, NEW c \in Callers, JobCallStep(c),
         NEW j \in known' \ (unheard' \cup withdrawn')
  PROVE  Account(j)'
<1>1. j \in known \ (unheard \cup withdrawn)
  BY DEF JobCallStep, WriteJobSpec, LaunchJob, JobLaunchReturns, InspectResult,
         SignalJob, SignalMain, ResetFailed, EraseFiles, RemoveJobDirectory, JobCallerDies,
         AbandonStart, jobHistory
<1>2. j \in Jobs /\ Account(j) /\ JobInv(j) /\ JobsTypeOK /\ CallerInv(c)
      /\ op \in [Callers -> {"none", "start", "look", "signal", "forget"}]
      /\ pc \in [Callers -> CallSteps]
  BY <1>1 DEF JInv, AccountInv, JobsTypeOK
<1> USE <1>1, <1>2 DEF Goto, GotoFailing, Return, ReturnFailing, Leave, FinishJobCall
<1>3. ASSUME UNCHANGED <<runner[j], jobUnit[j], jobResult[j]>>,
             op[c] = "start" /\ jobOf[c] = j => op'[c] = "start" /\ jobOf'[c] = j,
             \A d \in Callers \ {c} : UNCHANGED <<op[d], jobOf[d]>>
      PROVE  Account(j)'
  BY <1>3 DEF Account
<1>4. CASE WriteJobSpec(c)
  BY <1>3, <1>4 DEF WriteJobSpec, AbandonStart, NoSystemd, jobProcess
<1>5. CASE LaunchJob(c)
  BY <1>5 DEF LaunchJob, AbandonStart, jobFiles, Account, JobsTypeOK, CallerInv
<1>6. CASE JobLaunchReturns(c)
  BY <1>6 DEF JobLaunchReturns, AbandonStart, jobFiles, jobProcess, Account, JobsTypeOK
<1>7. CASE InspectResult(c)
  BY <1>7, <1>3 DEF InspectResult, jobFiles, jobProcess, CallerInv, JobsTypeOK
<1>8. CASE SignalJob(c)
  BY <1>8 DEF SignalJob, SignalMain, SignalAll, KillRunner, jobFiles, Account, JobsTypeOK
<1>9. CASE ResetFailed(c)
  BY <1>9 DEF ResetFailed, jobFiles, jobHistory, Account, CallerInv, JobsTypeOK
<1>10. CASE EraseFiles(c)
  BY <1>10, <1>3 DEF EraseFiles, jobProcess, jobHistory, CallerInv, JobsTypeOK
<1>11. CASE RemoveJobDirectory(c)
  BY <1>11, <1>3 DEF RemoveJobDirectory, jobProcess, CallerInv, JobsTypeOK
<1>12. CASE JobCallerDies(c)
  BY <1>12, <1>3 DEF JobCallerDies, jobFiles, jobProcess, CallerInv, JobsTypeOK
<1> QED
  BY <1>4, <1>5, <1>6, <1>7, <1>8, <1>9, <1>10, <1>11, <1>12 DEF JobCallStep

\* A new job has its starter; a restart of the host leaves all jobs unheard.
LEMMA AccountNext == JInv /\ AccountInv /\ [JobsNext]_<<callers, jobVars>> => AccountInv'
<1> SUFFICES ASSUME JInv, AccountInv, [JobsNext]_<<callers, jobVars>>,
                    NEW j \in known' \ (unheard' \cup withdrawn')
             PROVE  Account(j)'
  BY DEF AccountInv
<1>1. ASSUME NEW k \in Jobs, JobStep(k) PROVE Account(j)'
  BY <1>1, AccountProcess
<1>2. ASSUME NEW c \in Callers, JobCallStep(c) PROVE Account(j)'
  BY <1>2, AccountCall
<1>3. ASSUME NEW c \in Callers, NEW k \in Jobs, MakeJobDirectory(c, k)
      PROVE  Account(j)'
  <2>1. CallerInv(c) /\ pc[c] = "idle"
        /\ op \in [Callers -> {"none", "start", "look", "signal", "forget"}]
        /\ jobOf \in [Callers -> Jobs \cup {NoJob}]
    BY <1>3 DEF JInv, JobsTypeOK, MakeJobDirectory, Enter
  <2>2. CASE j = k
    <3>1. JobInv(k)
      BY DEF JInv
    <3> QED BY <1>3, <2>1, <2>2, <3>1
            DEF MakeJobDirectory, Enter, NoSystemd, jobProcess, JobInv, Account
  <2>3. CASE j # k
    <3>1. Account(j)
      BY <1>3, <2>3 DEF MakeJobDirectory, AccountInv
    <3> QED BY <1>3, <2>1, <3>1
            DEF MakeJobDirectory, Enter, NoSystemd, jobProcess, CallerInv, Account
  <2> QED BY <2>2, <2>3
<1>4. ASSUME NEW c \in Callers, NEW k \in Jobs, NEW o \in {"look", "signal", "forget"},
             InspectUnit(c, k, o)
      PROVE  Account(j)'
  <2>1. CallerInv(c) /\ pc[c] = "idle"
        /\ op \in [Callers -> {"none", "start", "look", "signal", "forget"}]
        /\ jobOf \in [Callers -> Jobs \cup {NoJob}]
    BY <1>4 DEF JInv, JobsTypeOK, InspectUnit, Enter
  <2>2. Account(j)
    BY <1>4 DEF InspectUnit, AccountInv, jobHistory
  <2>3. UNCHANGED <<jobFiles, jobProcess>>
        /\ op' = [op EXCEPT ![c] = o] /\ jobOf' = [jobOf EXCEPT ![c] = k]
    BY <1>4 DEF InspectUnit, Enter
  <2> QED BY <2>1, <2>2, <2>3 DEF jobFiles, jobProcess, CallerInv, Account
<1>5. CASE HostRestarts
  BY <1>5 DEF HostRestarts
<1>6. CASE UNCHANGED <<callers, jobVars>>
  BY <1>6 DEF callers, jobVars, jobFiles, jobProcess, jobHistory, AccountInv, Account
<1> QED BY <1>1, <1>2, <1>3, <1>4, <1>5, <1>6 DEF JobsNext

\* job.go, job_runner.go: no job becomes "unknown" for ever, which job.forget
\* refuses, unless its starter or host died, its runner was signalled before it
\* listened, or a call has begun to remove it.
THEOREM UnknownIsExplainedHolds == JobsSpec => []UnknownIsExplained
<1>1. CallersInit /\ JobsInit => AccountInv
  BY DEF JobsInit, AccountInv
<1>2. AccountInv => UnknownIsExplained
  BY DEF AccountInv, Account, UnknownIsExplained
<1> QED BY JInvHolds, <1>1, <1>2, AccountNext, PTL DEF JobsSpec

\* The directory, the unit, the runner and the calls of every job are well typed
\* in every reachable state.
THEOREM JobsTypeCorrect == JobsSpec => []JobsTypeOK
<1>1. JInv => JobsTypeOK
  BY DEF JInv
<1> QED BY JInvHolds, <1>1, PTL

=============================================================================
