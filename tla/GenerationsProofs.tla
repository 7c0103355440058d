-------------------------- MODULE GenerationsProofs --------------------------
(***************************************************************************)
(* One call at a time is dispatched, replaced generations are quiet, and no*)
(* intended end of a session is taken for a failure -- for any sessions,   *)
(* any calls and any number of generations.                                *)
(***************************************************************************)
EXTENDS Generations, FiniteSetTheorems, TLAPS

Connected(s) == conn[s] \in {"registered", "returned"}

\* A session that can have calls is in the map of its transport until
\* session.close is done.
SessionInv(s) ==
    /\ sgen[s] <= gen
    /\ sgen[s] = 0 <=> conn[s] = "none"
    /\ conn[s] = "none" => server[s] = "none" /\ s \notin broken
    /\ s \in sessions => Connected(s)
    /\ s \in closing => Connected(s)
    /\ once[s] # "no" => s \in closing
    /\ once[s] = "done" => server[s] = "ended"
    /\ worker[s] # "none" => conn[s] = "returned"
    /\ Connected(s) /\ once[s] # "done" /\ Alive => s \in sessions
    /\ server[s] \in {"draining", "ended"} /\ conn[s] # "refused" =>
         s \in broken \cup closing

\* A call is on a session that is not closed yet; it runs if and only if it has
\* the token of its generation.
CallInv(c) ==
    /\ call[c] = "idle" <=> on[c] = NoSession
    /\ call[c] # "idle" => /\ Alive
                           /\ conn[on[c]] = "returned" /\ once[on[c]] # "done"
    /\ call[c] = "running" => token[sgen[on[c]]] = c

\* Once the manager has ended its wait nothing enters the map again.
QuietInv ==
    \A g \in Gens :
        g < gen \/ (g = gen /\ phase = "backoff") => g \in closed /\ LiveWorkers(g) = {}

GInv ==
    /\ TypeOK
    /\ \A s \in Sessions : SessionInv(s)
    /\ \A c \in Calls : CallInv(c)
    /\ \A g \in Gens : \A s \in toClose[g] : Connected(s)
    /\ closeDone \subseteq closed
    /\ QuietInv
    /\ NoFalseAlarm

\* At first no generation exists.
LEMMA GInvInit == Init => GInv
<1> SUFFICES ASSUME Init PROVE GInv
  OBVIOUS
<1> USE DEF Init
<1>1. gen \in Gens /\ 0 \in 0..MaxGenerations /\ Gens \subseteq Nat
  BY GenerationsAssumption DEF Gens
<1>2. TypeOK
  BY <1>1 DEF TypeOK
<1>3. ASSUME NEW s \in Sessions PROVE SessionInv(s)
  BY <1>1 DEF SessionInv, Connected
<1>4. ASSUME NEW c \in Calls PROVE CallInv(c)
  BY DEF CallInv
<1>5. QuietInv
  BY <1>1, GenerationsAssumption DEF QuietInv, Gens
<1>6. NoFalseAlarm
  BY DEF NoFalseAlarm
<1> QED BY <1>2, <1>3, <1>4, <1>5, <1>6 DEF GInv

-----------------------------------------------------------------------------
(* The manager.                                                            *)

\* Steps of the manager before the end of its wait, SIGTERM and deadlines
LEMMA ManagerKeeps ==
  ASSUME GInv, UNCHANGED <<gen, closed, toClose, closeDone, sessionVars, callVars, history>>,
         Alive, phase' \in {"start", "ready", "serve", "cancel", "stop", "close", "wait",
                            phase},
         {root', stopErr', expired', permanent'} \subseteq BOOLEAN,
         canceled' \subseteq Gens, failure' \subseteq failure
  PROVE  GInv'
<1>1. TypeOK'
  BY DEF GInv, TypeOK, sessionVars, callVars, history
<1>2. Alive' /\ (phase' = "backoff" => phase = "backoff")
  BY DEF Alive
<1>3. ASSUME NEW s \in Sessions PROVE SessionInv(s)'
  BY <1>2, SessionInv(s) DEF GInv, SessionInv, Connected, sessionVars, history
<1>4. ASSUME NEW c \in Calls PROVE CallInv(c)'
  BY <1>2, CallInv(c) DEF GInv, CallInv, sessionVars, callVars
<1>5. QuietInv'
  BY <1>2 DEF GInv, QuietInv, LiveWorkers, sessionVars
<1>6. NoFalseAlarm'
  BY DEF GInv, NoFalseAlarm, sessionVars, history
<1> QED BY <1>1, <1>3, <1>4, <1>5, <1>6 DEF GInv, Connected, sessionVars

\* The process ends: nothing is left to be dispatched.
LEMMA ExitKeeps ==
  ASSUME GInv, Exit,
         UNCHANGED <<gen, root, stopErr, expired, permanent, transportVars, history>>
  PROVE  GInv'
<1> USE DEF Exit, Enter, transportVars, history
<1>1. TypeOK'
  BY DEF GInv, TypeOK
<1>2. phase' = "exited" /\ ~Alive'
  BY DEF Alive
<1>3. ASSUME NEW s \in Sessions PROVE SessionInv(s)'
  BY <1>2, SessionInv(s) DEF GInv, SessionInv, Connected
<1>4. ASSUME NEW c \in Calls PROVE CallInv(c)'
  BY DEF CallInv
<1>5. QuietInv'
  BY <1>2 DEF GInv, QuietInv, LiveWorkers
<1>6. NoFalseAlarm'
  BY DEF GInv, NoFalseAlarm
<1> QED BY <1>1, <1>3, <1>4, <1>5, <1>6 DEF GInv, Connected

\* The wait ends with nothing left, or the process does.
LEMMA WaitKeeps ==
  ASSUME GInv, WaitReturns
  PROVE  GInv'
<1>1. CASE Exit
  BY <1>1, ExitKeeps DEF WaitReturns
<1>2. CASE Continue /\ LiveWorkers(gen) = {}
  <2> USE DEF WaitReturns, Continue, Enter, transportVars, sessionVars, callVars, history
  <2>1. TypeOK'
    BY <1>2 DEF GInv, TypeOK
  <2>2. Alive /\ Alive'
    BY <1>2 DEF Alive
  <2>3. ASSUME NEW s \in Sessions PROVE SessionInv(s)'
    BY <1>2, <2>2, SessionInv(s) DEF GInv, SessionInv, Connected
  <2>4. ASSUME NEW c \in Calls PROVE CallInv(c)'
    BY <1>2, <2>2, CallInv(c) DEF GInv, CallInv
  <2>5. gen \in closed
    BY DEF GInv, NoWorkers
  <2>6. QuietInv'
    BY <1>2, <2>5 DEF GInv, QuietInv, LiveWorkers
  <2>7. NoFalseAlarm'
    BY <1>2 DEF GInv, NoFalseAlarm
  <2> QED BY <1>2, <2>1, <2>3, <2>4, <2>6, <2>7 DEF GInv, Connected
<1> QED BY <1>1, <1>2 DEF WaitReturns

\* The next generation begins when the one before it is quiet.
LEMMA ReplaceKeeps ==
  ASSUME GInv, Replace
  PROVE  GInv'
<1> USE DEF Replace, Enter, transportVars, sessionVars, callVars, history
<1>1. gen \in Nat /\ gen' \in Gens /\ gen' = gen + 1
  BY GenerationsAssumption DEF GInv, TypeOK, Gens
<1>2. TypeOK'
  BY <1>1 DEF GInv, TypeOK
<1>3. Alive /\ Alive'
  BY DEF Alive
<1>4. ASSUME NEW s \in Sessions PROVE SessionInv(s)'
  <2>1. sgen[s] \in Nat
    BY GenerationsAssumption DEF GInv, TypeOK
  <2> QED BY <1>1, <1>3, <2>1, SessionInv(s) DEF GInv, SessionInv, Connected
<1>5. ASSUME NEW c \in Calls PROVE CallInv(c)'
  BY <1>3, CallInv(c) DEF GInv, CallInv
<1>6. QuietInv'
  <2> SUFFICES ASSUME NEW g \in Gens, g < gen + 1
               PROVE  g \in closed /\ LiveWorkers(g) = {}
    BY <1>1 DEF QuietInv, LiveWorkers
  <2>1. g < gen \/ g = gen
    BY <1>1 DEF Gens
  <2> QED BY <2>1 DEF GInv, QuietInv
<1>7. NoFalseAlarm'
  BY DEF GInv, NoFalseAlarm
<1> QED BY <1>2, <1>4, <1>5, <1>6, <1>7 DEF GInv, Connected

\* The steps of the manager keep the invariant.
LEMMA ManagerStepKeeps ==
  ASSUME GInv, Manager \/ FactoryFails \/ TunnelStops \/ Terminate \/ Expire
  PROVE  GInv'
<1>1. gen \in Gens /\ canceled \subseteq Gens /\ stopErr \in BOOLEAN
      /\ {root, expired, permanent} \subseteq BOOLEAN /\ failure \subseteq Gens
  BY DEF GInv, TypeOK
<1>2. CASE Create \/ Start \/ Readiness \/ RootDone \/ TunnelStops
  BY <1>1, <1>2, ManagerKeeps
     DEF Create, Start, Readiness, RootDone, TunnelStops, Enter, transportVars, Alive
<1>3. CASE ReceiveFailure \/ Cancel \/ StopReturns \/ CloseReturns
  BY <1>1, <1>3, ManagerKeeps
     DEF ReceiveFailure, Cancel, StopReturns, CloseReturns, Enter, transportVars, Alive
<1>4. CASE FactoryFails \/ Terminate \/ Expire
  BY <1>1, <1>4, ManagerKeeps
     DEF FactoryFails, Terminate, Expire, Enter, transportVars, Alive
<1>5. CASE WaitExpires \/ StopRunning
  BY <1>5, ExitKeeps DEF WaitExpires, StopRunning
<1> QED BY <1>2, <1>3, <1>4, <1>5, WaitKeeps, ReplaceKeeps DEF Manager

-----------------------------------------------------------------------------
(* Connect.                                                                *)

\* So does the beginning of a connection.
LEMMA ConnectBeginsKeeps ==
  ASSUME GInv, NEW s \in Sessions, ConnectBegins(s)
  PROVE  GInv'
<1> USE DEF ConnectBegins, managerVars, transportVars, callVars, history
<1>1. gen \in Gens /\ gen \in Nat /\ gen # 0 /\ Gens \subseteq 0..MaxGenerations
  BY GenerationsAssumption DEF GInv, TypeOK, Gens
<1>2. TypeOK'
  BY <1>1 DEF GInv, TypeOK
<1>3. s \notin sessions /\ s \notin closing /\ s \notin broken /\ once[s] = "no"
      /\ worker[s] = "none" /\ (\A g \in Gens : s \notin toClose[g])
  BY SessionInv(s) DEF GInv, TypeOK, SessionInv, Connected
<1>4. ASSUME NEW r \in Sessions PROVE SessionInv(r)'
  BY <1>1, <1>3, SessionInv(r) DEF GInv, TypeOK, SessionInv, Connected, Alive
<1>5. ASSUME NEW c \in Calls PROVE CallInv(c)'
  BY CallInv(c) DEF GInv, TypeOK, CallInv, Alive
<1>6. QuietInv'
  BY <1>3 DEF GInv, TypeOK, QuietInv, LiveWorkers
<1>7. NoFalseAlarm'
  BY <1>3 DEF GInv, TypeOK, NoFalseAlarm
<1>8. \A g \in Gens : \A r \in toClose[g] : Connected(r)'
  BY <1>3 DEF GInv, TypeOK, Connected
<1> QED BY <1>2, <1>4, <1>5, <1>6, <1>7, <1>8 DEF GInv

\* A replaced transport is closed and refuses.
LEMMA RegisterKeeps ==
  ASSUME GInv, NEW s \in Sessions, Register(s)
  PROVE  GInv'
<1> USE DEF Register, Refused, managerVars, transportVars, callVars, history
<1>1. TypeOK'
  BY DEF GInv, TypeOK
<1>2. s \notin sessions /\ s \notin closing /\ once[s] = "no" /\ worker[s] = "none"
      /\ sgen[s] # 0 /\ (\A g \in Gens : s \notin toClose[g])
  BY SessionInv(s) DEF GInv, TypeOK, SessionInv, Connected
<1>4. ASSUME NEW r \in Sessions PROVE SessionInv(r)'
  BY <1>2, SessionInv(r) DEF GInv, TypeOK, SessionInv, Connected, Alive
<1>5. ASSUME NEW c \in Calls PROVE CallInv(c)'
  BY CallInv(c) DEF GInv, TypeOK, CallInv, Alive
<1>6. QuietInv'
  BY DEF GInv, TypeOK, QuietInv, LiveWorkers
<1>7. NoFalseAlarm'
  BY DEF GInv, NoFalseAlarm
<1>8. \A g \in Gens : \A r \in toClose[g] : Connected(r)'
  BY <1>2 DEF GInv, TypeOK, Connected
<1> QED BY <1>1, <1>4, <1>5, <1>6, <1>7, <1>8 DEF GInv

\* So does the start of a worker.
LEMMA AddWorkerKeeps ==
  ASSUME GInv, NEW s \in Sessions, AddWorker(s)
  PROVE  GInv'
<1> USE DEF AddWorker, managerVars, transportVars, callVars, history
<1>1. TypeOK'
  BY DEF GInv, TypeOK
<1>2. ASSUME NEW r \in Sessions PROVE SessionInv(r)'
  BY SessionInv(r) DEF GInv, TypeOK, SessionInv, Connected, Alive
<1>3. ASSUME NEW c \in Calls PROVE CallInv(c)'
  BY CallInv(c) DEF GInv, TypeOK, CallInv, Alive
<1>4. QuietInv'
  BY DEF GInv, QuietInv, LiveWorkers
<1>5. NoFalseAlarm'
  BY DEF GInv, NoFalseAlarm
<1>6. \A g \in Gens : \A r \in toClose[g] : Connected(r)'
  BY DEF GInv, TypeOK, Connected
<1> QED BY <1>1, <1>2, <1>3, <1>4, <1>5, <1>6 DEF GInv

-----------------------------------------------------------------------------
(* Sessions and the close of a transport.                                  *)

\* session.close begins, for a session that Connect has registered.
LEMMA BeginCloseKeeps ==
  ASSUME GInv, Alive, NEW s \in Sessions, Connected(s), BeginClose(s),
         UNCHANGED <<managerVars, canceled, closed, closeDone, sgen, conn, sessions,
                     callVars, broken>>,
         toClose' \in [Gens -> SUBSET Sessions],
         \A g \in Gens : toClose'[g] \subseteq toClose[g],
         worker' = worker \/ (worker[s] = "waiting"
                              /\ worker' = [worker EXCEPT ![s] = "closing"]),
         dropped' \subseteq Sessions,
         failure' \subseteq Gens,
         \A g \in failure' : g \in failure \/ \E r \in broken : sgen[r] = g
  PROVE  GInv'
<1> USE DEF BeginClose, managerVars, callVars
<1>1. TypeOK'
  BY DEF GInv, TypeOK
<1>2. ASSUME NEW r \in Sessions PROVE SessionInv(r)'
  BY SessionInv(r) DEF GInv, TypeOK, SessionInv, Connected, Alive
<1>3. ASSUME NEW c \in Calls PROVE CallInv(c)'
  <2>1. \A r \in Sessions : once'[r] = "done" => once[r] = "done"
    BY DEF GInv, TypeOK
  <2>2. call[c] # "idle" => on[c] \in Sessions
    BY CallInv(c) DEF GInv, TypeOK, CallInv
  <2> QED BY <2>1, <2>2, CallInv(c) DEF GInv, CallInv, Alive
<1>4. QuietInv'
  BY DEF GInv, QuietInv, LiveWorkers
<1>5. NoFalseAlarm'
  BY DEF GInv, NoFalseAlarm
<1>6. \A g \in Gens : \A r \in toClose'[g] : Connected(r)'
  BY DEF GInv, Connected
<1> QED BY <1>1, <1>2, <1>3, <1>4, <1>5, <1>6 DEF GInv

\* Who begins it: the tunnel client, the worker, the close of the transport.
LEMMA ClosersKeep ==
  ASSUME GInv, NEW s \in Sessions,
         \/ ClientCloses(s) \/ WorkerWakes(s)
         \/ \E g \in Gens : CloseVisits(g, s)
  PROVE  GInv'
<1>1. toClose \in [Gens -> SUBSET Sessions] /\ dropped \subseteq Sessions
      /\ failure \subseteq Gens
  BY DEF GInv, TypeOK
<1>2. CASE ClientCloses(s)
  BY <1>1, <1>2, BeginCloseKeeps DEF ClientCloses, Connected, transportVars
<1>3. CASE WorkerWakes(s)
  <2>1. conn[s] = "returned" /\ sgen[s] \in Gens
    BY <1>3, SessionInv(s) DEF WorkerWakes, GInv, TypeOK, SessionInv, Gens
  <2>2. Unexpected(s) => s \in broken
    BY <1>3, <2>1, SessionInv(s)
       DEF WorkerWakes, Unexpected, GInv, SessionInv, Connected
  <2>3. failure' \subseteq Gens
        /\ \A g \in failure' : g \in failure \/ \E r \in broken : sgen[r] = g
    BY <1>1, <1>3, <2>1, <2>2 DEF WorkerWakes, Report
  <2> QED BY <1>1, <1>3, <2>1, <2>3, BeginCloseKeeps
          DEF WorkerWakes, Connected, history
<1>4. ASSUME NEW g \in Gens, CloseVisits(g, s) PROVE GInv'
  <2>1. Connected(s)
    BY <1>4 DEF CloseVisits, GInv
  <2>2. toClose' \in [Gens -> SUBSET Sessions]
        /\ \A h \in Gens : toClose'[h] \subseteq toClose[h]
    BY <1>1, <1>4 DEF CloseVisits
  <2> QED BY <1>1, <1>4, <2>1, <2>2, BeginCloseKeeps DEF CloseVisits, history
<1> QED BY <1>2, <1>3, <1>4

\* session.close ends when no call is on the session.
LEMMA EndCloseKeeps ==
  ASSUME GInv, NEW s \in Sessions, EndClose(s)
  PROVE  GInv'
<1> USE DEF EndClose, Drained, Idle, managerVars, transportVars, callVars, history
<1>1. TypeOK'
  BY DEF GInv, TypeOK
<1>2. ASSUME NEW r \in Sessions PROVE SessionInv(r)'
  BY SessionInv(r) DEF GInv, TypeOK, SessionInv, Connected, Alive
<1>3. ASSUME NEW c \in Calls PROVE CallInv(c)'
  <2>1. on[c] # s
    OBVIOUS
  <2> QED BY <2>1, CallInv(c) DEF GInv, TypeOK, CallInv, Alive
<1>4. QuietInv'
  BY DEF GInv, QuietInv, LiveWorkers
<1>5. NoFalseAlarm'
  BY DEF GInv, NoFalseAlarm
<1> QED BY <1>1, <1>2, <1>3, <1>4, <1>5 DEF GInv, Connected

\* A server session ends of itself; a worker returns.
LEMMA ServerKeeps ==
  ASSUME GInv, NEW s \in Sessions, ServerBreaks(s) \/ ServerEnds(s) \/ WorkerEnds(s)
  PROVE  GInv'
<1> USE DEF ServerBreaks, ServerEnds, WorkerEnds, managerVars, transportVars, callVars,
            history
<1>1. TypeOK'
  BY DEF GInv, TypeOK
<1>2. ASSUME NEW r \in Sessions PROVE SessionInv(r)'
  BY SessionInv(r) DEF GInv, TypeOK, SessionInv, Connected, Alive
<1>3. ASSUME NEW c \in Calls PROVE CallInv(c)'
  BY CallInv(c) DEF GInv, CallInv, Alive
<1>4. QuietInv'
  BY DEF GInv, QuietInv, LiveWorkers
<1>5. NoFalseAlarm'
  BY DEF GInv, NoFalseAlarm
<1> QED BY <1>1, <1>2, <1>3, <1>4, <1>5 DEF GInv, Connected

\* transport.Close begins and ends.
LEMMA CloseKeeps ==
  ASSUME GInv, NEW g \in Gens, CloseMarks(g) \/ CloseEnds(g)
  PROVE  GInv'
<1> USE DEF CloseMarks, CloseEnds, LiveWorkers, managerVars, sessionVars, callVars,
            history
<1>1. TypeOK'
  BY DEF GInv, TypeOK
<1>2. ASSUME NEW r \in Sessions PROVE SessionInv(r)'
  BY SessionInv(r) DEF GInv, SessionInv, Connected, Alive
<1>3. ASSUME NEW c \in Calls PROVE CallInv(c)'
  BY CallInv(c) DEF GInv, CallInv, Alive
<1>4. QuietInv'
  BY DEF GInv, QuietInv
<1>5. NoFalseAlarm'
  BY DEF GInv, NoFalseAlarm
<1>6. \A h \in Gens : \A r \in toClose'[h] : Connected(r)'
  BY DEF GInv, TypeOK, SessionInv, Connected
<1>7. closeDone' \subseteq closed'
  BY DEF GInv
<1> QED BY <1>1, <1>2, <1>3, <1>4, <1>5, <1>6, <1>7 DEF GInv

-----------------------------------------------------------------------------
(* Calls.                                                                  *)

\* So does the arrival of a call.
LEMMA ArriveKeeps ==
  ASSUME GInv, NEW c \in Calls, NEW s \in Sessions, Arrive(c, s)
  PROVE  GInv'
<1> USE DEF Arrive, managerVars, transportVars, sessionVars, history
<1>1. TypeOK'
  BY DEF GInv, TypeOK
<1>2. once[s] # "done"
  BY SessionInv(s) DEF GInv, SessionInv
<1>3. ASSUME NEW r \in Sessions PROVE SessionInv(r)'
  BY SessionInv(r) DEF GInv, SessionInv, Connected, Alive
<1>4. ASSUME NEW d \in Calls PROVE CallInv(d)'
  BY <1>2, CallInv(d), GenerationsAssumption DEF GInv, TypeOK, CallInv, Alive
<1>5. QuietInv' /\ NoFalseAlarm'
  BY DEF GInv, QuietInv, LiveWorkers, NoFalseAlarm
<1> QED BY <1>1, <1>3, <1>4, <1>5 DEF GInv, Connected

\* The gate of a generation: taken when it is free, freed by its holder.
LEMMA GateKeeps ==
  ASSUME GInv, NEW c \in Calls, Acquire(c) \/ GiveUp(c) \/ Release(c)
  PROVE  GInv'
<1> USE DEF Acquire, GiveUp, Release, GateFree, managerVars, transportVars, sessionVars,
            history
<1>0. ASSUME NEW d \in Calls, call[d] # "idle"
      PROVE  on[d] \in Sessions /\ sgen[on[d]] \in Gens
  <2>1. on[d] \in Sessions /\ conn[on[d]] = "returned"
    BY <1>0, CallInv(d) DEF GInv, TypeOK, CallInv
  <2> QED BY <2>1, SessionInv(on[d]) DEF GInv, TypeOK, SessionInv, Gens
<1>1. call[c] # "idle" /\ on[c] \in Sessions /\ sgen[on[c]] \in Gens
  BY <1>0
<1>2. TypeOK'
  BY <1>1 DEF GInv, TypeOK
<1>3. ASSUME NEW r \in Sessions PROVE SessionInv(r)'
  BY SessionInv(r) DEF GInv, SessionInv, Connected, Alive
<1>4. ASSUME NEW d \in Calls PROVE CallInv(d)'
  <2>1. CallInv(c) /\ CallInv(d)
    BY DEF GInv
  <2>2. d # c => call'[d] = call[d] /\ on'[d] = on[d]
    BY DEF GInv, TypeOK
  <2>3. CASE d = c
    BY <1>1, <2>1, <2>3, GenerationsAssumption DEF GInv, TypeOK, CallInv, Alive
  <2>4. CASE d # c
    <3>1. call[d] = "running" => token[sgen[on[d]]] = d
      BY <2>1 DEF CallInv
    <3>2. call[d] = "running" => token'[sgen[on[d]]] = d
      <4>1. token' = token \/ token' = [token EXCEPT ![sgen[on[c]]] = c]
                           \/ token' = [token EXCEPT ![sgen[on[c]]] = NoCall]
        OBVIOUS
      <4>2. sgen[on[d]] = sgen[on[c]] /\ call[d] = "running" => token' = token
        <5>1. Acquire(c) => token[sgen[on[c]]] = NoCall
          OBVIOUS
        <5>2. Release(c) => token[sgen[on[c]]] = c
          BY <2>1 DEF CallInv
        <5>3. NoCall # d
          BY GenerationsAssumption
        <5>4. GiveUp(c) => token' = token
          OBVIOUS
        <5> QED BY <2>4, <3>1, <5>1, <5>2, <5>3, <5>4
      <4> QED BY <1>0, <1>1, <3>1, <4>1, <4>2 DEF GInv, TypeOK
    <3> QED BY <2>1, <2>2, <2>4, <3>2 DEF CallInv, Alive
  <2> QED BY <2>3, <2>4
<1>5. QuietInv' /\ NoFalseAlarm'
  BY DEF GInv, QuietInv, LiveWorkers, NoFalseAlarm
<1> QED BY <1>2, <1>3, <1>4, <1>5 DEF GInv, Connected

-----------------------------------------------------------------------------

\* The invariant of the generations is inductive.
LEMMA GInvNext == GInv /\ [Next]_vars => GInv'
<1> SUFFICES ASSUME GInv, [Next]_vars PROVE GInv'
  OBVIOUS
<1>1. CASE Manager \/ FactoryFails \/ TunnelStops \/ Terminate \/ Expire
  BY <1>1, ManagerStepKeeps
<1>2. ASSUME NEW g \in Gens, Transport(g) PROVE GInv'
  BY <1>2, CloseKeeps, ClosersKeep DEF Transport
<1>3. ASSUME NEW s \in Sessions,
             \/ ConnectBegins(s) \/ Register(s) \/ AddWorker(s)
             \/ ClientCloses(s) \/ ServerBreaks(s) \/ Session(s)
      PROVE  GInv'
  BY <1>3, ConnectBeginsKeeps, RegisterKeeps, AddWorkerKeeps, ClosersKeep,
     EndCloseKeeps, ServerKeeps DEF Session
<1>4. ASSUME NEW c \in Calls, NEW s \in Sessions, Arrive(c, s) PROVE GInv'
  BY <1>4, ArriveKeeps
<1>5. ASSUME NEW c \in Calls, Acquire(c) \/ GiveUp(c) \/ Release(c) PROVE GInv'
  BY <1>5, GateKeeps
<1>6. CASE UNCHANGED vars
  <2> USE <1>6 DEF vars, managerVars, transportVars, sessionVars, callVars, history
  <2>1. TypeOK' /\ QuietInv' /\ NoFalseAlarm'
    BY DEF GInv, TypeOK, QuietInv, LiveWorkers, NoFalseAlarm
  <2>2. ASSUME NEW s \in Sessions PROVE SessionInv(s)'
    BY SessionInv(s) DEF GInv, SessionInv, Connected, Alive
  <2>3. ASSUME NEW c \in Calls PROVE CallInv(c)'
    BY CallInv(c) DEF GInv, CallInv, Alive
  <2> QED BY <2>1, <2>2, <2>3 DEF GInv, Connected
<1> QED BY <1>1, <1>2, <1>3, <1>4, <1>5, <1>6 DEF Next

\* What is not closed yet is in the map, and only the map of the generation that
\* runs has sessions; so two running calls share a gate.
LEMMA RunningIsCurrent ==
  ASSUME GInv, NEW c \in Calls, call[c] # "idle"
  PROVE  on[c] \in sessions /\ sgen[on[c]] = gen
<1>1. on[c] \in Sessions /\ Alive /\ conn[on[c]] = "returned" /\ once[on[c]] # "done"
  BY CallInv(c) DEF GInv, TypeOK, CallInv
<1>2. on[c] \in sessions /\ sgen[on[c]] <= gen /\ sgen[on[c]] # 0
  BY <1>1, SessionInv(on[c]) DEF GInv, SessionInv, Connected
<1>3. sgen[on[c]] \in Gens /\ gen \in Nat
  BY <1>1, <1>2 DEF GInv, TypeOK, Gens
<1>4. ~(sgen[on[c]] < gen)
  BY <1>1, <1>2, <1>3 DEF GInv, QuietInv, LiveWorkers
<1> QED BY <1>2, <1>3, <1>4 DEF Gens

\* It holds in every reachable state.
LEMMA GInvHolds == Spec => []GInv
BY GInvInit, GInvNext, PTL DEF Spec

\* Manager, transport, sessions and gate keep the states that generation.go and
\* restartable_transport.go give them.
THEOREM TypeCorrect == Spec => []TypeOK
<1>1. GInv => TypeOK
  BY DEF GInv
<1> QED BY GInvHolds, <1>1, PTL

\* mcp.go, generation.go: one call at a time is in Dispatcher.Dispatch, across
\* all generations and their gates.
THEOREM OneDispatchHolds == Spec => []OneDispatch
<1>1. GInv => OneDispatch
  <2> SUFFICES ASSUME GInv PROVE OneDispatch
    OBVIOUS
  <2> DEFINE running == {c \in Calls : call[c] = "running"}
  <2>1. ASSUME NEW c \in running, NEW d \in running PROVE c = d
    <3>1. sgen[on[c]] = gen /\ sgen[on[d]] = gen
      BY RunningIsCurrent
    <3>2. token[sgen[on[c]]] = c /\ token[sgen[on[d]]] = d
      BY CallInv(c), CallInv(d) DEF GInv, CallInv
    <3> QED BY <3>1, <3>2
  <2>2. CASE running = {}
    BY <2>2, FS_EmptySet DEF OneDispatch
  <2>3. CASE running # {}
    <3>1. PICK c : running = {c}
      BY <2>1, <2>3
    <3>2. Cardinality({c}) = 1
      BY FS_Singleton
    <3> QED BY <3>1, <3>2 DEF OneDispatch
  <2> QED BY <2>2, <2>3
<1> QED BY GInvHolds, <1>1, PTL

\* generation.go, restartable_transport.go: when a replacement exists, no session
\* and no call of an old generation is left, even if a Connect overtook the cleanup.
THEOREM OldGenerationsAreQuietHolds == Spec => []OldGenerationsAreQuiet
<1>1. GInv => OldGenerationsAreQuiet
  <2> SUFFICES ASSUME GInv, NEW s \in Sessions, sgen[s] \in 1..(gen - 1)
               PROVE  s \notin sessions /\ Idle(s)
    BY DEF OldGenerationsAreQuiet
  <2>1. gen \in Nat /\ sgen[s] \in Gens /\ sgen[s] < gen
    BY DEF GInv, TypeOK, Gens
  <2>2. s \notin sessions
    BY <2>1 DEF GInv, QuietInv, LiveWorkers
  <2>3. ASSUME NEW c \in Calls, on[c] = s PROVE FALSE
    <3>1. call[c] # "idle"
      BY <2>3, CallInv(c), GenerationsAssumption DEF GInv, CallInv
    <3> QED BY <2>2, <2>3, <3>1, RunningIsCurrent
  <2> QED BY <2>2, <2>3 DEF Idle
<1> QED BY GInvHolds, <1>1, PTL

\* restartable_transport.go: an error is in the failure channel of a transport
\* only if one of its sessions ended of itself.
THEOREM NoFalseAlarmHolds == Spec => []NoFalseAlarm
<1>1. GInv => NoFalseAlarm
  BY DEF GInv
<1> QED BY GInvHolds, <1>1, PTL
=============================================================================
