----------------------------- MODULE Generations -----------------------------
(***************************************************************************)
(* Tunnel generations (generation.go), the restartable MCP transport of a  *)
(* generation (restartable_transport.go) and the call gate (mcp.go).       *)
(*                                                                         *)
(* The manager runs one generation after another: it starts a tunnel       *)
(* client, waits until the generation fails, then cancels, stops, closes   *)
(* and waits before it makes a replacement.  The tunnel client opens and   *)
(* closes MCP sessions concurrently; each session has a worker goroutine   *)
(* and runs call handlers.  Every generation has a call gate of its own,   *)
(* but all share one Dispatcher: that one call at a time is dispatched     *)
(* rests on the gate within a generation and on the cleanup between them.  *)
(*                                                                         *)
(* External: the tunnel client, which may still be inside Connect after    *)
(* Stop has returned, and the MCP SDK, whose ServerSession.Close refuses   *)
(* new requests and returns when the ongoing ones have returned.           *)
(***************************************************************************)
EXTENDS Naturals, FiniteSets

CONSTANTS
    Sessions,        \* MCP sessions, of all generations
    Calls,           \* call_hec requests
    NoSession, NoCall,
    MaxGenerations   \* bound of the model

ASSUME GenerationsAssumption ==
    /\ NoSession \notin Sessions /\ NoCall \notin Calls
    /\ MaxGenerations \in Nat \ {0}

Gens == 1..MaxGenerations

VARIABLES
    gen,        \* the generation that runs
    phase,      \* where generationManager.Run is
    root,       \* has the root context (SIGTERM) been canceled?
    stopErr,    \* did client.Stop run into its deadline?
    expired,    \* has the cleanup deadline passed?
    permanent,  \* did the tunnel client factory fail?
    canceled,   \* generations whose context is canceled
    closed,     \* transports marked closed
    toClose,    \* sessions a transport's Close has still to close
    closeDone,  \* transports whose Close has ended (closeOnce)
    failure,    \* transports with an error in their failure channel
    sgen,       \* the generation of a session, 0 before Connect
    conn,       \* how far Connect of a session got
    sessions,   \* sessions in the map of their transport
    closing,    \* sessions marked closing
    once,       \* session.close: not begun, running or done (closeOnce)
    server,     \* the SDK's server session
    worker,     \* the worker goroutine of a session
    call, on,   \* the state and the session of a call
    token,      \* the call that holds the gate of a generation
    broken,     \* history: server sessions that ended of themselves
    dropped     \* history: sessions the tunnel client closed

managerVars   == <<gen, phase, root, stopErr, expired, permanent>>
transportVars == <<canceled, closed, toClose, closeDone, failure>>
sessionVars   == <<sgen, conn, sessions, closing, once, server, worker>>
callVars      == <<call, on, token>>
history       == <<broken, dropped>>
vars == <<managerVars, transportVars, sessionVars, callVars, history>>

TypeOK ==
    /\ gen \in Gens
    /\ phase \in {"create", "start", "ready", "serve", "cancel", "stop", "close",
                  "wait", "backoff", "exited"}
    /\ {root, stopErr, expired, permanent} \subseteq BOOLEAN
    /\ {canceled, closed, closeDone, failure} \subseteq SUBSET Gens
    /\ toClose \in [Gens -> SUBSET Sessions]
    /\ sgen \in [Sessions -> 0..MaxGenerations]
    /\ conn \in [Sessions -> {"none", "setup", "registered", "returned",
                              "refused"}]
    /\ {sessions, closing, broken, dropped} \subseteq SUBSET Sessions
    /\ once \in [Sessions -> {"no", "running", "done"}]
    /\ server \in [Sessions -> {"none", "open", "draining", "ended"}]
    /\ worker \in [Sessions -> {"none", "waiting", "closing", "done"}]
    /\ call \in [Calls -> {"idle", "queued", "running"}]
    /\ on \in [Calls -> Sessions \cup {NoSession}]
    /\ token \in [Gens -> Calls \cup {NoCall}]

Init ==
    /\ gen = 1 /\ phase = "create"
    /\ root = FALSE /\ stopErr = FALSE /\ expired = FALSE /\ permanent = FALSE
    /\ canceled = {} /\ closed = {} /\ closeDone = {} /\ failure = {}
    /\ toClose = [g \in Gens |-> {}]
    /\ sgen = [s \in Sessions |-> 0]
    /\ conn = [s \in Sessions |-> "none"]
    /\ sessions = {} /\ closing = {}
    /\ once = [s \in Sessions |-> "no"]
    /\ server = [s \in Sessions |-> "none"]
    /\ worker = [s \in Sessions |-> "none"]
    /\ call = [c \in Calls |-> "idle"]
    /\ on = [c \in Calls |-> NoSession]
    /\ token = [g \in Gens |-> NoCall]
    /\ broken = {} /\ dropped = {}

Alive == phase # "exited"

-----------------------------------------------------------------------------
(* The manager.                                                            *)

Enter(p) == phase' = p

\* The factory refuses the configuration: no client, nothing to stop.
FactoryFails ==
    /\ phase = "create"
    /\ permanent' = TRUE
    /\ canceled' = canceled \cup {gen}
    /\ Enter("close")
    /\ UNCHANGED <<gen, root, stopErr, expired, closed, toClose, closeDone, failure,
                   sessionVars, callVars, history>>

Create ==
    /\ phase = "create"
    /\ Enter("start")
    /\ UNCHANGED <<gen, root, stopErr, expired, permanent, transportVars,
                   sessionVars, callVars, history>>

\* client.Start, which may fail.
Start ==
    /\ phase = "start"
    /\ Enter("ready") \/ Enter("cancel")
    /\ UNCHANGED <<gen, root, stopErr, expired, permanent, transportVars,
                   sessionVars, callVars, history>>

\* The client is ready, has stopped, or is not ready within 60 seconds.
Readiness ==
    /\ phase = "ready"
    /\ Enter("serve") \/ Enter("cancel")
    /\ UNCHANGED <<gen, root, stopErr, expired, permanent, transportVars,
                   sessionVars, callVars, history>>

TunnelStops ==
    /\ phase = "serve"
    /\ Enter("cancel")
    /\ UNCHANGED <<gen, root, stopErr, expired, permanent, transportVars,
                   sessionVars, callVars, history>>

ReceiveFailure ==
    /\ phase \in {"ready", "serve"}
    /\ gen \in failure
    /\ failure' = failure \ {gen}
    /\ Enter("cancel")
    /\ UNCHANGED <<gen, root, stopErr, expired, permanent, canceled, closed,
                   toClose, closeDone, sessionVars, callVars, history>>

RootDone ==
    /\ phase \in {"ready", "serve"} /\ root
    /\ Enter("cancel")
    /\ UNCHANGED <<gen, root, stopErr, expired, permanent, transportVars,
                   sessionVars, callVars, history>>

\* SIGTERM; the context of the generation is a child of the root context.
Terminate ==
    /\ Alive /\ ~root
    /\ root' = TRUE
    /\ canceled' = canceled \cup {gen}
    /\ UNCHANGED <<gen, phase, stopErr, expired, permanent, closed, toClose,
                   closeDone, failure, sessionVars, callVars, history>>

\* cleanupGeneration
Cancel ==
    /\ phase = "cancel"
    /\ canceled' = canceled \cup {gen}
    /\ Enter("stop")
    /\ UNCHANGED <<gen, root, stopErr, expired, permanent, closed, toClose,
                   closeDone, failure, sessionVars, callVars, history>>

\* client.Stop is bounded by its own deadline and by that of the cleanup.
StopReturns ==
    /\ phase = "stop"
    /\ stopErr' \in BOOLEAN
    /\ Enter("close")
    /\ UNCHANGED <<gen, root, expired, permanent, transportVars, sessionVars,
                   callVars, history>>

Expire ==
    /\ phase \in {"stop", "close", "wait"} /\ ~expired
    /\ expired' = TRUE
    /\ UNCHANGED <<gen, phase, root, stopErr, permanent, transportVars,
                   sessionVars, callVars, history>>

\* transport.Close is bounded by no deadline: it returns when the one run of
\* its body, here or in the watcher goroutine, has ended.
CloseReturns ==
    /\ phase = "close"
    /\ gen \in closeDone
    /\ Enter("wait")
    /\ UNCHANGED <<gen, root, stopErr, expired, permanent, transportVars,
                   sessionVars, callVars, history>>

\* The WaitGroup counts the watcher and the workers that were added so far.
NoWorkers(g) ==
    /\ g \in closeDone
    /\ \A s \in Sessions :
         sgen[s] = g => worker[s] \in {"none", "done"}

LiveWorkers(g) == {s \in sessions : sgen[s] = g}

\* The whole process ends: nothing of it runs on.
Exit ==
    /\ Enter("exited")
    /\ call' = [c \in Calls |-> "idle"]
    /\ on' = [c \in Calls |-> NoSession]
    /\ token' = [g \in Gens |-> NoCall]
    /\ sessions' = {}
    /\ UNCHANGED <<sgen, conn, closing, once, server, worker>>

Continue ==
    /\ Enter("backoff")
    /\ UNCHANGED <<sessionVars, callVars>>

WaitReturns ==
    /\ phase = "wait"
    /\ NoWorkers(gen)
    /\ IF LiveWorkers(gen) # {} \/ stopErr \/ permanent \/ root
       THEN Exit ELSE Continue
    /\ UNCHANGED <<gen, root, stopErr, expired, permanent, transportVars, history>>

WaitExpires ==
    /\ phase = "wait" /\ expired
    /\ Exit
    /\ UNCHANGED <<gen, root, stopErr, expired, permanent, transportVars, history>>

\* sleepContext, then the next generation.
Replace ==
    /\ phase = "backoff" /\ ~root /\ gen < MaxGenerations
    /\ gen' = gen + 1
    /\ Enter("create")
    /\ stopErr' = FALSE /\ expired' = FALSE
    /\ UNCHANGED <<root, permanent, transportVars, sessionVars, callVars, history>>

StopRunning ==
    /\ phase = "backoff" /\ root
    /\ Exit
    /\ UNCHANGED <<gen, root, stopErr, expired, permanent, transportVars, history>>

-----------------------------------------------------------------------------
(* The transport: Connect, in goroutines of the tunnel client.             *)

\* The context is checked, then a pair of transports and a server session
\* are made.
ConnectBegins(s) ==
    /\ phase \in {"start", "ready", "serve", "cancel"}
    /\ conn[s] = "none"
    /\ gen \notin canceled
    /\ sgen' = [sgen EXCEPT ![s] = gen]
    /\ conn' = [conn EXCEPT ![s] = "setup"]
    /\ server' = [server EXCEPT ![s] = "open"]
    /\ UNCHANGED <<managerVars, transportVars, sessions, closing, once, worker,
                   callVars, history>>

\* Mutant of Refused: Connect checks the context only once.
NeverRefused(g) == FALSE

Refused(g) == g \in closed

\* Under the mutex: refuse if closed, otherwise enter the map.
Register(s) ==
    /\ Alive /\ conn[s] = "setup"
    /\ IF Refused(sgen[s])
       THEN /\ conn' = [conn EXCEPT ![s] = "refused"]
            /\ server' = [server EXCEPT ![s] = "ended"]
            /\ UNCHANGED sessions
       ELSE /\ conn' = [conn EXCEPT ![s] = "registered"]
            /\ sessions' = sessions \cup {s}
            /\ UNCHANGED server
    /\ UNCHANGED <<managerVars, transportVars, sgen, closing, once, worker,
                   callVars, history>>

\* workers.Add, after the mutex has been released.
AddWorker(s) ==
    /\ Alive /\ conn[s] = "registered"
    /\ conn' = [conn EXCEPT ![s] = "returned"]
    /\ worker' = [worker EXCEPT ![s] = "waiting"]
    /\ UNCHANGED <<managerVars, transportVars, sgen, sessions, closing, once,
                   server, callVars, history>>

-----------------------------------------------------------------------------
(* Sessions.  session.close marks the session closing, closes the client   *)
(* connection and the server session, and leaves the map -- once.          *)

Idle(s) == \A c \in Calls : on[c] # s

BeginClose(s) ==
    /\ closing' = closing \cup {s}
    /\ once' = [once EXCEPT ![s] = IF @ = "no" THEN "running" ELSE @]
    /\ server' = [server EXCEPT ![s] = IF @ = "open" THEN "draining" ELSE @]

\* Mutant of Drained: close waits for the worker, which waits for close.
DrainedAndWoken(s) == Idle(s) /\ worker[s] \in {"none", "done"}

\* serverSession.Close has returned: no request of the session is left.
Drained(s) == Idle(s)

EndClose(s) ==
    /\ Alive /\ once[s] = "running"
    /\ Drained(s)
    /\ once' = [once EXCEPT ![s] = "done"]
    /\ server' = [server EXCEPT ![s] = "ended"]
    /\ sessions' = sessions \ {s}
    /\ UNCHANGED <<managerVars, transportVars, sgen, conn, closing, worker,
                   callVars, history>>

\* The tunnel client closes its connection.
ClientCloses(s) ==
    /\ Alive /\ conn[s] = "returned" /\ s \notin dropped
    /\ dropped' = dropped \cup {s}
    /\ BeginClose(s)
    /\ UNCHANGED <<managerVars, transportVars, sgen, conn, sessions, worker,
                   callVars, broken>>

\* The server session ends of itself: its connection breaks, or the deadline
\* it was connected with passes.
ServerBreaks(s) ==
    /\ Alive /\ server[s] = "open"
    /\ server' = [server EXCEPT ![s] = "draining"]
    /\ broken' = broken \cup {s}
    /\ UNCHANGED <<managerVars, transportVars, sgen, conn, sessions, closing, once,
                   worker, callVars, dropped>>

ServerEnds(s) ==
    /\ Alive /\ server[s] = "draining" /\ Idle(s)
    /\ server' = [server EXCEPT ![s] = "ended"]
    /\ UNCHANGED <<managerVars, transportVars, sgen, conn, sessions, closing, once,
                   worker, callVars, history>>

\* Mutant of Unexpected: every end of a session is a failure.
AnyEnd(s) == sgen[s] \notin canceled

Unexpected(s) == s \notin closing /\ sgen[s] \notin canceled

\* Mutant of Report: an unbuffered channel keeps nothing for later.
ReportUnbuffered(g) ==
    failure' = IF phase \in {"ready", "serve"} THEN failure \cup {g} ELSE failure

\* A channel of one element; more errors are dropped.
Report(g) == failure' = failure \cup {g}

\* serverSession.Wait has returned.
WorkerWakes(s) ==
    /\ Alive /\ worker[s] = "waiting" /\ server[s] = "ended"
    /\ IF Unexpected(s) THEN Report(sgen[s]) ELSE UNCHANGED failure
    /\ worker' = [worker EXCEPT ![s] = "closing"]
    /\ BeginClose(s)
    /\ UNCHANGED <<managerVars, canceled, closed, toClose, closeDone, sgen, conn,
                   sessions, callVars, history>>

\* session.close(false) has returned.
WorkerEnds(s) ==
    /\ Alive /\ worker[s] = "closing" /\ once[s] = "done"
    /\ worker' = [worker EXCEPT ![s] = "done"]
    /\ UNCHANGED <<managerVars, transportVars, sgen, conn, sessions, closing, once,
                   server, callVars, history>>

-----------------------------------------------------------------------------
(* transport.Close, run once, by the watcher or by the manager.            *)

CloseMarks(g) ==
    /\ Alive /\ g \in canceled \ closed
    /\ closed' = closed \cup {g}
    /\ toClose' = [toClose EXCEPT ![g] = LiveWorkers(g)]
    /\ UNCHANGED <<managerVars, canceled, closeDone, failure, sessionVars,
                   callVars, history>>

\* session.close(true) of one session after the other.
CloseVisits(g, s) ==
    /\ Alive /\ s \in toClose[g]
    /\ \A r \in Sessions \ toClose[g] : sgen[r] = g => once[r] # "running"
    /\ toClose' = [toClose EXCEPT ![g] = @ \ {s}]
    /\ BeginClose(s)
    /\ UNCHANGED <<managerVars, canceled, closed, closeDone, failure, sgen, conn,
                   sessions, worker, callVars, history>>

CloseEnds(g) ==
    /\ Alive /\ g \in closed \ closeDone
    /\ toClose[g] = {}
    /\ \A s \in Sessions : sgen[s] = g => once[s] # "running"
    /\ closeDone' = closeDone \cup {g}
    /\ UNCHANGED <<managerVars, canceled, closed, toClose, failure, sessionVars,
                   callVars, history>>

-----------------------------------------------------------------------------
(* Calls: publicCallHandler.dispatch.                                      *)

Arrive(c, s) ==
    /\ Alive /\ call[c] = "idle"
    /\ conn[s] = "returned" /\ server[s] = "open"
    /\ call' = [call EXCEPT ![c] = "queued"]
    /\ on' = [on EXCEPT ![c] = s]
    /\ UNCHANGED <<managerVars, transportVars, sessionVars, token, history>>

\* Mutant of GateFree: no gate.
NoGate(g) == TRUE

GateFree(g) == token[g] = NoCall

Acquire(c) ==
    /\ call[c] = "queued"
    /\ GateFree(sgen[on[c]])
    /\ token' = [token EXCEPT ![sgen[on[c]]] = c]
    /\ call' = [call EXCEPT ![c] = "running"]
    /\ UNCHANGED <<managerVars, transportVars, sessionVars, on, history>>

\* Mutant of GiveUp: the call is put on the wrong sentinel.
GiveUpToNoCall(c) ==
    /\ call[c] = "queued"
    /\ call' = [call EXCEPT ![c] = "idle"]
    /\ on' = [on EXCEPT ![c] = NoCall]
    /\ UNCHANGED <<managerVars, transportVars, sessionVars, token, history>>

\* queue_timeout, or canceled while waiting.
GiveUp(c) ==
    /\ call[c] = "queued"
    /\ call' = [call EXCEPT ![c] = "idle"]
    /\ on' = [on EXCEPT ![c] = NoSession]
    /\ UNCHANGED <<managerVars, transportVars, sessionVars, token, history>>

\* Dispatch has returned or panicked, or was skipped because the deadline had
\* passed; the deferred release frees the gate.
Release(c) ==
    /\ call[c] = "running"
    /\ token' = [token EXCEPT ![sgen[on[c]]] = NoCall]
    /\ call' = [call EXCEPT ![c] = "idle"]
    /\ on' = [on EXCEPT ![c] = NoSession]
    /\ UNCHANGED <<managerVars, transportVars, sessionVars, history>>

-----------------------------------------------------------------------------

Manager ==
    \/ Create \/ Start \/ Readiness \/ RootDone \/ ReceiveFailure
    \/ Cancel \/ StopReturns \/ CloseReturns \/ WaitReturns \/ WaitExpires
    \/ Replace \/ StopRunning

Transport(g) == CloseMarks(g) \/ CloseEnds(g) \/ \E s \in Sessions : CloseVisits(g, s)

Session(s) == EndClose(s) \/ ServerEnds(s) \/ WorkerWakes(s) \/ WorkerEnds(s)

Next ==
    \/ Manager
    \/ FactoryFails \/ TunnelStops \/ Terminate \/ Expire
    \/ \E g \in Gens : Transport(g)
    \/ \E s \in Sessions :
         \/ ConnectBegins(s) \/ Register(s) \/ AddWorker(s)
         \/ ClientCloses(s) \/ ServerBreaks(s) \/ Session(s)
    \/ \E c \in Calls :
         \/ \E s \in Sessions : Arrive(c, s)
         \/ Acquire(c) \/ GiveUp(c) \/ Release(c)

Spec == Init /\ [][Next]_vars

\* The Go scheduler runs every goroutine, deadlines pass, and a call leaves
\* the queue after ten seconds at the latest.
Progress ==
    /\ WF_vars(Manager) /\ WF_vars(Expire) /\ SF_vars(ReceiveFailure)
    /\ \A g \in Gens : WF_vars(Transport(g))
    /\ \A s \in Sessions : WF_vars(Session(s)) /\ WF_vars(Register(s) \/ AddWorker(s))
    /\ \A c \in Calls : WF_vars(Acquire(c) \/ GiveUp(c))

\* Nothing bounds the time an operation takes that does not watch its context
\* (a flock, a copy of a file) ...
SpecSlowCalls == Spec /\ Progress

\* ... but, short of a deadlock, it ends.
FairSpec == SpecSlowCalls /\ \A c \in Calls : WF_vars(Release(c))

-----------------------------------------------------------------------------
(* Properties.                                                             *)

\* One call at a time is in Dispatcher.Dispatch, although every generation
\* makes a gate of its own: the assumption on which KeyedMutation is Gated.
OneDispatch == Cardinality({c \in Calls : call[c] = "running"}) <= 1

\* When a replacement exists, the old generations have no session in a map,
\* no call in the queue and none in dispatch -- even if a Connect overtook
\* the cleanup.
OldGenerationsAreQuiet ==
    \A s \in Sessions :
        sgen[s] \in 1..(gen - 1) => s \notin sessions /\ Idle(s)

\* A generation is failed only for a session that ended of itself: closing a
\* connection, or the transport, is never taken for a failure.
NoFalseAlarm == \A g \in failure : \E s \in broken : sgen[s] = g

\* A session that ends of itself ends its generation, whatever the manager
\* was doing at that moment, unless the tunnel client closed it as well.
BrokenSessionEndsGeneration ==
    \A s \in Sessions :
        s \in broken ~> s \in dropped \/ gen > sgen[s]
                        \/ phase \in {"backoff", "exited"}

\* The cleanup of a generation ends: with a replacement, or with the end of
\* the process when it cannot be completed within ten seconds.
CleanupEnds ==
    phase \in {"stop", "close", "wait"} ~> phase \in {"backoff", "exited"}
=============================================================================
