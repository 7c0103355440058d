------------------------------- MODULE Callers -------------------------------
(***************************************************************************)
(* The processes that execute operations: the service, whose call gate     *)
(* admits one call at a time, and `hec call` commands, which execute one   *)
(* call each.  Modules of operations on files and on other programs extend *)
(* this one; every call is a sequence of steps, and a process may die      *)
(* between any two of them.                                                *)
(***************************************************************************)
EXTENDS Naturals

CONSTANTS
    Callers, Service,         \* the processes; the service is one of them
    MaxCalls, MaxFailures     \* bounds of the model

ASSUME CallersAssumption ==
    /\ Service \in Callers
    /\ {MaxCalls, MaxFailures} \subseteq Nat

VARIABLES
    pc, op,      \* each caller's next step and the operation it executes
    calls,       \* bounded by MaxCalls
    failures     \* deaths and errors, bounded by MaxFailures

callers == <<pc, op, calls, failures>>

CallersInit ==
    /\ pc = [c \in Callers |-> "idle"]
    /\ op = [c \in Callers |-> "none"]
    /\ calls = 0 /\ failures = 0

\* A call begins; its operation goes on to a step.
Enter(c, o, step) ==
    /\ pc[c] = "idle" /\ calls < MaxCalls
    /\ calls' = calls + 1
    /\ op' = [op EXCEPT ![c] = o]
    /\ pc' = [pc EXCEPT ![c] = step]
    /\ UNCHANGED failures

Goto(c, step) ==
    /\ pc' = [pc EXCEPT ![c] = step]
    /\ UNCHANGED <<op, calls, failures>>

Leave(c) ==
    /\ pc' = [pc EXCEPT ![c] = "idle"]
    /\ op' = [op EXCEPT ![c] = "none"]
    /\ UNCHANGED calls

Return(c) == Leave(c) /\ UNCHANGED failures

Failure == failures < MaxFailures /\ failures' = failures + 1

\* A step fails and the call goes on to another one, or ends.
GotoFailing(c, step) ==
    /\ Failure
    /\ pc' = [pc EXCEPT ![c] = step]
    /\ UNCHANGED <<op, calls>>

ReturnFailing(c) == Failure /\ Leave(c)
=============================================================================
