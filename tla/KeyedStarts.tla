----------------------------- MODULE KeyedStarts -----------------------------
(***************************************************************************)
(* What the idempotency key of a job.start promises, without calls, locks, *)
(* files, deaths or systemd: the key names one job, under an identifier    *)
(* that no start had before it; no other job is launched for it; the       *)
(* outcome is settled once, and only after the launch; all answers repeat  *)
(* it.  A job that HEC v0.0.11 started under the key is adopted, and as    *)
(* long as the old mapping leads to it no other job is started.  The key   *)
(* becomes free when its start is settled and no longer retained, or when  *)
(* the job that it names is being forgotten and the old mapping no longer  *)
(* leads to it.  A start that is not settled is never dropped otherwise.   *)
(***************************************************************************)
CONSTANTS Jobs, NoJob

VARIABLES named,      \* the job of the key, or NoJob
          outcome,    \* how its start ended, or "none"
          launched,   \* the jobs for which a launch was requested
          answers,    \* what clients were told
          mapped,     \* the job that v0.0.11 started under the key, or NoJob
          spent,      \* the identifiers that were used up
          dropped     \* the jobs that are being forgotten

vars == <<named, outcome, launched, answers, mapped, spent, dropped>>

Outcomes == {"started", "job_start_failed"}

Init ==
    /\ named = NoJob /\ outcome = "none" /\ launched = {} /\ answers = {}
    /\ mapped \in Jobs \cup {NoJob}
    /\ spent = {mapped} \ {NoJob}
    /\ dropped = {}

\* A start that came to nothing before the key named its job.
Waste(j) ==
    /\ j \notin spent
    /\ spent' = spent \cup {j}
    /\ UNCHANGED <<named, outcome, launched, answers, mapped, dropped>>

Claim(j) ==
    /\ named = NoJob /\ mapped = NoJob /\ j \notin spent
    /\ named' = j
    /\ spent' = spent \cup {j}
    /\ UNCHANGED <<outcome, launched, answers, mapped, dropped>>

\* v0.0.11 launched the job, or left it to be launched.
Adopt ==
    /\ named = NoJob /\ mapped # NoJob
    /\ named' = mapped
    /\ outcome' \in {"none", "started"}
    /\ UNCHANGED <<launched, answers, mapped, spent, dropped>>

Launch ==
    /\ named # NoJob /\ outcome = "none"
    /\ launched' = {named}
    /\ UNCHANGED <<named, outcome, answers, mapped, spent, dropped>>

Settle(v) ==
    /\ outcome = "none" /\ launched = {named}
    /\ outcome' = v
    /\ UNCHANGED <<named, launched, answers, mapped, spent, dropped>>

Answer ==
    /\ outcome # "none"
    /\ answers' = {<<named, outcome>>}
    /\ UNCHANGED <<named, outcome, launched, mapped, spent, dropped>>

Forget(j) ==
    /\ j \in spent
    /\ dropped' = dropped \cup {j}
    /\ UNCHANGED <<named, outcome, launched, answers, mapped, spent>>

Unmap ==
    /\ mapped \in dropped
    /\ mapped' = NoJob
    /\ UNCHANGED <<named, outcome, launched, answers, spent, dropped>>

Expire ==
    /\ named # NoJob
    /\ outcome # "none" \/ (named \in dropped /\ mapped # named)
    /\ named' = NoJob /\ outcome' = "none" /\ launched' = {} /\ answers' = {}
    /\ UNCHANGED <<mapped, spent, dropped>>

Next ==
    \/ Adopt \/ Launch \/ Answer \/ Unmap \/ Expire
    \/ \E j \in Jobs : Waste(j) \/ Claim(j) \/ Forget(j)
    \/ \E v \in Outcomes : Settle(v)

Spec == Init /\ [][Next]_vars
=============================================================================
