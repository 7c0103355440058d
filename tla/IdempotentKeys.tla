--------------------------- MODULE IdempotentKeys ---------------------------
(***************************************************************************)
(* What the idempotency keys of HEC promise, without calls, locks, crashes *)
(* or files: a fresh key is claimed for one request, the request takes     *)
(* effect at most once, its result is settled at most once and only after  *)
(* the effect, and only a settled key may become fresh again.  A key that  *)
(* is claimed and never settled (an ambiguous outcome) stays claimed.      *)
(***************************************************************************)
EXTENDS Naturals

CONSTANTS Keys, Requests, Results, NoRequest, NoResult

VARIABLES entry,    \* what is known of a key: its state, request and result
          effects   \* how often the request of a key has taken effect

vars == <<entry, effects>>

Fresh == [state |-> "none", req |-> NoRequest, result |-> NoResult]

Claimed(r) == [state |-> "in_progress", req |-> r, result |-> NoResult]

Settled(r, v) == [state |-> "completed", req |-> r, result |-> v]

Init ==
    /\ entry = [k \in Keys |-> Fresh]
    /\ effects = [k \in Keys |-> 0]

Claim(k, r) ==
    /\ entry[k] = Fresh
    /\ entry' = [entry EXCEPT ![k] = Claimed(r)]
    /\ UNCHANGED effects

Effect(k, r) ==
    /\ entry[k] = Claimed(r)
    /\ effects[k] = 0
    /\ effects' = [effects EXCEPT ![k] = 1]
    /\ UNCHANGED entry

Settle(k, r, v) ==
    /\ entry[k] = Claimed(r)
    /\ effects[k] = 1
    /\ entry' = [entry EXCEPT ![k] = Settled(r, v)]
    /\ UNCHANGED effects

Expire(k, r, v) ==
    /\ entry[k] = Settled(r, v)
    /\ entry' = [entry EXCEPT ![k] = Fresh]
    /\ effects' = [effects EXCEPT ![k] = 0]

Next ==
    \E k \in Keys, r \in Requests :
        \/ Claim(k, r)
        \/ Effect(k, r)
        \/ \E v \in Results : Settle(k, r, v) \/ Expire(k, r, v)

Spec == Init /\ [][Next]_vars
=============================================================================
