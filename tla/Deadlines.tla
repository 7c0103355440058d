------------------------------ MODULE Deadlines ------------------------------
(***************************************************************************)
(* The durations of deadlines.go and their users, as arithmetic on 64-bit  *)
(* integers: milliseconds come from the arguments of a call as an int64    *)
(* and a time.Duration is an int64 of nanoseconds, whose product wraps.    *)
(* Instants are integers of nanoseconds.                                   *)
(***************************************************************************)
EXTENDS Integers

MaxInt64 == 9223372036854775807
Int64    == (-MaxInt64 - 1)..MaxInt64

\* A result of Go's arithmetic on int64
Wrapped(x) ==
    ((x + 9223372036854775808) % 18446744073709551616) - 9223372036854775808

Millisecond == 1000000
Second      == 1000 * Millisecond

MaxDirectCall           == 90 * Second
MaxJobWait              == 15 * Second
ResponseDeliveryReserve == 10 * Second

-----------------------------------------------------------------------------

\* time.Duration(ms) * time.Millisecond, which the runner of a job computes
\* from its specification without a check
Multiplied(ms) == Wrapped(ms * Millisecond)

Accepted(ms) == ~(ms < 0 \/ ms > MaxInt64 \div Millisecond)

\* What durationFromMilliseconds returns when it accepts its argument
DurationFromMilliseconds(ms) == Multiplied(ms)

\* A timeout of at most max, max when it is zero
Bounded(ms, max) ==
    IF DurationFromMilliseconds(ms) = 0 THEN max ELSE DurationFromMilliseconds(ms)

AcceptedUpTo(ms, max) == Accepted(ms) /\ ~(DurationFromMilliseconds(ms) > max)

DirectRunTimeout(ms) == Bounded(ms, MaxDirectCall)
JobWaitTimeout(ms)   == Bounded(ms, MaxJobWait)

\* directCallContext: the deadline of a call that begins at now, under a context
\* with a deadline (without one it is ninety seconds later)
DirectCallDeadline(now, callerDeadline) ==
    IF callerDeadline - ResponseDeliveryReserve < now + MaxDirectCall
    THEN callerDeadline - ResponseDeliveryReserve
    ELSE now + MaxDirectCall

\* context.WithTimeout below it: the earlier of the two deadlines
RunDeadline(start, ms, callDeadline) ==
    IF callDeadline < start + DirectRunTimeout(ms)
    THEN callDeadline
    ELSE start + DirectRunTimeout(ms)

\* jobWait: the time it may wait, of which none may be left
WaitBudget(start, ms, callDeadline) ==
    IF callDeadline - start < JobWaitTimeout(ms)
    THEN callDeadline - start
    ELSE JobWaitTimeout(ms)
=============================================================================
