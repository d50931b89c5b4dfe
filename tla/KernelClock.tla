---------------------------- MODULE KernelClock ----------------------------
(***************************************************************************)
(* bpf_ktime_get_ns() and the unsigned 64-bit arithmetic the datapath does *)
(* on its readings.  Every observer program reads the clock before it      *)
(* takes the spin lock that guards the state it is about to age, so the    *)
(* reading used under the lock may be older than the time stamp found      *)
(* there, and the C expression now-then wraps.                             *)
(***************************************************************************)
EXTENDS Integers

CONSTANTS
    TimeMod,     \* 2^64: the modulus of a __u64
    MaxClock     \* the last clock reading considered

\* 2^64 nanoseconds are 584 years: readings stay in the lower half of a u64.
ASSUME ClockAssumption ==
    /\ TimeMod \in Nat
    /\ MaxClock \in Nat \ {0}
    /\ 2 * MaxClock < TimeMod

Readings == 0 .. MaxClock

\* now-then in __u64.
Elapsed(now, then) == IF now >= then THEN now - then ELSE TimeMod - (then - now)
=============================================================================
