---------------------------- MODULE TokenBucket ----------------------------
(***************************************************************************)
(* The per-WAN packet budget: reserve() in ebpf/bpf/observer.bpf.c.        *)
(*                                                                         *)
(* emit() reads the clock, may be delayed, and then reserves `repeat`      *)
(* copies from the bucket of its interface slot under the bucket's spin    *)
(* lock.  Tokens are kept multiplied by FF_NS, so a second of clock adds   *)
(* rate*FF_NS.  Several CPUs emit at once, and a reload may replace the    *)
(* rate, the burst and the repeat count between two reservations.          *)
(***************************************************************************)
EXTENDS KernelClock

CONSTANTS
    Cpus,         \* the CPUs that run the observer
    NS,           \* FF_NS: clock ticks of a second
    MaxRate,      \* upper bound of injection.max_packets_per_second
    MaxBurst,     \* upper bound of injection.burst
    Configs,      \* the configurations a reload can activate
    MaxTriggers   \* bound of this model on the number of emit() calls

ASSUME BucketAssumption ==
    /\ NS \in Nat \ {0}
    /\ MaxRate \in Nat \ {0}
    /\ MaxBurst \in Nat \ {0}
    /\ MaxTriggers \in Nat
    /\ Configs \subseteq [rate : 1 .. MaxRate, burst : 1 .. MaxBurst, repeat : 1 .. MaxBurst]
    /\ \A c \in Configs : c.repeat <= c.burst

VARIABLES
    clock,     \* bpf_ktime_get_ns()
    active,    \* the configuration configuration() returns
    bucket,    \* struct ff_budget: at, tokens
    pc,        \* per CPU: "idle", or "reserve" once emit() has read the clock
    now,       \* per CPU: the reading emit() took
    config,    \* per CPU: the configuration the observer looked up
    spent,     \* history: tokens handed out since the first reservation
    since,     \* history: the reading of the first reservation
    stale,     \* history: some reservation used a reading older than bucket.at
    calls      \* history: emit() calls so far, bounded by MaxTriggers

vars == <<clock, active, bucket, pc, now, config, spent, since, stale, calls>>

TypeOK ==
    /\ clock \in 1 .. MaxClock
    /\ active \in Configs
    /\ bucket \in [at : Readings, tokens : Nat]
    /\ pc \in [Cpus -> {"idle", "reserve"}]
    /\ now \in [Cpus -> 1 .. MaxClock]
    /\ config \in [Cpus -> Configs]
    /\ spent \in Nat
    /\ since \in Readings
    /\ stale \in BOOLEAN
    /\ calls \in 0 .. MaxTriggers

Init ==
    /\ clock = 1
    /\ active \in Configs
    /\ bucket = [at |-> 0, tokens |-> 0]
    /\ pc = [p \in Cpus |-> "idle"]
    /\ now = [p \in Cpus |-> 1]
    /\ config = [p \in Cpus |-> active]
    /\ spent = 0
    /\ since = 0
    /\ stale = FALSE
    /\ calls = 0

----------------------------------------------------------------------------
(* The arithmetic of reserve().                                            *)

Limit(c) == c.burst * NS

Capped(tokens, c) == IF tokens > Limit(c) THEN Limit(c) ELSE tokens

\* A bucket that was never used is filled before anything is taken from it.
Opened(b, c, t) == IF b.at = 0 THEN [at |-> t, tokens |-> Limit(c)] ELSE b

UncappedRefill(b, c, t) ==
    LET elapsed == Elapsed(t, b.at)
    IN  IF elapsed <= Limit(c) \div c.rate
        THEN b.tokens + elapsed * c.rate
        ELSE b.tokens + Limit(c)

OverdueIsEmpty(b, c, t) ==
    LET elapsed == Elapsed(t, b.at)
    IN  IF elapsed <= Limit(c) \div c.rate
        THEN Capped(b.tokens + elapsed * c.rate, c)
        ELSE b.tokens

\* The division keeps elapsed*rate from overflowing; beyond it the bucket is full.
Refilled(b, c, t) ==
    LET elapsed == Elapsed(t, b.at)
    IN  IF elapsed <= Limit(c) \div c.rate
        THEN Capped(b.tokens + elapsed * c.rate, c)
        ELSE Limit(c)

\* A mutant that charges one packet for the whole batch.
PriceOfOne(c) == NS

Price(c) == c.repeat * NS

Charge(c) == c.repeat * NS

----------------------------------------------------------------------------
\* The clock is CLOCK_MONOTONIC and shared by all CPUs.
Tick ==
    /\ clock < MaxClock
    /\ clock' = clock + 1
    /\ UNCHANGED <<active, bucket, pc, now, config, spent, since, stale, calls>>

\* publish() of a reload makes another configuration active.
Reload(c) ==
    /\ c # active
    /\ active' = c
    /\ UNCHANGED <<clock, bucket, pc, now, config, spent, since, stale, calls>>

\* observe() looks the configuration up, emit() reads the clock.
EnterEmit(p) ==
    /\ pc[p] = "idle"
    /\ calls < MaxTriggers
    /\ calls' = calls + 1
    /\ pc' = [pc EXCEPT ![p] = "reserve"]
    /\ now' = [now EXCEPT ![p] = clock]
    /\ config' = [config EXCEPT ![p] = active]
    /\ UNCHANGED <<clock, active, bucket, spent, since, stale>>

\* The critical section: refill, then take repeat packets if they are there.
Reserve(p) ==
    LET c      == config[p]
        open   == Opened(bucket, c, now[p])
        tokens == Refilled(open, c, now[p])
        ok     == tokens >= Price(c)
    IN  /\ pc[p] = "reserve"
        /\ pc' = [pc EXCEPT ![p] = "idle"]
        /\ bucket' = [at |-> now[p], tokens |-> IF ok THEN tokens - Charge(c) ELSE tokens]
        /\ spent' = IF ok THEN spent + Price(c) ELSE spent
        /\ since' = IF bucket.at = 0 THEN now[p] ELSE since
        /\ stale' = (stale \/ now[p] < bucket.at)
        /\ UNCHANGED <<clock, active, now, config, calls>>

Next ==
    \/ Tick
    \/ \E c \in Configs : Reload(c)
    \/ \E p \in Cpus : EnterEmit(p) \/ Reserve(p)

Spec == Init /\ [][Next]_vars

----------------------------------------------------------------------------
\* The bucket never holds more than the largest burst, whatever the readings
\* of the CPUs and the order of reloads: reserve() clips at the burst of the
\* configuration it runs under and then only takes away.
BucketBelowBurst == bucket.tokens <= MaxBurst * NS

\* What the WAN may have been sent by now: one burst, and the rate since the
\* first reservation (docs/ebpf-implementation-spec.md:286).
BudgetHolds == spent <= MaxBurst * NS + MaxRate * (clock - since)

\* The budget holds as long as no reservation ran with a clock reading that
\* is older than the bucket's time stamp: reserve() subtracts two readings
\* without a comparison, and an older one fills the bucket.
BudgetHoldsInOrder == ~stale => BudgetHolds

\* An exhausted bucket recovers: a reservation that comes after enough idle
\* time to earn its own price is never refused, whatever the rounding of
\* burst/rate in reserve().
IdleBucketAdmits ==
    [][\A p \in Cpus :
          (/\ pc[p] = "reserve" /\ pc'[p] = "idle"
           /\ (now[p] - bucket.at) * config[p].rate >= config[p].repeat * NS)
          => spent' > spent]_vars
=============================================================================
