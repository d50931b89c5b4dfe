------------------------- MODULE TokenBucket_proof -------------------------
(***************************************************************************)
(* Proofs about TokenBucket, for every number of CPUs, every rate and      *)
(* burst, and every length of the second in clock ticks.                   *)
(***************************************************************************)
EXTENDS TokenBucket, TLAPS

\* What the two history variables say of the bucket: while every reservation
\* ran in clock order, what was spent and what is left together never exceed
\* one burst and the rate earned up to the bucket's time stamp.
Accounted ==
    /\ bucket.at = 0 => spent = 0 /\ since = 0
    /\ ~stale => /\ since <= bucket.at
                 /\ bucket.at <= clock
                 /\ spent + bucket.tokens <= MaxBurst * NS + MaxRate * (bucket.at - since)

NowNotAhead == \A p \in Cpus : now[p] <= clock

----------------------------------------------------------------------------
(* Arithmetic the provers do not do by themselves.                         *)

LEMMA ProductNat == \A x, y \in Nat : x * y \in Nat
  BY SMT

LEMMA MultMonotone == ASSUME NEW x \in Nat, NEW y \in Nat, NEW z \in Nat, x <= y
                      PROVE  x * z <= y * z
  <1>1. PICK d \in Nat : y = x + d
    <2>1. y - x \in Nat /\ y = x + (y - x)
      OBVIOUS
    <2> QED BY <2>1
  <1>2. y * z = x * z + d * z
    BY <1>1
  <1>3. d * z \in Nat
    BY ProductNat
  <1> QED BY <1>2, <1>3, ProductNat

\* Beyond limit/rate, the time elapsed earns more than the limit.
LEMMA DivisionGuard == ASSUME NEW limit \in Nat, NEW rate \in Nat \ {0}, NEW e \in Nat,
                              ~(e <= limit \div rate)
                       PROVE  limit <= e * rate
  <1> DEFINE q == limit \div rate
  <1>1. q \in Nat /\ limit < q * rate + rate
    BY SMT
  <1>2. q + 1 <= e
    BY <1>1
  <1>3. (q + 1) * rate <= e * rate
    BY <1>1, <1>2, MultMonotone
  <1>4. (q + 1) * rate = q * rate + rate
    BY <1>1
  <1> QED BY <1>1, <1>3, <1>4, ProductNat

----------------------------------------------------------------------------
(* The operators reserve() is made of.                                     *)

LEMMA ConfigFacts == ASSUME NEW c \in Configs
                     PROVE  /\ c.rate \in Nat \ {0} /\ c.rate <= MaxRate
                            /\ c.burst \in Nat /\ c.burst <= MaxBurst
                            /\ Limit(c) \in Nat /\ Limit(c) <= MaxBurst * NS
                            /\ Price(c) \in Nat /\ Charge(c) = Price(c)
  <1>1. /\ c.rate \in 1 .. MaxRate /\ c.burst \in 1 .. MaxBurst /\ c.repeat \in 1 .. MaxBurst
        /\ MaxRate \in Nat /\ MaxBurst \in Nat /\ NS \in Nat
    BY BucketAssumption
  <1>2. c.burst * NS <= MaxBurst * NS
    BY <1>1, MultMonotone
  <1> QED BY <1>1, <1>2, ProductNat DEF Limit, Price, Charge

\* A batch costs something, and no more than the burst.
LEMMA PriceWithinBurst == ASSUME NEW c \in Configs
                          PROVE  Price(c) \in Nat /\ Price(c) # 0 /\ Price(c) <= Limit(c)
  <1>1. c.repeat \in Nat \ {0} /\ c.burst \in Nat /\ c.repeat <= c.burst /\ NS \in Nat \ {0}
    BY BucketAssumption
  <1>2. c.repeat * NS <= c.burst * NS /\ 1 * NS <= c.repeat * NS /\ c.repeat * NS \in Nat
    BY <1>1, MultMonotone, ProductNat
  <1> QED BY <1>1, <1>2 DEF Price, Limit

LEMMA ElapsedNat == ASSUME NEW t \in Readings, NEW u \in Readings
                    PROVE  Elapsed(t, u) \in Nat
  BY ClockAssumption DEF Elapsed, Readings

\* A refill never leaves more than the burst of the configuration it ran under.
LEMMA RefillBound == ASSUME NEW c \in Configs, NEW t \in Readings,
                            NEW b \in [at : Readings, tokens : Nat]
                     PROVE  Refilled(b, c, t) \in Nat /\ Refilled(b, c, t) <= Limit(c)
  <1> DEFINE e == Elapsed(t, b.at)
  <1>1. e \in Nat /\ b.tokens \in Nat
    BY ElapsedNat
  <1>2. e * c.rate \in Nat
    BY <1>1, ConfigFacts, ProductNat
  <1>3. Limit(c) \in Nat
    BY ConfigFacts
  <1> HIDE DEF e
  <1>4. /\ Capped(b.tokens + e * c.rate, c) \in Nat
        /\ Capped(b.tokens + e * c.rate, c) <= Limit(c)
    BY <1>1, <1>2, <1>3 DEF Capped
  <1> QED BY <1>3, <1>4 DEF Refilled, e

\* With a reading that is not older than the bucket's, a refill adds at most
\* what the largest rate earns in the time between them.
LEMMA RefillEarned == ASSUME NEW c \in Configs, NEW t \in Readings,
                             NEW b \in [at : Readings, tokens : Nat], b.at <= t
                      PROVE  Refilled(b, c, t) <= b.tokens + MaxRate * (t - b.at)
  <1> DEFINE e == Elapsed(t, b.at)
             earned == e * c.rate
             most == MaxRate * e
  <1>1. e = t - b.at /\ e \in Nat /\ b.tokens \in Nat
    BY ElapsedNat DEF Elapsed, Readings
  <1>2. c.rate \in Nat \ {0} /\ c.rate <= MaxRate /\ MaxRate \in Nat /\ Limit(c) \in Nat
    BY ConfigFacts, BucketAssumption
  <1>3. MaxRate * (t - b.at) = most
    BY <1>1
  <1> HIDE DEF e
  <1>4. earned <= most /\ earned \in Nat /\ most \in Nat
    BY <1>1, <1>2, MultMonotone, ProductNat
  <1>5. Refilled(b, c, t) <= b.tokens + most
    <2>1. CASE e <= Limit(c) \div c.rate
      <3>1. Refilled(b, c, t) = Capped(b.tokens + earned, c)
        BY <2>1 DEF Refilled, e
      <3> HIDE DEF earned, most
      <3>2. Capped(b.tokens + earned, c) <= b.tokens + earned
        BY <1>1, <1>2, <1>4 DEF Capped
      <3>3. Capped(b.tokens + earned, c) \in Nat
        BY <1>1, <1>2, <1>4 DEF Capped
      <3> QED BY <1>1, <1>4, <3>1, <3>2, <3>3
    <2>2. CASE ~(e <= Limit(c) \div c.rate)
      <3>1. Refilled(b, c, t) = Limit(c)
        BY <2>2 DEF Refilled, e
      <3>2. Limit(c) <= earned
        BY <1>1, <1>2, <2>2, DivisionGuard
      <3> HIDE DEF earned, most
      <3> QED BY <1>1, <1>2, <1>4, <3>1, <3>2
    <2> QED BY <2>1, <2>2
  <1> QED BY <1>3, <1>5

LEMMA OpenedType == ASSUME NEW c \in Configs, NEW t \in 1 .. MaxClock,
                           NEW b \in [at : Readings, tokens : Nat]
                    PROVE  Opened(b, c, t) \in [at : Readings, tokens : Nat]
  BY ConfigFacts, ClockAssumption DEF Opened, Readings

----------------------------------------------------------------------------
\* Every value the datapath keeps for a bucket has its type; in particular
\* `b->tokens -= repeat*FF_NS` never goes below zero.
THEOREM TypeCorrect == Spec => []TypeOK
  <1>1. Init => TypeOK
    <2>1. 1 \in 1 .. MaxClock /\ 0 \in Readings /\ 0 \in 0 .. MaxTriggers
      BY ClockAssumption, BucketAssumption DEF Readings
    <2> SUFFICES ASSUME Init PROVE TypeOK
      OBVIOUS
    <2>2. bucket \in [at : Readings, tokens : Nat] /\ stale \in BOOLEAN
      BY <2>1 DEF Init
    <2>3. /\ pc \in [Cpus -> {"idle", "reserve"}]
          /\ now \in [Cpus -> 1 .. MaxClock]
          /\ config \in [Cpus -> Configs]
      BY <2>1 DEF Init
    <2> QED BY <2>1, <2>2, <2>3 DEF Init, TypeOK
  <1>2. TypeOK /\ [Next]_vars => TypeOK'
    <2> SUFFICES ASSUME TypeOK, [Next]_vars PROVE TypeOK'
      OBVIOUS
    <2> USE ClockAssumption, BucketAssumption DEF TypeOK
    <2>1. CASE Tick
      BY <2>1 DEF Tick
    <2>2. ASSUME NEW c \in Configs, Reload(c) PROVE TypeOK'
      BY <2>2 DEF Reload
    <2>3. ASSUME NEW p \in Cpus, EnterEmit(p) PROVE TypeOK'
      BY <2>3 DEF EnterEmit
    <2>4. ASSUME NEW p \in Cpus, Reserve(p) PROVE TypeOK'
      <3> DEFINE c == config[p]
                 t == now[p]
                 tokens == Refilled(Opened(bucket, c, t), c, t)
                 left == IF tokens >= Price(c) THEN tokens - Charge(c) ELSE tokens
      <3>1. c \in Configs /\ t \in 1 .. MaxClock /\ t \in Readings
        BY <2>4 DEF Reserve, Readings
      <3>2. tokens \in Nat
        BY <3>1, OpenedType, RefillBound
      <3>3. Price(c) \in Nat /\ Charge(c) = Price(c)
        BY <3>1, ConfigFacts
      <3> HIDE DEF tokens, c, t
      <3>4. left \in Nat
        BY <3>2, <3>3
      <3>5. bucket' \in [at : Readings, tokens : Nat]
        <4>1. bucket' = [at |-> t, tokens |-> left]
          BY <2>4 DEF Reserve, c, t, tokens
        <4> QED BY <4>1, <3>1, <3>4
      <3>6. spent' \in Nat
        <4>1. spent' = spent + Price(c) \/ spent' = spent
          BY <2>4 DEF Reserve, c
        <4> QED BY <4>1, <3>3
      <3>7. since' \in Readings
        BY <2>4, <3>1 DEF Reserve, t
      <3>8. pc' \in [Cpus -> {"idle", "reserve"}] /\ stale' \in BOOLEAN
        BY <2>4 DEF Reserve
      <3>9. UNCHANGED <<clock, active, now, config, calls>>
        BY <2>4 DEF Reserve
      <3> QED BY <3>5, <3>6, <3>7, <3>8, <3>9
    <2>5. CASE UNCHANGED vars
      BY <2>5 DEF vars
    <2> QED BY <2>1, <2>2, <2>3, <2>4, <2>5 DEF Next
  <1> QED BY <1>1, <1>2, PTL DEF Spec

----------------------------------------------------------------------------
\* A bucket holds at most one burst, in every order of reservations and reloads.
THEOREM BurstIsACeiling == Spec => []BucketBelowBurst
  <1>1. Init => BucketBelowBurst
    <2>1. MaxBurst * NS \in Nat
      BY BucketAssumption, ProductNat
    <2> QED BY <2>1 DEF Init, BucketBelowBurst
  <1>2. TypeOK /\ BucketBelowBurst /\ [Next]_vars => BucketBelowBurst'
    <2> SUFFICES ASSUME TypeOK, BucketBelowBurst, [Next]_vars PROVE BucketBelowBurst'
      OBVIOUS
    <2>1. ASSUME UNCHANGED bucket PROVE BucketBelowBurst'
      BY <2>1 DEF BucketBelowBurst
    <2>2. ASSUME NEW p \in Cpus, Reserve(p) PROVE BucketBelowBurst'
      <3> DEFINE c == config[p]
                 tokens == Refilled(Opened(bucket, c, now[p]), c, now[p])
                 most == MaxBurst * NS
      <3>1. c \in Configs /\ now[p] \in 1 .. MaxClock /\ now[p] \in Readings
            /\ bucket \in [at : Readings, tokens : Nat]
        BY ClockAssumption DEF TypeOK, Readings
      <3>2. tokens \in Nat /\ tokens <= Limit(c)
        BY <3>1, OpenedType, RefillBound
      <3>3. Limit(c) \in Nat /\ Limit(c) <= most /\ Price(c) \in Nat /\ Charge(c) = Price(c)
            /\ most \in Nat
        BY <3>1, ConfigFacts, BucketAssumption, ProductNat
      <3>4. bucket'.tokens = tokens \/ bucket'.tokens = tokens - Price(c)
        BY <2>2, <3>3 DEF Reserve
      <3> HIDE DEF tokens, c, most
      <3>5. bucket'.tokens <= most
        BY <3>2, <3>3, <3>4
      <3> QED BY <3>5 DEF BucketBelowBurst, most
    <2> QED BY <2>1, <2>2 DEF Next, Tick, Reload, EnterEmit, vars
  <1> QED BY <1>1, <1>2, TypeCorrect, PTL DEF Spec

----------------------------------------------------------------------------
\* A CPU never holds a reading of the future.
LEMMA ReadingsArePast == Spec => []NowNotAhead
  <1>1. Init => NowNotAhead
    BY DEF Init, NowNotAhead
  <1>2. TypeOK /\ NowNotAhead /\ [Next]_vars => NowNotAhead'
    BY DEF TypeOK, NowNotAhead, Next, Tick, Reload, EnterEmit, Reserve, vars
  <1> QED BY <1>1, <1>2, TypeCorrect, PTL DEF Spec

\* The inductive step of the budget: what a reservation hands out is in the
\* bucket or earned since its last time stamp.
LEMMA ReserveKeepsAccount ==
    ASSUME TypeOK, TypeOK', NowNotAhead, Accounted, NEW p \in Cpus, Reserve(p)
    PROVE  Accounted'
  <1> DEFINE c == config[p]
             t == now[p]
             open == Opened(bucket, c, t)
             tokens == Refilled(open, c, t)
             most == MaxBurst * NS
  <1>1. /\ c \in Configs /\ t \in 1 .. MaxClock /\ t \in Readings /\ t <= clock /\ t # 0
        /\ bucket \in [at : Readings, tokens : Nat] /\ clock \in Nat /\ spent \in Nat
        /\ since \in Nat /\ bucket.at \in Nat /\ bucket.tokens \in Nat
    BY ClockAssumption DEF TypeOK, Readings, NowNotAhead
  <1>2. /\ open \in [at : Readings, tokens : Nat] /\ tokens \in Nat /\ tokens <= Limit(c)
        /\ open.at \in Nat /\ open.tokens \in Nat
    BY <1>1, OpenedType, RefillBound, ClockAssumption DEF Readings
  <1>3. /\ Price(c) \in Nat /\ Charge(c) = Price(c) /\ most \in Nat
        /\ Limit(c) \in Nat /\ Limit(c) <= most /\ MaxRate \in Nat
    BY <1>1, ConfigFacts, BucketAssumption, ProductNat
  <1>4. /\ bucket'.at = t
        /\ since' = IF bucket.at = 0 THEN t ELSE since
        /\ stale' = (stale \/ t < bucket.at)
        /\ clock' = clock
    BY <1>1 DEF Reserve
  <1>5. /\ bucket'.tokens \in Nat
        /\ spent' \in Nat
        /\ spent' + bucket'.tokens = spent + tokens
    <2>1. CASE tokens >= Price(c)
      <3>1. bucket'.tokens = tokens - Price(c) /\ spent' = spent + Price(c)
        BY <2>1, <1>3 DEF Reserve
      <3> HIDE DEF tokens, c
      <3> QED BY <1>1, <1>2, <1>3, <2>1, <3>1
    <2>2. CASE ~(tokens >= Price(c))
      <3>1. bucket'.tokens = tokens /\ spent' = spent
        BY <2>2, <1>3 DEF Reserve
      <3> HIDE DEF tokens, c
      <3> QED BY <1>1, <1>2, <3>1
    <2> QED BY <2>1, <2>2
  <1>6. CASE bucket.at = 0
    <2>1. spent = 0 /\ since' = t
      BY <1>4, <1>6 DEF Accounted
    <2>2. MaxRate * (bucket'.at - since') = 0
      BY <2>1, <1>1, <1>3, <1>4
    <2> HIDE DEF tokens, c, most, t, open
    <2>3. spent' + bucket'.tokens <= most
      BY <2>1, <1>2, <1>3, <1>5
    <2>4. spent' + bucket'.tokens <= most + MaxRate * (bucket'.at - since')
      BY <2>2, <2>3, <1>3
    <2> QED BY <2>1, <2>4, <1>1, <1>4 DEF Accounted, most
  <1>7. CASE bucket.at # 0 /\ ~stale'
    <2>1. ~stale /\ bucket.at <= t /\ since' = since /\ open = bucket
      <3>1. ~stale /\ ~(t < bucket.at)
        <4> HIDE DEF t
        <4> QED BY <1>4, <1>7, Zenon
      <3>2. open = bucket
        BY <1>7 DEF Opened
      <3>3. since' = since
        BY <1>4, <1>7
      <3>4. bucket.at <= t
        <4> HIDE DEF t
        <4> QED BY <3>1, <1>1
      <3> QED BY <3>1, <3>2, <3>3, <3>4
    <2>2. since <= bucket.at /\ spent + bucket.tokens <= most + MaxRate * (bucket.at - since)
      BY <2>1 DEF Accounted
    <2>3. tokens <= bucket.tokens + MaxRate * (t - bucket.at)
      BY <2>1, <1>1, RefillEarned
    <2>4. PICK d1 \in Nat, d2 \in Nat : bucket.at - since = d1 /\ t - bucket.at = d2
      BY <2>1, <2>2, <1>1
    <2>5. MaxRate * (d1 + d2) = MaxRate * d1 + MaxRate * d2
      BY <1>3
    <2>6. MaxRate * d1 \in Nat /\ MaxRate * d2 \in Nat
      BY <1>3, ProductNat
    <2>7. bucket'.at - since' = d1 + d2
      BY <2>1, <2>4, <1>1, <1>4
    <2> DEFINE x1 == MaxRate * d1
               x2 == MaxRate * d2
    <2>8. spent + bucket.tokens <= most + x1 /\ tokens <= bucket.tokens + x2
      BY <2>2, <2>3, <2>4
    <2>9. x1 \in Nat /\ x2 \in Nat /\ MaxRate * (bucket'.at - since') = x1 + x2
      BY <2>5, <2>6, <2>7
    <2> HIDE DEF x1, x2, tokens, most, c, t, open
    <2>10. spent' + bucket'.tokens <= most + (x1 + x2)
      BY <2>8, <2>9, <1>1, <1>2, <1>3, <1>5
    <2>11. spent' + bucket'.tokens <= most + MaxRate * (bucket'.at - since')
      BY <2>9, <2>10
    <2>12. since' <= bucket'.at /\ bucket'.at <= clock' /\ bucket'.at # 0
      BY <2>1, <2>2, <1>1, <1>4
    <2> QED BY <2>11, <2>12 DEF Accounted, most
  <1>8. CASE bucket.at # 0 /\ stale'
    BY <1>1, <1>4, <1>8 DEF Accounted
  <1> QED BY <1>6, <1>7, <1>8, <1>4 DEF TypeOK

\* What was spent is accounted for in every reachable state.
LEMMA AccountKept == Spec => []Accounted
  <1>1. Init => Accounted
    <2> SUFFICES ASSUME Init PROVE Accounted
      OBVIOUS
    <2>1. MaxBurst * NS \in Nat /\ MaxRate \in Nat
      BY BucketAssumption, ProductNat
    <2>2. MaxRate * (0 - 0) = 0
      BY <2>1
    <2> QED BY <2>1, <2>2 DEF Init, Accounted
  <1>2. TypeOK /\ TypeOK' /\ NowNotAhead /\ Accounted /\ [Next]_vars => Accounted'
    <2> SUFFICES ASSUME TypeOK, TypeOK', NowNotAhead, Accounted, [Next]_vars
                 PROVE  Accounted'
      OBVIOUS
    <2>1. CASE Tick
      <3>1. UNCHANGED <<bucket, spent, since, stale>> /\ clock' = clock + 1
        BY <2>1 DEF Tick
      <3> QED BY <3>1 DEF Accounted, TypeOK, Readings
    <2>2. ASSUME NEW p \in Cpus, Reserve(p) PROVE Accounted'
      BY <2>2, ReserveKeepsAccount
    <2>3. ASSUME UNCHANGED <<bucket, spent, since, stale, clock>> PROVE Accounted'
      BY <2>3 DEF Accounted
    <2> QED BY <2>1, <2>2, <2>3 DEF Next, Reload, EnterEmit, vars
  <1> QED BY <1>1, <1>2, TypeCorrect, ReadingsArePast, PTL DEF Spec

\* The per-WAN budget holds for as long as no CPU reserves with a clock
\* reading older than the bucket's time stamp.
THEOREM BudgetIsKept == Spec => []BudgetHoldsInOrder
  <1>1. TypeOK /\ Accounted => BudgetHoldsInOrder
    <2> SUFFICES ASSUME TypeOK, Accounted, ~stale PROVE BudgetHolds
      BY DEF BudgetHoldsInOrder
    <2> DEFINE most == MaxBurst * NS
    <2>1. /\ spent \in Nat /\ bucket.tokens \in Nat /\ clock \in Nat /\ bucket.at \in Nat
          /\ since \in Nat /\ MaxRate \in Nat /\ most \in Nat
      BY BucketAssumption, ClockAssumption, ProductNat DEF TypeOK, Readings
    <2>2. /\ since <= bucket.at /\ bucket.at <= clock
          /\ spent + bucket.tokens <= most + MaxRate * (bucket.at - since)
      BY DEF Accounted
    <2>3. PICK d1 \in Nat, d2 \in Nat : d1 = bucket.at - since /\ d2 = clock - since /\ d1 <= d2
      BY <2>1, <2>2
    <2>4. MaxRate * d1 <= MaxRate * d2 /\ MaxRate * d1 \in Nat /\ MaxRate * d2 \in Nat
      <3>1. d1 * MaxRate <= d2 * MaxRate
        BY <2>1, <2>3, MultMonotone
      <3>2. d1 * MaxRate = MaxRate * d1 /\ d2 * MaxRate = MaxRate * d2
        BY <2>1
      <3> QED BY <3>1, <3>2, <2>1, ProductNat
    <2> DEFINE x1 == MaxRate * d1
               x2 == MaxRate * d2
    <2>5. spent + bucket.tokens <= most + x1 /\ x1 <= x2 /\ x1 \in Nat /\ x2 \in Nat
      BY <2>2, <2>3, <2>4
    <2> HIDE DEF x1, x2, most
    <2>6. spent <= most + x2
      BY <2>1, <2>5
    <2>7. x2 = MaxRate * (clock - since)
      BY <2>3 DEF x2
    <2> QED BY <2>6, <2>7 DEF BudgetHolds, most
  <1> QED BY <1>1, TypeCorrect, AccountKept, PTL

----------------------------------------------------------------------------
\* Time that earns the price of a reservation refills the bucket as far as
\* that, also where the division rounds.
LEMMA RefillSuffices ==
    ASSUME NEW c \in Configs, NEW t \in Readings, NEW b \in [at : Readings, tokens : Nat],
           (t - b.at) * c.rate >= Price(c)
    PROVE  Refilled(b, c, t) >= Price(c)
  <1> DEFINE e == t - b.at
             earned == e * c.rate
             price == Price(c)
             limit == Limit(c)
  <1>1. /\ c.rate \in Nat \ {0} /\ limit \in Nat /\ price \in Nat /\ price # 0 /\ price <= limit
        /\ t \in Int /\ b.at \in Int /\ b.tokens \in Nat
    BY ConfigFacts, PriceWithinBurst, ClockAssumption DEF Readings
  <1>2. e \in Int /\ earned \in Int /\ earned >= price
    BY <1>1
  <1>3. e > 0
    <2>1. ASSUME e <= 0 PROVE FALSE
      <3>1. PICK d \in Nat : e = -d
        <4>1. -e \in Nat /\ e = -(-e)
          BY <1>2, <2>1
        <4> QED BY <4>1
      <3>2. d * c.rate \in Nat /\ earned = -(d * c.rate)
        BY <1>1, <3>1, ProductNat
      <3> QED BY <1>1, <1>2, <3>2
    <2> QED BY <1>2, <2>1
  <1>4. Elapsed(t, b.at) = e
    BY <1>1, <1>3 DEF Elapsed
  <1> HIDE DEF e, price, limit
  <1>5. CASE e <= limit \div c.rate
    <2>1. Refilled(b, c, t) = Capped(b.tokens + earned, c)
      BY <1>4, <1>5 DEF Refilled, limit
    <2> HIDE DEF earned
    <2>2. Capped(b.tokens + earned, c) = IF b.tokens + earned > limit THEN limit ELSE b.tokens + earned
      BY DEF Capped, limit
    <2> QED BY <1>1, <1>2, <2>1, <2>2 DEF price
  <1>6. CASE ~(e <= limit \div c.rate)
    <2>1. Refilled(b, c, t) = limit
      BY <1>4, <1>6 DEF Refilled, limit
    <2> QED BY <1>1, <2>1 DEF price
  <1> QED BY <1>5, <1>6

\* A reservation for which the bucket has idled long enough is not refused.
THEOREM IdlingEarns == Spec => IdleBucketAdmits
  <1> DEFINE Earned(p) == /\ pc[p] = "reserve" /\ pc'[p] = "idle"
                          /\ (now[p] - bucket.at) * config[p].rate >= config[p].repeat * NS
  <1>1. TypeOK /\ [Next]_vars => [\A p \in Cpus : Earned(p) => spent' > spent]_vars
    <2> SUFFICES ASSUME TypeOK, Next, NEW p \in Cpus, Earned(p) PROVE spent' > spent
      OBVIOUS
    <2>1. Reserve(p)
      BY DEF Next, Tick, Reload, EnterEmit, Reserve, TypeOK
    <2> DEFINE c == config[p]
               t == now[p]
               open == Opened(bucket, c, t)
               tokens == Refilled(open, c, t)
    <2>2. /\ c \in Configs /\ t \in 1 .. MaxClock /\ t \in Readings
          /\ bucket \in [at : Readings, tokens : Nat] /\ spent \in Nat
      BY ClockAssumption DEF TypeOK, Readings
    <2>3. Price(c) \in Nat /\ Price(c) # 0 /\ Price(c) <= Limit(c) /\ Limit(c) \in Nat
      BY <2>2, PriceWithinBurst, ConfigFacts
    <2>4. tokens >= Price(c)
      <3>1. CASE bucket.at = 0
        <4>1. open = [at |-> t, tokens |-> Limit(c)]
          BY <3>1 DEF Opened
        <4>2. Elapsed(t, t) = 0
          BY <2>2 DEF Elapsed
        <4>3. c.rate \in Nat \ {0} /\ 0 <= Limit(c) \div c.rate /\ 0 * c.rate = 0
          BY <2>2, <2>3, ConfigFacts
        <4>4. tokens = Capped(Limit(c) + 0, c)
          BY <4>1, <4>2, <4>3 DEF Refilled
        <4>5. Capped(Limit(c) + 0, c) = Limit(c)
          BY <2>3 DEF Capped
        <4> QED BY <2>3, <4>4, <4>5
      <3>2. CASE bucket.at # 0
        <4>1. open = bucket
          BY <3>2 DEF Opened
        <4>2. (t - bucket.at) * c.rate >= Price(c)
          BY DEF Price
        <4> QED BY <2>2, <4>1, <4>2, RefillSuffices
      <3> QED BY <3>1, <3>2
    <2>5. spent' = spent + Price(c)
      BY <2>1, <2>4 DEF Reserve
    <2> HIDE DEF c, tokens
    <2> QED BY <2>2, <2>3, <2>5
  <1> QED BY <1>1, TypeCorrect, PTL DEF Spec, IdleBucketAdmits
=============================================================================
