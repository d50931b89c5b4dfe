----------------------------- MODULE Injection -----------------------------
(***************************************************************************)
(* The request protocol of the datapath: emit() and observe() in           *)
(* observer.bpf.c, ff_builder() in builder.bpf.c, alive() in maps.h.       *)
(*                                                                         *)
(* For every copy, emit() draws an id from the shared sequence, puts a     *)
(* request in a bounded map and redirects a clone of the packet to a       *)
(* private device.  bpf_clone_redirect() returns after the builder on that *)
(* device has run; what the builder sends on to the WAN crosses ff_egress  *)
(* before or after the producer looks at its request again.  At ff_egress  *)
(* the request is the only thing that tells a fake from traffic.  The      *)
(* daemon renews the lease, forgets and re-attaches interfaces and stops   *)
(* at any moment.                                                          *)
(***************************************************************************)
EXTENDS Integers, FiniteSets

CONSTANTS
    Cpus,           \* the CPUs that run emit()
    Repeat,         \* ff_config.repeat
    Capacity,       \* max_entries of the map requests
    RequestTicks,   \* FF_REQUEST_NS
    LeaseTicks,     \* runtime.lease_seconds
    Faults,         \* what the environment may do: "clone", "link"
    MaxSeq,         \* bound of this model on the ids drawn
    MaxClock,       \* bound of this model on the clock
    MaxEpoch        \* bound of this model on the interface generations

ASSUME InjectionAssumption ==
    /\ Repeat \in Nat \ {0}
    /\ Capacity \in Nat \ {0}
    /\ RequestTicks \in Nat
    /\ LeaseTicks \in Nat \ {0}
    /\ Faults \subseteq {"clone", "link"}
    /\ MaxSeq \in Nat
    /\ MaxClock \in Nat
    /\ MaxEpoch \in Nat \ {0}

VARIABLES
    clock,      \* bpf_ktime_get_ns()
    until,      \* ff_lease.until
    reported,   \* ff_lease.reported
    stopping,   \* the daemon has left its loop and switched the lease off
    ifgen,      \* generation of the WAN's entry in interfaces, 0 without one
    epoch,      \* runtime.epoch
    seq,        \* the map sequence, counted from its random start
    requests,   \* per id: the element of the map requests
    fate,       \* per id: where the clone is
    doomed,     \* history: fakes that were under way when their interface was forgotten
    pc,         \* per CPU: the step of emit() or, inside it, of the builder
    cur,        \* per CPU: the id in cb
    copies,     \* per CPU: the loop variable i
    ctx,        \* per CPU: emit()'s clock reading and iface->generation
    rc,         \* per CPU: bpf_clone_redirect() returned an error
    hit,        \* per CPU: the second lookup found the request
    tally,      \* per CPU: the counters incremented for the present copy
    late        \* history, per CPU: requests made after the daemon stopped

lease == <<until, reported, stopping>>
link == <<ifgen, epoch>>
world == <<clock, lease, link, seq>>
cpus == <<pc, cur, copies, ctx, rc, hit, tally>>
history == <<doomed, late>>
vars == <<world, requests, fate, cpus, history>>

----------------------------------------------------------------------------
Ids == 1 .. MaxSeq

Absent == -1     \* no element under this id; states 0 to 3 are the code's
NoRequest == [state |-> Absent, ifgen |-> 0, expires |-> 0]
Request == [state : Absent .. 3, ifgen : 0 .. MaxEpoch, expires : Nat]

Alive == clock < until

Live == {id \in Ids : requests[id].state # Absent}

Places == {"none", "asked", "dropped", "wire", "crossing", "sent", "escaped", "lost",
           "reobserved"}
Counters == {"map_failed", "request_expired", "build_failed", "lease_expired",
             "build_ok", "clone_failed", "submit_ok"}
Steps == {"idle", "next", "insert", "clone", "build", "finish", "lookup", "settle", "booked"}

TypeOK ==
    /\ clock \in 0 .. MaxClock
    /\ until \in Nat
    /\ reported \in BOOLEAN
    /\ stopping \in BOOLEAN
    /\ ifgen \in 0 .. MaxEpoch
    /\ epoch \in 1 .. MaxEpoch
    /\ seq \in 0 .. MaxSeq
    /\ requests \in [Ids -> Request]
    /\ fate \in [Ids -> Places]
    /\ doomed \subseteq Ids
    /\ pc \in [Cpus -> Steps]
    /\ cur \in [Cpus -> 0 .. MaxSeq]
    /\ copies \in [Cpus -> 0 .. Repeat]
    /\ ctx \in [Cpus -> [now : 0 .. MaxClock, ifgen : 0 .. MaxEpoch]]
    /\ rc \in [Cpus -> BOOLEAN]
    /\ hit \in [Cpus -> BOOLEAN]
    /\ tally \in [Cpus -> SUBSET Counters]
    /\ late \in [Cpus -> Nat]

Init ==
    /\ clock = 0
    /\ until = LeaseTicks
    /\ reported = FALSE
    /\ stopping = FALSE
    /\ ifgen = 1
    /\ epoch = 1
    /\ seq = 0
    /\ requests = [id \in Ids |-> NoRequest]
    /\ fate = [id \in Ids |-> "none"]
    /\ doomed = {}
    /\ pc = [p \in Cpus |-> "idle"]
    /\ cur = [p \in Cpus |-> 0]
    /\ copies = [p \in Cpus |-> 0]
    /\ ctx = [p \in Cpus |-> [now |-> 0, ifgen |-> 0]]
    /\ rc = [p \in Cpus |-> FALSE]
    /\ hit = [p \in Cpus |-> FALSE]
    /\ tally = [p \in Cpus |-> {}]
    /\ late = [p \in Cpus |-> 0]

----------------------------------------------------------------------------
(* The clock, the daemon and the kernel's devices.                         *)

Tick ==
    /\ clock < MaxClock
    /\ clock' = clock + 1
    /\ UNCHANGED <<lease, link, seq, requests, fate, cpus, history>>

\* lease(r, 1), every two seconds.
RenewLease ==
    /\ ~stopping
    /\ until' = clock + LeaseTicks
    /\ reported' = FALSE
    /\ UNCHANGED <<clock, stopping, link, seq, requests, fate, cpus, history>>

\* The end of ff_run(): lease(r, 0).
Stop ==
    /\ ~stopping
    /\ stopping' = TRUE
    /\ until' = 0
    /\ reported' = TRUE
    /\ UNCHANGED <<clock, link, seq, requests, fate, cpus, history>>

\* forget_index(): the entry is deleted, the egress filter detached.
Forget ==
    /\ "link" \in Faults
    /\ ~stopping /\ ifgen # 0
    /\ ifgen' = 0
    /\ doomed' = doomed \cup {id \in Ids : fate[id] \in {"asked", "wire"}}
    /\ UNCHANGED <<clock, lease, epoch, seq, requests, fate, cpus, late>>

\* refresh(): filters are attached again and the entry gets a new generation.
Attach ==
    /\ ~stopping /\ ifgen = 0 /\ epoch < MaxEpoch
    /\ epoch' = epoch + 1
    /\ ifgen' = epoch + 1
    /\ UNCHANGED <<clock, lease, seq, requests, fate, cpus, history>>

\* alive() from any hook: the first one to find the lease lapsed reports it.
Lapsed ==
    /\ ~Alive /\ ~reported
    /\ reported' = TRUE
    /\ UNCHANGED <<clock, until, stopping, link, seq, requests, fate, cpus, history>>

----------------------------------------------------------------------------
(* The loop of emit().                                                     *)

Goto(p, step) == pc' = [pc EXCEPT ![p] = step]
Count(p, counter) == tally' = [tally EXCEPT ![p] = @ \cup {counter}]
Place(id, place) == fate' = [fate EXCEPT ![id] = place]

\* observe() triggers and emit() enters the loop.
Observe(p) ==
    /\ pc[p] = "idle" /\ seq < MaxSeq
    /\ Alive /\ ifgen # 0
    /\ ctx' = [ctx EXCEPT ![p] = [now |-> clock, ifgen |-> ifgen]]
    /\ Goto(p, "next")
    /\ UNCHANGED <<world, requests, fate, cur, copies, rc, hit, tally, history>>

\* A mutant that checks the lease once per trigger instead of once per copy.
LeaseAtEntry(p) == copies[p] > 0 \/ Alive

MayAttempt(p) == Alive

MoreCopies(p) == copies[p] < Repeat

\* The head of the loop: a further copy, while the lease lasts.
Attempt(p) ==
    /\ pc[p] = "next"
    /\ MoreCopies(p) /\ MayAttempt(p) /\ seq < MaxSeq
    /\ seq' = seq + 1
    /\ cur' = [cur EXCEPT ![p] = seq + 1]
    /\ Place(seq + 1, "asked")
    /\ Goto(p, "insert")
    /\ UNCHANGED <<clock, lease, link, requests, copies, ctx, rc, hit, tally, history>>

\* The loop ends and its variables go out of scope; MaxSeq is the model's bound.
Leave(p) ==
    /\ pc[p] = "next"
    /\ ~MoreCopies(p) \/ ~MayAttempt(p) \/ seq = MaxSeq
    /\ reported' = (reported \/ (MoreCopies(p) /\ ~Alive))
    /\ cur' = [cur EXCEPT ![p] = 0]
    /\ copies' = [copies EXCEPT ![p] = 0]
    /\ ctx' = [ctx EXCEPT ![p] = [now |-> 0, ifgen |-> 0]]
    /\ Goto(p, "idle")
    /\ UNCHANGED <<clock, until, stopping, link, seq, requests, fate, rc, hit, tally, history>>

\* The end of the loop's body.
NextCopy(p) ==
    /\ copies' = [copies EXCEPT ![p] = @ + 1]
    /\ rc' = [rc EXCEPT ![p] = FALSE]
    /\ hit' = [hit EXCEPT ![p] = FALSE]
    /\ tally' = [tally EXCEPT ![p] = {}]
    /\ Goto(p, "next")

\* bpf_map_update_elem(&requests, BPF_NOEXIST).
Insert(p) ==
    /\ pc[p] = "insert"
    /\ Cardinality(Live) < Capacity
    /\ requests' = [requests EXCEPT ![cur[p]] =
           [state |-> 0, ifgen |-> ctx[p].ifgen, expires |-> ctx[p].now + RequestTicks]]
    /\ late' = [late EXCEPT ![p] = IF stopping THEN @ + 1 ELSE @]
    /\ Goto(p, "clone")
    /\ UNCHANGED <<world, fate, cur, copies, ctx, rc, hit, tally, doomed>>

\* The map is full: map_failed, and on to the next copy.
MapFull(p) ==
    /\ pc[p] = "insert"
    /\ ~(Cardinality(Live) < Capacity)
    /\ Place(cur[p], "dropped")
    /\ NextCopy(p)
    /\ UNCHANGED <<world, requests, cur, ctx, history>>

----------------------------------------------------------------------------
(* bpf_clone_redirect() and ff_builder().  Both run on the producer's CPU  *)
(* before the call returns.  A clone that is dropped makes the call return *)
(* an error or not, depending on who dropped it.                           *)

Shot(p) ==
    /\ Place(cur[p], "dropped")
    /\ \E error \in BOOLEAN : rc' = [rc EXCEPT ![p] = error]
    /\ Goto(p, "lookup")

\* No memory for the clone, the device down, or no builder on it.
CloneFails(p) ==
    /\ pc[p] = "clone"
    /\ Shot(p)
    /\ UNCHANGED <<world, requests, cur, copies, ctx, hit, tally, history>>

Expired(id) == requests[id].expires < clock

\* The request is too old or the lease has lapsed.
Refuse(p) ==
    /\ pc[p] = "clone"
    /\ Expired(cur[p]) \/ ~Alive
    /\ reported' = (reported \/ (~Expired(cur[p]) /\ ~Alive))
    /\ Count(p, "request_expired")
    /\ Shot(p)
    /\ UNCHANGED <<clock, until, stopping, link, seq, requests, cur, copies, ctx, hit, history>>

\* The interface is gone or another one by now.
Disown(p) ==
    /\ pc[p] = "clone"
    /\ ~Expired(cur[p]) /\ Alive
    /\ ifgen # requests[cur[p]].ifgen
    /\ Shot(p)
    /\ UNCHANGED <<world, requests, cur, copies, ctx, hit, tally, history>>

Accept(p) ==
    /\ pc[p] = "clone"
    /\ ~Expired(cur[p]) /\ Alive
    /\ ifgen = requests[cur[p]].ifgen /\ requests[cur[p]].state = 0
    /\ requests' = [requests EXCEPT ![cur[p]].state = 1]
    /\ Goto(p, "build")
    /\ UNCHANGED <<world, fate, cur, copies, ctx, rc, hit, tally, history>>

BuildFails(p) ==
    /\ pc[p] = "build"
    /\ Count(p, "build_failed")
    /\ Shot(p)
    /\ UNCHANGED <<world, requests, cur, copies, ctx, hit, history>>

BuildSucceeds(p) ==
    /\ pc[p] = "build"
    /\ Goto(p, "finish")
    /\ UNCHANGED <<world, requests, fate, cur, copies, ctx, rc, hit, tally, history>>

\* The credential is issued and the clone redirected to the WAN.
Submit(p) ==
    /\ pc[p] = "finish"
    /\ Alive
    /\ requests' = [requests EXCEPT ![cur[p]].state = 2]
    /\ Count(p, "build_ok")
    /\ Place(cur[p], "wire")
    /\ rc' = [rc EXCEPT ![p] = FALSE]
    /\ Goto(p, "lookup")
    /\ UNCHANGED <<world, cur, copies, ctx, hit, history>>

\* The lease lapsed during the build.
Abandon(p) ==
    /\ pc[p] = "finish"
    /\ ~Alive
    /\ IF reported THEN UNCHANGED tally ELSE Count(p, "lease_expired")
    /\ reported' = TRUE
    /\ Shot(p)
    /\ UNCHANGED <<clock, until, stopping, link, seq, requests, cur, copies, ctx, hit, history>>

----------------------------------------------------------------------------
(* The clone at ff_egress.                                                 *)

\* A mutant that trusts the credential on whatever interface there is.
AnyInterface(id) == TRUE

SameInterface(id) == ifgen = requests[id].ifgen

\* observe() recognises the credential and takes it, 2 -> 3.
Spend(id) ==
    /\ fate[id] = "wire"
    /\ requests[id].state = 2
    /\ SameInterface(id)
    /\ requests' = [requests EXCEPT ![id].state = 3]
    /\ Place(id, "crossing")
    /\ UNCHANGED <<world, cpus, history>>

\* It deletes the request and lets the fake pass.
Reclaim(id) ==
    /\ fate[id] = "crossing"
    /\ requests' = [requests EXCEPT ![id] = NoRequest]
    /\ Place(id, "sent")
    /\ UNCHANGED <<world, cpus, history>>

\* Away from the hook, the request stays as it is.
Depart(id, place) ==
    /\ fate[id] = "wire"
    /\ Place(id, place)
    /\ UNCHANGED <<world, requests, cpus, history>>

\* A clone on an interface that is no longer the request's is dropped; one
\* without a credential goes on through observe() like any packet.
Unspent(id) == IF requests[id].state = 2 THEN "lost" ELSE "reobserved"

PassBy(id) == (requests[id].state # 2 \/ ~SameInterface(id)) /\ Depart(id, Unspent(id))

\* forget_index() has detached ff_egress and the clone leaves unseen.
Escape(id) == ifgen = 0 /\ Depart(id, "escaped")

\* The kernel drops the clone before it reaches the hook.
Lose(id) == "clone" \in Faults /\ Depart(id, "lost")

----------------------------------------------------------------------------
(* Back in emit().                                                         *)

Lookup(p) ==
    /\ pc[p] = "lookup"
    /\ hit' = [hit EXCEPT ![p] = requests[cur[p]].state # Absent]
    /\ Goto(p, "settle")
    /\ UNCHANGED <<world, requests, fate, cur, copies, ctx, rc, tally, history>>

\* What result->state yields.  An element that was deleted after the lookup
\* keeps its last state, or is already another request's.
SeenStates(id) ==
    IF requests[id].state # Absent THEN {requests[id].state}
                                   ELSE {3} \cup {requests[other].state : other \in Live}

\* A mutant off by one: a request that only got as far as the builder.
SubmittedFromOne(found, state) == ~found \/ state >= 1

Submitted(found, state) == ~found \/ state >= 2

\* The counter the outcome is booked under, if any.
Verdict(error, found, state) ==
    CASE error                             -> {"clone_failed"}
      [] ~error /\ Submitted(found, state) -> {"submit_ok"}
      [] ~error /\ found /\ state = 0      -> {"build_failed"}
      [] OTHER                             -> {}

\* A mutant: the producer cleans up its request in every case.
KeptNever(found, state) == FALSE

\* A mutant: the producer keeps whatever request it still finds.
KeptAlways(found, state) == found

Kept(found, state) == found /\ state = 2

\* Book the outcome, and delete the request unless a credential is outstanding.
Settle(p) ==
    /\ pc[p] = "settle"
    /\ \E state \in SeenStates(cur[p]) :
          /\ tally' = [tally EXCEPT ![p] = @ \cup Verdict(rc[p], hit[p], state)]
          /\ requests' = IF Kept(hit[p], state) THEN requests
                         ELSE [requests EXCEPT ![cur[p]] = NoRequest]
    /\ Goto(p, "booked")
    /\ UNCHANGED <<world, fate, cur, copies, ctx, rc, hit, history>>

EndOfBody(p) ==
    /\ pc[p] = "booked"
    /\ NextCopy(p)
    /\ UNCHANGED <<world, requests, fate, cur, ctx, history>>

----------------------------------------------------------------------------
Emit(p) ==
    \/ Observe(p) \/ Attempt(p) \/ Leave(p) \/ Insert(p) \/ MapFull(p)
    \/ CloneFails(p) \/ Refuse(p) \/ Disown(p) \/ Accept(p)
    \/ BuildFails(p) \/ BuildSucceeds(p) \/ Submit(p) \/ Abandon(p)
    \/ Lookup(p) \/ Settle(p) \/ EndOfBody(p)

Cross(id) == Spend(id) \/ Reclaim(id) \/ PassBy(id) \/ Escape(id) \/ Lose(id)

Next ==
    \/ Tick \/ RenewLease \/ Stop \/ Forget \/ Attach \/ Lapsed
    \/ \E p \in Cpus : Emit(p)
    \/ \E id \in Ids : Cross(id)

Spec == Init /\ [][Next]_vars

\* A CPU runs a hook to its end, and a clone that was handed to the WAN
\* reaches it; the daemon and the clock owe nothing.
Fairness ==
    /\ \A p \in Cpus : WF_vars(pc[p] # "idle" /\ Emit(p))
    /\ \A id \in Ids : WF_vars(Cross(id))

FairSpec == Spec /\ Fairness

----------------------------------------------------------------------------
\* A fake packet is never taken for traffic and made to trigger further
\* fakes, whatever the order of the producer's clean-up, the clone's crossing
\* of ff_egress, lease lapses and interface changes (observer.bpf.c:81-85).
NoReinjection == \A id \in Ids : fate[id] # "reobserved"

\* fake_submit_ok is never counted for a fake that was not handed to the WAN,
\* even when the element the producer looks at has been reused meanwhile
\* (observer.bpf.c:70-79).
SubmitMeansBuilt == \A p \in Cpus : "submit_ok" \in tally[p] => "build_ok" \in tally[p]

\* A fake that was under way when its interface was forgotten never crosses
\* ff_egress of the interface that took its place (observer.bpf.c:95,
\* builder.bpf.c:175).
ForgottenStayForgotten == [][\A id \in doomed : fate'[id] = "crossing" => fate[id] = "crossing"]_vars

\* Once the daemon has switched the lease off, a CPU makes at most the one
\* request it had already passed the lease check for: drain_requests() waits
\* for a bounded number of requests (lifecycle.c:446).
LastRequests == \A p \in Cpus : late[p] <= 1

\* The abstract stage of a clone: crossing ff_egress is still being on the
\* way, and leaving unseen is leaving.
StageOf(place) == CASE place = "crossing"            -> "wire"
                    [] place = "escaped"             -> "sent"
                    [] place \in {"dropped", "lost"} -> "gone"
                    [] OTHER                         -> place
Stage == [id \in Ids |-> StageOf(fate[id])]

Delivery == INSTANCE FakeDelivery WITH delivery <- Stage

\* The fakes are delivered as the abstract protocol promises: every request is
\* built at most once, and its clone leaves the WAN once or is dropped, however
\* the steps of the producer, the builder, ff_egress and the daemon interleave.
DeliverySpec == Delivery!Spec

\* A request whose producer is done and whose clone is not on its way is not
\* in the map any more: every credential is spent or reclaimed
\* (observer.bpf.c:84, docs/validation.md:93).
NoOrphan ==
    \A id \in Live : \/ \E p \in Cpus : cur[p] = id /\ pc[p] \notin {"idle", "next"}
                     \/ fate[id] \in {"wire", "crossing"}
=============================================================================
