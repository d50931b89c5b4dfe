------------------------------ MODULE UdpFlow ------------------------------
(***************************************************************************)
(* udp_trigger() in ebpf/bpf/udp.h: the early-packet window of a UDP flow. *)
(*                                                                         *)
(* observe() reads the clock and the configuration; udp_trigger() looks    *)
(* the flow up, creates it when it is missing, and counts the packet under *)
(* the flow's lock.  Between those steps other CPUs run packets of the     *)
(* same flow, create flows that evict this one, or see a newer clock.      *)
(***************************************************************************)
EXTENDS KernelClock, FlowTable

CONSTANTS
    Configs,       \* configurations that reloads publish: packets, both, idle
    MaxInitial,    \* upper bound of udp.initial_packets
    Ttls,          \* the TTLs of inbound packets; 0 stands for none heard yet
    Top,           \* 0xffffffff: the largest value of f->packets
    MaxPackets     \* bound of this model on the packets observed

ASSUME UdpAssumption ==
    /\ MaxInitial \in Nat \ {0}
    /\ Configs \subseteq [packets : 1 .. MaxInitial, both : BOOLEAN, idle : Nat \ {0}]
    /\ Configs # {}
    /\ Ttls \subseteq Nat \ {0}
    /\ Top \in Nat /\ MaxInitial < Top
    /\ MaxPackets \in Nat

VARIABLES
    clock,     \* bpf_ktime_get_ns()
    flow,      \* per element: struct ff_flow
    pc,        \* per CPU: the step of udp_trigger()
    packet,    \* per CPU: the packet, its clock reading and configuration
    window,    \* history, per key: what happened since the flow was last silent
    fired,     \* history: the batch the last step triggered, if it did
    stale,     \* history: keys updated with a reading older than f->seen
    calls      \* history: packets observed so far, bounded by MaxPackets

table == <<owner, ptr>>
vars == <<table, clock, flow, pc, packet, window, fired, stale, calls>>

Blank == [packets |-> 0, batches |-> 0, outbound |-> FALSE, remote_ttl |-> 0, seen |-> 0]
Flow == [packets : 0 .. Top, batches : 0 .. MaxInitial, outbound : BOOLEAN,
         remote_ttl : Ttls \cup {0}, seen : Readings]

Packet == [key : Keys, in : BOOLEAN, ttl : Ttls, now : Readings, config : Configs]

\* What an observer with exact time would keep of a flow: the packets since the
\* last silence, whether an outbound one was among them, the TTL heard last, and
\* the latest reading.
Silent == [seen |-> 0, spoke |-> FALSE, heard |-> 0, latest |-> 0]
Window == [seen : Nat, spoke : BOOLEAN, heard : Ttls \cup {0}, latest : Readings]

NoBatch == [key |-> Nobody, in |-> FALSE, ttl |-> 0]
Batch == [key : Keys \cup {Nobody}, in : BOOLEAN, ttl : Ttls \cup {0}]

TypeOK ==
    /\ TableType
    /\ clock \in Readings
    /\ flow \in [Slots -> Flow]
    /\ pc \in [Cpus -> {"idle", "lookup", "create", "relookup", "update"}]
    /\ packet \in [Cpus -> Packet]
    /\ window \in [Keys -> Window]
    /\ fired \in Batch
    /\ stale \subseteq Keys
    /\ calls \in 0 .. MaxPackets

Init ==
    /\ TableInit
    /\ clock = 1
    /\ flow = [s \in Slots |-> Blank]
    /\ pc = [p \in Cpus |-> "idle"]
    /\ \E first \in Packet : /\ first.now = 0
                             /\ packet = [p \in Cpus |-> first]
    /\ window = [k \in Keys |-> Silent]
    /\ fired = NoBatch
    /\ stale = {}
    /\ calls = 0

----------------------------------------------------------------------------
(* The critical section of udp_trigger().                                  *)

Expired(f, t, c) == Elapsed(t, f.seen) > c.idle

\* A mutant that reopens the window but keeps what the old one had learnt.
HalfRenewed(f) == [f EXCEPT !.packets = 0, !.batches = 0]

\* The idle timeout has passed: a new window, with nothing learnt from the old.
Renewed(f) == [f EXCEPT !.packets = 0, !.batches = 0, !.outbound = FALSE, !.remote_ttl = 0]

\* A mutant without the saturation of the packet counter.
CountWraps(n) == (n + 1) % (Top + 1)

Counted(n) == IF n < Top THEN n + 1 ELSE n

\* The flow after the packet, before a batch is booked.
Aged(f, m) == IF Expired(f, m.now, m.config) THEN Renewed(f) ELSE f
Seen(f, m) ==
    LET a == Aged(f, m)
    IN  [a EXCEPT !.seen = m.now,
                  !.packets = Counted(@),
                  !.remote_ttl = IF m.in THEN m.ttl ELSE @,
                  !.outbound = @ \/ ~m.in]

Early(f, c) == f.packets <= c.packets

Answers(f, m) == ~m.in \/ (m.config.both /\ f.outbound)

Triggers(f, m) == /\ Early(f, m.config)
                  /\ f.batches < m.config.packets
                  /\ Answers(f, m)

\* A mutant that files a new key over an evicted flow without clearing it.
CreatedAsFound(old) == old

\* The entry a first packet creates: initial={}.
Created(old) == Blank

----------------------------------------------------------------------------
(* The history.                                                            *)

\* The flow is silent when no packet came for an idle timeout, in exact time.
WindowAfter(w, m) ==
    LET v == IF m.now > w.latest + m.config.idle THEN Silent ELSE w
    IN  [v EXCEPT !.seen = @ + 1,
                  !.spoke = @ \/ ~m.in,
                  !.heard = IF m.in THEN m.ttl ELSE @,
                  !.latest = IF m.now > w.latest THEN m.now ELSE w.latest]

----------------------------------------------------------------------------
Tick ==
    /\ clock < MaxClock
    /\ clock' = clock + 1
    /\ fired' = NoBatch
    /\ UNCHANGED <<table, flow, pc, packet, window, stale, calls>>

\* observe() reaches udp_trigger() with a packet of flow k.
Observe(p, k, in, ttl, c) ==
    /\ pc[p] = "idle" /\ calls < MaxPackets
    /\ calls' = calls + 1
    /\ packet' = [packet EXCEPT ![p] =
           [key |-> k, in |-> in, ttl |-> ttl, now |-> clock, config |-> c]]
    /\ pc' = [pc EXCEPT ![p] = "lookup"]
    /\ fired' = NoBatch
    /\ UNCHANGED <<table, clock, flow, window, stale>>

\* The lookup that opens udp_trigger(), or the one after the creation.
Hit(p) ==
    /\ pc[p] \in {"lookup", "relookup"}
    /\ \E s \in Found(packet[p].key) : Point(p, s)
    /\ pc' = [pc EXCEPT ![p] = "update"]
    /\ fired' = NoBatch
    /\ UNCHANGED <<owner, clock, flow, packet, window, stale, calls>>

\* The first lookup finds nothing: create.  The second: map_failed.
Miss(p) ==
    /\ pc[p] \in {"lookup", "relookup"}
    /\ Found(packet[p].key) = {}
    /\ pc' = [pc EXCEPT ![p] = IF @ = "lookup" THEN "create" ELSE "idle"]
    /\ fired' = NoBatch
    /\ UNCHANGED <<table, clock, flow, packet, window, stale, calls>>

\* BPF_NOEXIST: the flow is created unless another CPU was faster.
Create(p) ==
    /\ pc[p] = "create"
    /\ Found(packet[p].key) = {}
    /\ \E s \in Victims :
          /\ File(s, packet[p].key)
          /\ flow' = [flow EXCEPT ![s] = Created(@)]
    /\ window' = [window EXCEPT ![packet[p].key] = Silent]
    /\ stale' = stale \ {packet[p].key}
    /\ pc' = [pc EXCEPT ![p] = "relookup"]
    /\ fired' = NoBatch
    /\ UNCHANGED <<ptr, clock, packet, calls>>

\* The flow exists by now, or the map has no element to give.
CreateFails(p) ==
    /\ pc[p] = "create"
    /\ Found(packet[p].key) # {} \/ Victims = {}
    /\ pc' = [pc EXCEPT ![p] = "relookup"]
    /\ fired' = NoBatch
    /\ UNCHANGED <<table, clock, flow, packet, window, stale, calls>>

\* The critical section.
Update(p) ==
    LET m == packet[p]
        s == ptr[p]
        f == Seen(flow[s], m)
        w == WindowAfter(window[m.key], m)
        emit == Triggers(f, m)
    IN  /\ pc[p] = "update"
        /\ flow' = [flow EXCEPT ![s] = [f EXCEPT !.batches = IF emit THEN @ + 1 ELSE @]]
        /\ window' = [window EXCEPT ![m.key] = w]
        /\ fired' = IF emit THEN [key |-> m.key, in |-> m.in, ttl |-> f.remote_ttl] ELSE NoBatch
        /\ stale' = IF m.now < flow[s].seen THEN stale \cup {m.key} ELSE stale
        /\ Point(p, NoSlot)
        /\ pc' = [pc EXCEPT ![p] = "idle"]
        /\ UNCHANGED <<owner, clock, packet, calls>>

Next ==
    \/ Tick
    \/ \E p \in Cpus :
          \/ \E k \in Keys, in \in BOOLEAN, ttl \in Ttls, c \in Configs : Observe(p, k, in, ttl, c)
          \/ Hit(p) \/ Miss(p) \/ Create(p) \/ CreateFails(p) \/ Update(p)

Spec == Init /\ [][Next]_vars

----------------------------------------------------------------------------
\* Only the first initial_packets packets after a silence trigger a batch,
\* however long the flow goes on: the counter saturates and never comes back
\* to the window.  It needs the readings of a flow to reach it in order.  No
\* more than initial_packets batches follow from it, across reloads too
\* (docs/ebpf-implementation-spec.md:159).
BatchesAreEarly ==
    fired.key # Nobody /\ fired.key \notin stale => window[fired.key].seen <= MaxInitial

\* A lone inbound packet is not answered: a batch towards a remote that spoke
\* last needs an outbound packet of the flow since its last silence
\* (docs/ebpf-implementation-spec.md:163).
NoReflection == fired.key # Nobody /\ fired.in => window[fired.key].spoke

\* The hop estimate of a batch rests on the TTL heard last from this remote
\* since the last silence, or on none: never on a former peer's.
EstimateIsCurrent == fired.key # Nobody => fired.ttl \in {0, window[fired.key].heard}
=============================================================================
