------------------------------ MODULE TcpFlow ------------------------------
(***************************************************************************)
(* tcp_trigger() in ebpf/bpf/tcp.h: which SYN-ACKs of a connection trigger *)
(* a batch of fakes.                                                       *)
(*                                                                         *)
(* A handshake generation starts with a SYN and has a quota of batches,    *)
(* spaced in time; ordinary packets, rejected options and a SYN from the   *)
(* other side end it.  As for UDP, the packet's clock reading is taken in  *)
(* observe(), the flow is looked up without its lock, and other CPUs run   *)
(* packets of the same connection in between.                              *)
(***************************************************************************)
EXTENDS KernelClock, FlowTable, Sequences

CONSTANTS
    Workloads,     \* what a behaviour may be made of, each with the connections, the
                   \* packets parse() hands over, the configurations that reloads
                   \* publish, and the bounds of this model on packets and time
    MaxBatches,    \* upper bound of tcp.max_batches
    SeqMod,        \* 2^32: sequence numbers wrap
    Life,          \* 30 s
    Gap            \* 200 ms

Rules == 0 .. 2    \* FF_TCP_RULES_MAX is 3
Arrival == [kind : {"syn", "synack", "other"}, in : BOOLEAN, seq : 0 .. SeqMod - 1,
            ack : 0 .. SeqMod - 1, bytes : Nat, ok : BOOLEAN, ttl : Nat \ {0}]
Config == [directions : SUBSET {"active", "passive"}, batches : 1 .. MaxBatches, rules : Seq(Rules)]

Arrivals == UNION {w.arrivals : w \in Workloads}
Configs == UNION {w.configs : w \in Workloads}

ASSUME TcpAssumption ==
    /\ SeqMod \in Nat \ {0}
    /\ MaxBatches \in Nat \ {0}
    /\ \A m \in Arrivals : m \in Arrival
    /\ \A c \in Configs : c \in Config
    /\ \A w \in Workloads : w.keys \subseteq Keys /\ w.packets \in Nat /\ w.ticks \in Readings
    /\ Arrivals # {} /\ Configs # {}
    /\ Life \in Nat \ {0} /\ Gap \in Nat \ {0}

VARIABLES
    clock,       \* bpf_ktime_get_ns()
    flow,        \* per element: struct ff_flow
    turn,        \* the counter in rotation
    pc,          \* per CPU: the step of tcp_trigger()
    packet,      \* per CPU: the packet, its key, its clock reading, its configuration
    handshake,   \* history, per key: the generation, in exact time
    fired,       \* history: the batch the last step triggered, if it did
    stale,       \* history: keys updated with a reading older than f->seen
    calls,       \* history: packets observed so far, bounded by the workload
    load         \* the workload of this behaviour

table == <<owner, ptr>>
vars == <<table, clock, flow, turn, pc, packet, handshake, fired, stale, calls, load>>

Flow == [rule : Rules, syn_seq : 0 .. SeqMod - 1, syn_bytes : Nat, active : BOOLEAN,
         stopped : BOOLEAN, batches : 0 .. MaxBatches, remote_ttl : Nat,
         seen : Readings, emitted : Readings]
Unused == [rule |-> 0, syn_seq |-> 0, syn_bytes |-> 0, active |-> FALSE,
           stopped |-> FALSE, batches |-> 0, remote_ttl |-> 0, seen |-> 0, emitted |-> 0]

Packet == [key : Keys, m : Arrivals, now : Readings, config : Configs]
NoPacket == [key |-> Nobody]

\* What an observer with exact time would keep: the SYN the generation began
\* with, the batches spent, the reading of the last one, whether the handshake
\* is over, and the rule of the connection.
Handshake == [seq : 0 .. SeqMod - 1, active : BOOLEAN, sent : Nat, last : Readings,
              over : BOOLEAN, latest : Readings, rule : Rules]
NoHandshake == [seq |-> 0, active |-> FALSE, sent |-> 0, last |-> 0,
                over |-> FALSE, latest |-> 0, rule |-> 0]

Batch == [key : Keys \cup {Nobody}, rule : Rules, ttl : Nat, spaced : BOOLEAN]
NoBatch == [key |-> Nobody, rule |-> 0, ttl |-> 0, spaced |-> TRUE]

TypeOK ==
    /\ TableType
    /\ clock \in Readings
    /\ flow \in [Slots -> Flow]
    /\ turn \in Nat
    /\ pc \in [Cpus -> {"idle", "lookup", "create", "relookup", "update"}]
    /\ packet \in [Cpus -> Packet \cup {NoPacket}]
    /\ handshake \in [Keys -> Handshake]
    /\ fired \in Batch
    /\ stale \subseteq Keys
    /\ load \in Workloads
    /\ calls \in 0 .. load.packets

Init ==
    /\ TableInit
    /\ clock = 1
    /\ flow = [s \in Slots |-> Unused]
    /\ turn = 0
    /\ pc = [p \in Cpus |-> "idle"]
    /\ load \in Workloads
    /\ packet = [p \in Cpus |-> NoPacket]
    /\ handshake = [k \in Keys |-> NoHandshake]
    /\ fired = NoBatch
    /\ stale = {}
    /\ calls = 0

----------------------------------------------------------------------------
(* The decisions of tcp_trigger().                                         *)

\* The direction a SYN belongs to.
Side(in) == IF in THEN "passive" ELSE "active"

\* A SYN whose direction is not configured is let through unseen.
Ignored(m, c) == m.kind = "syn" /\ Side(m.in) \notin c.directions

\* next_rule(): connections take the enabled rules in turn.
NextRule(c) == IF c.rules = <<>> THEN 0 ELSE c.rules[(turn % Len(c.rules)) + 1]
Turned(c) == IF c.rules = <<>> THEN turn ELSE turn + 1

\* A mutant that learns the peer's TTL only from a repeated SYN.
InitialWithoutTtl(m, t, c) ==
    [Unused EXCEPT !.syn_seq = m.seq, !.syn_bytes = m.bytes, !.active = ~m.in, !.seen = t,
                   !.stopped = ~m.ok, !.rule = NextRule(c)]

\* The entry a first SYN creates.
Initial(m, t, c) ==
    [Unused EXCEPT !.syn_seq = m.seq, !.syn_bytes = m.bytes, !.active = ~m.in, !.seen = t,
                   !.remote_ttl = IF m.in THEN m.ttl ELSE 0,
                   !.stopped = ~m.ok, !.rule = NextRule(c)]

\* A mutant for which every SYN begins a generation.
EverySyn(f, m, t) == TRUE

\* The SYN begins a new generation of the connection.
NewGeneration(f, m, t) ==
    \/ Elapsed(t, f.seen) > Life
    \/ f.syn_seq # m.seq /\ f.active = ~m.in

Crosses(f, m) == f.active # ~m.in

\* The SYN under the lock.
OnSyn(f, m, t) ==
    LET g == IF NewGeneration(f, m, t)
             THEN [f EXCEPT !.syn_seq = m.seq, !.syn_bytes = m.bytes, !.active = ~m.in,
                            !.stopped = FALSE, !.batches = 0, !.emitted = 0]
             ELSE [f EXCEPT !.stopped = @ \/ Crosses(f, m)]
    IN  [g EXCEPT !.syn_bytes = IF g.syn_seq = m.seq /\ m.bytes > @ THEN m.bytes ELSE @,
                  !.stopped = @ \/ ~m.ok,
                  !.seen = t,
                  !.remote_ttl = IF m.in THEN m.ttl ELSE @]

\* A mutant that keeps a connection alive that has been idle.
EndsUnlessIdle(f, m, t) ==
    m.kind # "synack" \/ m.bytes > 0 \/ ~m.ok

\* A packet that is not a clean SYN-ACK ends the handshake, and so does silence.
Ends(f, m, t) ==
    \/ Elapsed(t, f.seen) > Life
    \/ m.kind # "synack" \/ m.bytes > 0 \/ ~m.ok

\* The SYN-ACK acknowledges the SYN, with or without the data it carried.
Acknowledges(f, m) ==
    m.ack \in {(f.syn_seq + 1) % SeqMod, (f.syn_seq + 1 + f.syn_bytes) % SeqMod}

\* A mutant that does not space the batches out.
SpacedAlways(f, t) == TRUE

Spaced(f, t) == f.batches = 0 \/ Elapsed(t, f.emitted) >= Gap

\* A mutant off by one.
QuotaAndOne(f, c) == f.batches <= c.batches

QuotaLeft(f, c) == f.batches < c.batches

Triggers(f, m, t, c) ==
    /\ m.kind = "synack" /\ f.active = m.in
    /\ ~f.stopped /\ ~Ends(f, m, t)
    /\ (IF f.active THEN "active" ELSE "passive") \in c.directions
    /\ Acknowledges(f, m)
    /\ QuotaLeft(f, c) /\ Spaced(f, t)

\* A mutant that takes the next rule for every batch.
RuleInTurn(f) == turn % 3

\* The rule the batch is sent with.
RuleOf(f) == IF f.rule \in Rules THEN f.rule ELSE 0

\* Any other packet under the lock.
OnOther(f, m, t, c) ==
    LET g == [f EXCEPT !.stopped = @ \/ Ends(f, m, t), !.seen = t]
    IN  IF Triggers(f, m, t, c) THEN [g EXCEPT !.batches = @ + 1, !.emitted = t] ELSE g

----------------------------------------------------------------------------
(* The history.                                                            *)

Later(h, t) == IF t > h.latest THEN t ELSE h.latest

Begun(h, m, t) == [NoHandshake EXCEPT !.seq = m.seq, !.active = ~m.in, !.over = ~m.ok,
                                      !.latest = Later(h, t), !.rule = h.rule]

\* A SYN begins a generation when the connection was silent, or when its own
\* side comes with another sequence number; from the other side it crosses.
HandshakeOnSyn(h, m, t) ==
    IF t > h.latest + Life \/ (h.seq # m.seq /\ h.active = ~m.in)
    THEN Begun(h, m, t)
    ELSE [h EXCEPT !.over = @ \/ h.active # ~m.in \/ ~m.ok,
                   !.latest = Later(h, t)]

HandshakeOnOther(h, m, t, emit) ==
    [h EXCEPT !.over = @ \/ t > h.latest + Life \/ m.kind # "synack" \/ m.bytes > 0 \/ ~m.ok,
              !.sent = IF emit THEN @ + 1 ELSE @,
              !.last = IF emit THEN t ELSE @,
              !.latest = Later(h, t)]

----------------------------------------------------------------------------
Tick ==
    /\ clock < load.ticks
    /\ clock' = clock + 1
    /\ fired' = NoBatch
    /\ UNCHANGED <<table, flow, turn, pc, packet, handshake, stale, calls, load>>

\* observe() reaches tcp_trigger() with a packet of connection k.
Observe(p, k, m, c) ==
    /\ pc[p] = "idle" /\ calls < load.packets
    /\ calls' = calls + 1
    /\ packet' = [packet EXCEPT ![p] = [key |-> k, m |-> m, now |-> clock, config |-> c]]
    /\ pc' = [pc EXCEPT ![p] = "lookup"]
    /\ fired' = NoBatch
    /\ UNCHANGED <<table, clock, flow, turn, handshake, stale, load>>

\* The direction of the SYN is not configured.
Ignore(p) ==
    /\ pc[p] = "lookup"
    /\ Ignored(packet[p].m, packet[p].config)
    /\ pc' = [pc EXCEPT ![p] = "idle"]
    /\ fired' = NoBatch
    /\ UNCHANGED <<table, clock, flow, turn, packet, handshake, stale, calls, load>>

\* The lookup at the head, or the one after a creation that failed.
Hit(p) ==
    /\ pc[p] = "relookup" \/ (pc[p] = "lookup" /\ ~Ignored(packet[p].m, packet[p].config))
    /\ \E s \in Found(packet[p].key) : Point(p, s)
    /\ pc' = [pc EXCEPT ![p] = "update"]
    /\ fired' = NoBatch
    /\ UNCHANGED <<owner, clock, flow, turn, packet, handshake, stale, calls, load>>

\* Only a SYN creates a flow; after a failed creation, map_failed.
Miss(p) ==
    /\ pc[p] = "relookup" \/ (pc[p] = "lookup" /\ ~Ignored(packet[p].m, packet[p].config))
    /\ Found(packet[p].key) = {}
    /\ pc' = [pc EXCEPT ![p] =
                  IF @ = "lookup" /\ packet[p].m.kind = "syn" THEN "create" ELSE "idle"]
    /\ fired' = NoBatch
    /\ UNCHANGED <<table, clock, flow, turn, packet, handshake, stale, calls, load>>

\* BPF_NOEXIST: the flow is created with the SYN already in it.
Create(p) ==
    LET k == packet[p].key
        m == packet[p].m
        t == packet[p].now
        c == packet[p].config
    IN  /\ pc[p] = "create"
        /\ Found(k) = {}
        /\ \E s \in Victims :
              /\ File(s, k)
              /\ flow' = [flow EXCEPT ![s] = Initial(m, t, c)]
        /\ turn' = Turned(c)
        /\ handshake' = [handshake EXCEPT ![k] =
               [Begun(NoHandshake, m, t) EXCEPT !.rule = NextRule(c)]]
        /\ stale' = stale \ {k}
        /\ pc' = [pc EXCEPT ![p] = "idle"]
        /\ fired' = NoBatch
        /\ UNCHANGED <<ptr, clock, packet, calls, load>>

\* Another CPU was faster, or the map has no element to give.
CreateFails(p) ==
    /\ pc[p] = "create"
    /\ Found(packet[p].key) # {} \/ Victims = {}
    /\ turn' = Turned(packet[p].config)
    /\ pc' = [pc EXCEPT ![p] = "relookup"]
    /\ fired' = NoBatch
    /\ UNCHANGED <<table, clock, flow, packet, handshake, stale, calls, load>>

\* What both critical sections do to the rest of the state.
Leave(p) ==
    LET k == packet[p].key
    IN  /\ stale' = IF packet[p].now < flow[ptr[p]].seen THEN stale \cup {k} ELSE stale
        /\ Point(p, NoSlot)
        /\ pc' = [pc EXCEPT ![p] = "idle"]
        /\ UNCHANGED <<owner, clock, turn, packet, calls, load>>

UpdateSyn(p) ==
    LET k == packet[p].key
        m == packet[p].m
        t == packet[p].now
    IN  /\ pc[p] = "update" /\ m.kind = "syn"
        /\ flow' = [flow EXCEPT ![ptr[p]] = OnSyn(@, m, t)]
        /\ handshake' = [handshake EXCEPT ![k] = HandshakeOnSyn(@, m, t)]
        /\ fired' = NoBatch
        /\ Leave(p)

UpdateOther(p) ==
    LET k == packet[p].key
        m == packet[p].m
        t == packet[p].now
        f == flow[ptr[p]]
        h == handshake[k]
        emit == Triggers(f, m, t, packet[p].config)
    IN  /\ pc[p] = "update" /\ m.kind # "syn"
        /\ flow' = [flow EXCEPT ![ptr[p]] = OnOther(f, m, t, packet[p].config)]
        /\ handshake' = [handshake EXCEPT ![k] = HandshakeOnOther(h, m, t, emit)]
        /\ fired' = IF emit
                    THEN [key |-> k, rule |-> RuleOf(f), ttl |-> IF m.in THEN m.ttl ELSE f.remote_ttl,
                          spaced |-> h.sent = 0 \/ t >= h.last + Gap]
                    ELSE NoBatch
        /\ Leave(p)

Trigger(p) == Ignore(p) \/ Hit(p) \/ Miss(p) \/ Create(p) \/ CreateFails(p)
              \/ UpdateSyn(p) \/ UpdateOther(p)

Next ==
    \/ Tick
    \/ \E p \in Cpus : \/ \E k \in load.keys, m \in load.arrivals, c \in load.configs :
                              Observe(p, k, m, c)
                       \/ Trigger(p)

Spec == Init /\ [][Next]_vars

----------------------------------------------------------------------------
\* One generation never gets more than max_batches batches: a retransmitted
\* SYN does not give the quota back (docs/ebpf-implementation-spec.md:126-128).
QuotaHolds == \A k \in Keys : handshake[k].sent <= MaxBatches

\* The quota holds while the clock readings of a flow reach it in order.
QuotaHoldsInOrder == \A k \in Keys \ stale : handshake[k].sent <= MaxBatches

\* Two batches of a generation are 200 ms apart, with readings in order
\* (docs/ebpf-implementation-spec.md:126).
BatchesAreSpaced == fired.key \notin stale => fired.spaced

\* No SYN-ACK triggers a batch any more once an ordinary packet, a rejected
\* option list, data on a SYN-ACK, a crossing SYN or 30 s of silence ended the
\* handshake, whatever is retransmitted afterwards, with readings in order
\* (docs/ebpf-implementation-spec.md:129-130).
OverMeansOver == fired.key \in Keys \ stale => ~handshake[fired.key].over

\* All batches of a connection carry the payload of one rule, the one it was
\* given when its flow was created (maps.h:10-11).
OneShape == fired.key \in Keys => fired.rule = handshake[fired.key].rule

\* A batch always knows how far away its peer is: the TTL of the SYN-ACK that
\* triggers it, or of the SYN that opened the generation (tcp.h:102, :117, :135).
PeerIsKnown == fired.key \in Keys => fired.ttl # 0
=============================================================================
