----------------------------- MODULE MC_TcpFlow -----------------------------
(* Small instances of TcpFlow: sequence numbers of one bit.                *)
EXTENDS TcpFlow, TLC

Packets(kind, in, seq, ack, bytes, ok) ==
    {[kind |-> kind, in |-> in, seq |-> seq, ack |-> ack, bytes |-> bytes, ok |-> ok, ttl |-> 64]}
OutSyn(n) == Packets("syn", FALSE, n, 0, 0, TRUE)
InSyn(n) == Packets("syn", TRUE, n, 0, 0, TRUE)
InSynAck(n) == Packets("synack", TRUE, 0, n, 0, TRUE)
OutSynAck(n) == Packets("synack", FALSE, 0, n, 0, TRUE)
Ordinary == Packets("other", FALSE, 0, 0, 0, TRUE)
SynWithData == Packets("syn", FALSE, 0, 0, 1, TRUE)
Vetoed == Packets("syn", FALSE, 0, 0, 0, FALSE) \cup Packets("synack", TRUE, 0, 1, 1, TRUE)

\* An active connection: retransmissions, a second generation, its end.
Active == OutSyn(0) \cup OutSyn(1) \cup InSynAck(1) \cup Ordinary
\* Both sides open, in either order.
BothSides == OutSyn(0) \cup InSyn(1) \cup InSynAck(1) \cup OutSynAck(0)
\* Both sides open, and whatever else ends a handshake.
Everything == BothSides \cup Vetoed \cup SynWithData

BothDirections == {[directions |-> {"active", "passive"}, batches |-> 2, rules |-> <<1, 2>>]}
Reloads == BothDirections \cup {[directions |-> {"passive"}, batches |-> 1, rules |-> <<2>>]}

Workload(keys, arrivals, configs, packets, ticks) ==
    [keys |-> keys, arrivals |-> arrivals, configs |-> configs,
     packets |-> packets, ticks |-> ticks]
\* One connection for as long as it takes to use the quota up, and two that evict
\* each other under reloads.
Lives == {Workload({k}, Active, BothDirections, 5, 6) : k \in Keys}
Reloaded == {Workload(Keys, Everything, Reloads, 4, 2)}
Mixed == Lives \cup Reloaded
Raced == {Workload({k}, Active, BothDirections, 6, 5) : k \in Keys}
Symmetry == Permutations(Cpus) \cup Permutations(Keys)
=============================================================================
