--------------------------- MODULE TcpFlow_proof ---------------------------
(***************************************************************************)
(* Proofs about TcpFlow, for any number of CPUs, connections and elements, *)
(* any workloads, quotas and sequence numbers.  As for UDP, those that     *)
(* speak of a connection's history assume that no element is recycled      *)
(* under a CPU's pointer.                                                  *)
(***************************************************************************)
EXTENDS TcpFlow, TLAPS

USE ClockAssumption, TableAssumption, TcpAssumption

\* A CPU at work has a packet, and points at an element exactly while it is
\* about to update it.
AtWork == \A p \in Cpus : /\ pc[p] # "idle" => packet[p] \in Packet
                          /\ pc[p] = "update" <=> ptr[p] # NoSlot

\* A key is filed once.
FiledOnce == \A s, r \in Slots : owner[s] = owner[r] /\ owner[s] # Nobody => s = r

\* The element a CPU points at is its packet's.
Owning == \A p \in Cpus : ptr[p] # NoSlot => owner[ptr[p]] = packet[p].key

\* What a flow has in common with its history whatever the readings: its rule,
\* and that a peer who opened the connection has been heard.
Known(f, h) == /\ f.rule = h.rule
               /\ ~f.active => f.remote_ttl # 0

\* With readings in order it has everything in common.
Exact(f, h) == /\ f.syn_seq = h.seq /\ f.active = h.active /\ f.stopped = h.over
               /\ f.batches = h.sent /\ f.emitted = h.last /\ f.seen = h.latest
               /\ f.emitted <= f.seen

Agreeing == \A s \in Slots : owner[s] \in Keys =>
               /\ Known(flow[s], handshake[owner[s]])
               /\ owner[s] \notin stale => Exact(flow[s], handshake[owner[s]])

Inv == FiledOnce /\ Owning /\ Agreeing

----------------------------------------------------------------------------
(* The operators of the critical sections.                                 *)

LEMMA ArrivalTypes ==
    ASSUME NEW m \in Arrivals
    PROVE  /\ m.kind \in {"syn", "synack", "other"} /\ m.in \in BOOLEAN /\ m.ok \in BOOLEAN
           /\ m.seq \in 0 .. SeqMod - 1 /\ m.bytes \in Nat /\ m.ttl \in Nat \ {0}
  <1>1. m \in Arrival
    OBVIOUS
  <1> QED BY <1>1 DEF Arrival

LEMMA ConfigTypes ==
    ASSUME NEW c \in Configs
    PROVE  c.batches \in 1 .. MaxBatches /\ c.rules \in Seq(Rules)
  <1>1. c \in Config
    OBVIOUS
  <1> QED BY <1>1 DEF Config

LEMMA Remainder == \A a \in Nat, n \in Nat \ {0} : (a % n) + 1 \in 1 .. n
  OBVIOUS

LEMMA RuleType ==
    ASSUME TypeOK, NEW c \in Configs
    PROVE  NextRule(c) \in Rules /\ Turned(c) \in Nat
  <1>1. turn \in Nat /\ c.rules \in Seq(Rules)
    BY ConfigTypes DEF TypeOK
  <1>2. CASE c.rules = <<>>
    BY <1>1, <1>2 DEF NextRule, Turned, Rules
  <1>3. CASE c.rules # <<>>
    <2> DEFINE i == (turn % Len(c.rules)) + 1
    <2>1. Len(c.rules) \in Nat \ {0}
      BY <1>1, <1>3
    <2>2. i \in 1 .. Len(c.rules)
      BY <1>1, <2>1, Remainder
    <2>3. NextRule(c) = c.rules[i] /\ Turned(c) = turn + 1
      BY <1>3 DEF NextRule, Turned
    <2> HIDE DEF i
    <2>4. c.rules[i] \in Rules
      BY <1>1, <2>2
    <2> QED BY <1>1, <2>3, <2>4
  <1> QED BY <1>2, <1>3

LEMMA UnusedType == Unused \in Flow
  <1>1. /\ 0 \in Rules /\ 0 \in 0 .. SeqMod - 1 /\ 0 \in Nat /\ FALSE \in BOOLEAN
        /\ 0 \in 0 .. MaxBatches /\ 0 \in Readings
    BY DEF Rules, Readings
  <1> QED BY <1>1, Zenon DEF Unused, Flow

\* The entry a first SYN creates, field by field.
LEMMA InitialFields ==
    ASSUME TypeOK, NEW m \in Arrivals, NEW t \in Readings, NEW c \in Configs
    PROVE  LET f == Initial(m, t, c)
           IN  /\ f \in Flow
               /\ f.rule = NextRule(c) /\ f.syn_seq = m.seq /\ f.active = (~m.in)
               /\ f.stopped = (~m.ok) /\ f.batches = 0 /\ f.emitted = 0 /\ f.seen = t
               /\ f.remote_ttl = (IF m.in THEN m.ttl ELSE 0)
  <1> DEFINE u == Unused
             ttl == IF m.in THEN m.ttl ELSE 0
             rule == NextRule(c)
             active == ~m.in
             stopped == ~m.ok
  <1>1. u \in Flow /\ u.batches = 0 /\ u.emitted = 0
    BY UnusedType, Zenon DEF Unused
  <1>2. ttl \in Nat /\ rule \in Rules /\ m.seq \in 0 .. SeqMod - 1 /\ m.bytes \in Nat
    BY ArrivalTypes, RuleType
  <1>3. active \in BOOLEAN /\ stopped \in BOOLEAN
    OBVIOUS
  <1>4. Initial(m, t, c) = [u EXCEPT !.syn_seq = m.seq, !.syn_bytes = m.bytes, !.active = active,
                                     !.seen = t, !.remote_ttl = ttl, !.stopped = stopped,
                                     !.rule = rule]
    BY Zenon DEF Initial
  <1> HIDE DEF u, ttl, rule, active, stopped
  <1>5. ASSUME NEW q \in 0 .. SeqMod - 1, NEW b \in Nat, NEW a \in BOOLEAN
        PROVE  [u EXCEPT !.syn_seq = q, !.syn_bytes = b, !.active = a, !.seen = t] \in Flow
    BY <1>1 DEF Flow
  <1>6. ASSUME NEW g \in Flow, NEW x \in Nat, NEW o \in BOOLEAN, NEW r \in Rules
        PROVE  [g EXCEPT !.remote_ttl = x, !.stopped = o, !.rule = r] \in Flow
    BY DEF Flow
  <1>7. Initial(m, t, c) \in Flow
    <2> DEFINE g == [u EXCEPT !.syn_seq = m.seq, !.syn_bytes = m.bytes, !.active = active, !.seen = t]
    <2>1. g \in Flow
      BY <1>2, <1>3, <1>5
    <2>2. Initial(m, t, c) = [g EXCEPT !.remote_ttl = ttl, !.stopped = stopped, !.rule = rule]
      BY <1>4, Zenon
    <2> HIDE DEF g
    <2>3. [g EXCEPT !.remote_ttl = ttl, !.stopped = stopped, !.rule = rule] \in Flow
      BY <1>2, <1>3, <1>6, <2>1
    <2> QED BY <2>2, <2>3, Zenon
  <1>8. /\ Initial(m, t, c).rule = rule /\ Initial(m, t, c).syn_seq = m.seq
        /\ Initial(m, t, c).active = active /\ Initial(m, t, c).stopped = stopped
        /\ Initial(m, t, c).batches = u.batches /\ Initial(m, t, c).emitted = u.emitted
        /\ Initial(m, t, c).seen = t /\ Initial(m, t, c).remote_ttl = ttl
    BY <1>1, <1>4, Zenon DEF Flow
  <1> QED BY <1>1, <1>7, <1>8, Zenon DEF rule, active, stopped, ttl

\* What a SYN does to an entry, field by field.
LEMMA OnSynFields ==
    ASSUME NEW f \in Flow, NEW m \in Arrivals, NEW t \in Readings
    PROVE  LET new == NewGeneration(f, m, t)
           IN  /\ OnSyn(f, m, t) \in Flow
               /\ OnSyn(f, m, t).rule = f.rule
               /\ OnSyn(f, m, t).syn_seq = (IF new THEN m.seq ELSE f.syn_seq)
               /\ OnSyn(f, m, t).active = (IF new THEN ~m.in ELSE f.active)
               /\ OnSyn(f, m, t).stopped = (IF new THEN ~m.ok
                                            ELSE f.stopped \/ Crosses(f, m) \/ ~m.ok)
               /\ OnSyn(f, m, t).batches = (IF new THEN 0 ELSE f.batches)
               /\ OnSyn(f, m, t).emitted = (IF new THEN 0 ELSE f.emitted)
               /\ OnSyn(f, m, t).seen = t
               /\ OnSyn(f, m, t).remote_ttl = (IF m.in THEN m.ttl ELSE f.remote_ttl)
  <1> DEFINE new == NewGeneration(f, m, t)
             g == IF new
                  THEN [f EXCEPT !.syn_seq = m.seq, !.syn_bytes = m.bytes, !.active = ~m.in,
                                 !.stopped = FALSE, !.batches = 0, !.emitted = 0]
                  ELSE [f EXCEPT !.stopped = @ \/ Crosses(f, m)]
             bytes == IF g.syn_seq = m.seq /\ m.bytes > g.syn_bytes THEN m.bytes ELSE g.syn_bytes
             stopped == g.stopped \/ ~m.ok
             ttl == IF m.in THEN m.ttl ELSE g.remote_ttl
  <1>0. /\ m.in \in BOOLEAN /\ m.seq \in 0 .. SeqMod - 1 /\ m.bytes \in Nat /\ m.ttl \in Nat
        /\ m.ok \in BOOLEAN
    BY ArrivalTypes
  <1>1. ASSUME NEW q \in 0 .. SeqMod - 1, NEW b \in Nat, NEW a \in BOOLEAN
        PROVE  [f EXCEPT !.syn_seq = q, !.syn_bytes = b, !.active = a,
                         !.stopped = FALSE, !.batches = 0, !.emitted = 0] \in Flow
    <2> DEFINE half == [f EXCEPT !.syn_seq = q, !.syn_bytes = b, !.active = a]
    <2>1. half \in Flow
      BY DEF Flow
    <2>2. 0 \in 0 .. MaxBatches /\ 0 \in Readings /\ FALSE \in BOOLEAN
      BY DEF Readings
    <2> HIDE DEF half
    <2>3. [half EXCEPT !.stopped = FALSE, !.batches = 0, !.emitted = 0] \in Flow
      BY <2>1, <2>2 DEF Flow
    <2> QED BY <2>3 DEF half
  <1>2. ASSUME NEW a \in BOOLEAN PROVE [f EXCEPT !.stopped = a] \in Flow
    BY DEF Flow
  <1>3. g \in Flow
    <2>1. (~m.in) \in BOOLEAN /\ (f.stopped \/ Crosses(f, m)) \in BOOLEAN
      OBVIOUS
    <2>2. CASE new
      BY <1>0, <1>1, <2>1, <2>2
    <2>3. CASE ~new
      <3>1. g = [f EXCEPT !.stopped = f.stopped \/ Crosses(f, m)]
        BY <2>3, Zenon
      <3> QED BY <1>2, <2>1, <3>1, Zenon
    <2> QED BY <2>2, <2>3
  <1>4. /\ g.rule = f.rule /\ g.remote_ttl = f.remote_ttl
        /\ g.syn_seq = (IF new THEN m.seq ELSE f.syn_seq)
        /\ g.active = (IF new THEN ~m.in ELSE f.active)
        /\ g.stopped = (IF new THEN FALSE ELSE f.stopped \/ Crosses(f, m))
        /\ g.batches = (IF new THEN 0 ELSE f.batches)
        /\ g.emitted = (IF new THEN 0 ELSE f.emitted)
    BY Zenon DEF Flow
  <1>5. bytes \in Nat /\ stopped \in BOOLEAN /\ ttl \in Nat
    BY <1>0, <1>3 DEF Flow
  <1>6. OnSyn(f, m, t) = [g EXCEPT !.syn_bytes = bytes, !.stopped = stopped, !.seen = t,
                                   !.remote_ttl = ttl]
    BY <1>3, Zenon DEF OnSyn, Flow
  <1> HIDE DEF new, g, bytes, stopped, ttl
  <1>7. ASSUME NEW b \in Nat, NEW a \in BOOLEAN, NEW x \in Nat
        PROVE  [g EXCEPT !.syn_bytes = b, !.stopped = a, !.seen = t, !.remote_ttl = x] \in Flow
    BY <1>3 DEF Flow
  <1>8. OnSyn(f, m, t) \in Flow
    <2>1. [g EXCEPT !.syn_bytes = bytes, !.stopped = stopped, !.seen = t, !.remote_ttl = ttl] \in Flow
      BY <1>5, <1>7
    <2> QED BY <1>6, <2>1, Zenon
  <1>9. /\ OnSyn(f, m, t).rule = g.rule /\ OnSyn(f, m, t).syn_seq = g.syn_seq
        /\ OnSyn(f, m, t).active = g.active /\ OnSyn(f, m, t).batches = g.batches
        /\ OnSyn(f, m, t).emitted = g.emitted /\ OnSyn(f, m, t).seen = t
        /\ OnSyn(f, m, t).stopped = stopped /\ OnSyn(f, m, t).remote_ttl = ttl
    BY <1>3, <1>6, Zenon DEF Flow
  <1>10. /\ stopped = (IF new THEN ~m.ok ELSE f.stopped \/ Crosses(f, m) \/ ~m.ok)
         /\ ttl = (IF m.in THEN m.ttl ELSE f.remote_ttl)
    BY <1>4, Zenon DEF stopped, ttl
  <1> QED BY <1>4, <1>8, <1>9, <1>10, Zenon DEF new

\* What any other packet does to an entry.
LEMMA OnOtherFields ==
    ASSUME NEW f \in Flow, NEW m \in Arrivals, NEW t \in Readings, NEW c \in Configs
    PROVE  LET fires == Triggers(f, m, t, c)
           IN  /\ OnOther(f, m, t, c) \in Flow
               /\ OnOther(f, m, t, c).rule = f.rule
               /\ OnOther(f, m, t, c).syn_seq = f.syn_seq
               /\ OnOther(f, m, t, c).active = f.active
               /\ OnOther(f, m, t, c).stopped = (f.stopped \/ Ends(f, m, t))
               /\ OnOther(f, m, t, c).batches = (IF fires THEN f.batches + 1 ELSE f.batches)
               /\ OnOther(f, m, t, c).emitted = (IF fires THEN t ELSE f.emitted)
               /\ OnOther(f, m, t, c).seen = t
               /\ OnOther(f, m, t, c).remote_ttl = f.remote_ttl
  <1> DEFINE over == f.stopped \/ Ends(f, m, t)
             g == [f EXCEPT !.stopped = over, !.seen = t]
  <1>1. ASSUME NEW a \in BOOLEAN PROVE [f EXCEPT !.stopped = a, !.seen = t] \in Flow
    BY DEF Flow
  <1>2. over \in BOOLEAN
    OBVIOUS
  <1>3. g \in Flow
    BY <1>1, <1>2
  <1>4. /\ g.rule = f.rule /\ g.syn_seq = f.syn_seq /\ g.active = f.active /\ g.stopped = over
        /\ g.batches = f.batches /\ g.emitted = f.emitted /\ g.seen = t
        /\ g.remote_ttl = f.remote_ttl
    BY Zenon DEF Flow
  <1>5. OnOther(f, m, t, c) = IF Triggers(f, m, t, c)
                              THEN [g EXCEPT !.batches = g.batches + 1, !.emitted = t] ELSE g
    BY <1>3, Zenon DEF OnOther, Flow
  <1> HIDE DEF over, g
  <1>6. CASE ~Triggers(f, m, t, c)
    BY <1>3, <1>4, <1>5, <1>6, Zenon DEF over
  <1>7. CASE Triggers(f, m, t, c)
    <2>1. f.batches < c.batches
      BY <1>7 DEF Triggers, QuotaLeft
    <2>2. f.batches \in 0 .. MaxBatches
      BY DEF Flow
    <2>3. g.batches + 1 \in 0 .. MaxBatches
      BY <1>4, <2>1, <2>2, ConfigTypes
    <2>4. ASSUME NEW n \in 0 .. MaxBatches PROVE [g EXCEPT !.batches = n, !.emitted = t] \in Flow
      BY <1>3 DEF Flow
    <2>5. OnOther(f, m, t, c) \in Flow
      BY <1>5, <1>7, <2>3, <2>4
    <2>6. OnOther(f, m, t, c) = [g EXCEPT !.batches = g.batches + 1, !.emitted = t]
      BY <1>5, <1>7
    <2>7. /\ OnOther(f, m, t, c).rule = g.rule /\ OnOther(f, m, t, c).syn_seq = g.syn_seq
          /\ OnOther(f, m, t, c).active = g.active /\ OnOther(f, m, t, c).stopped = g.stopped
          /\ OnOther(f, m, t, c).seen = g.seen /\ OnOther(f, m, t, c).remote_ttl = g.remote_ttl
          /\ OnOther(f, m, t, c).batches = g.batches + 1 /\ OnOther(f, m, t, c).emitted = t
      BY <1>3, <2>6, Zenon DEF Flow
    <2> QED BY <1>4, <1>7, <2>5, <2>7, Zenon DEF over
  <1> QED BY <1>6, <1>7

----------------------------------------------------------------------------
(* The history.                                                            *)

\* A SYN after silence, or another one of the same side, begins a handshake.
Renews(h, m, t) == t > h.latest + Life \/ (h.seq # m.seq /\ h.active = ~m.in)

LEMMA LaterType == ASSUME NEW h \in Handshake, NEW t \in Readings PROVE Later(h, t) \in Readings
  BY DEF Later, Handshake

LEMMA NoHandshakeType == NoHandshake \in Handshake
  <1>1. /\ 0 \in 0 .. SeqMod - 1 /\ FALSE \in BOOLEAN /\ 0 \in Nat /\ 0 \in Readings /\ 0 \in Rules
    BY DEF Readings, Rules
  <1> QED BY <1>1, Zenon DEF NoHandshake, Handshake

LEMMA BegunFields ==
    ASSUME NEW h \in Handshake, NEW m \in Arrivals, NEW t \in Readings
    PROVE  LET g == Begun(h, m, t)
           IN  /\ g \in Handshake
               /\ g.seq = m.seq /\ g.active = (~m.in) /\ g.over = (~m.ok) /\ g.sent = 0
               /\ g.last = 0 /\ g.latest = Later(h, t) /\ g.rule = h.rule
  <1> DEFINE n == NoHandshake
             active == ~m.in
             over == ~m.ok
             latest == Later(h, t)
  <1>1. n \in Handshake /\ n.sent = 0 /\ n.last = 0
    BY NoHandshakeType, Zenon DEF NoHandshake
  <1>2. m.seq \in 0 .. SeqMod - 1 /\ latest \in Readings /\ h.rule \in Rules
    BY ArrivalTypes, LaterType DEF Handshake
  <1>3. active \in BOOLEAN /\ over \in BOOLEAN
    OBVIOUS
  <1>4. Begun(h, m, t) = [n EXCEPT !.seq = m.seq, !.active = active, !.over = over,
                                   !.latest = latest, !.rule = h.rule]
    BY Zenon DEF Begun
  <1> HIDE DEF n, active, over, latest
  <1>5. ASSUME NEW q \in 0 .. SeqMod - 1, NEW a \in BOOLEAN, NEW o \in BOOLEAN,
               NEW l \in Readings, NEW r \in Rules
        PROVE  [n EXCEPT !.seq = q, !.active = a, !.over = o, !.latest = l, !.rule = r] \in Handshake
    BY <1>1 DEF Handshake
  <1>6. [n EXCEPT !.seq = m.seq, !.active = active, !.over = over, !.latest = latest,
                  !.rule = h.rule] \in Handshake
    BY <1>2, <1>3, <1>5
  <1>7. /\ Begun(h, m, t).seq = m.seq /\ Begun(h, m, t).active = active
        /\ Begun(h, m, t).over = over /\ Begun(h, m, t).sent = n.sent
        /\ Begun(h, m, t).last = n.last /\ Begun(h, m, t).latest = latest
        /\ Begun(h, m, t).rule = h.rule
    BY <1>1, <1>4, Zenon DEF Handshake
  <1> QED BY <1>1, <1>4, <1>6, <1>7, Zenon DEF active, over, latest

LEMMA HandshakeOnSynFields ==
    ASSUME NEW h \in Handshake, NEW m \in Arrivals, NEW t \in Readings
    PROVE  LET new == Renews(h, m, t)
               g == HandshakeOnSyn(h, m, t)
           IN  /\ g \in Handshake
               /\ g.rule = h.rule
               /\ g.seq = (IF new THEN m.seq ELSE h.seq)
               /\ g.active = (IF new THEN ~m.in ELSE h.active)
               /\ g.over = (IF new THEN ~m.ok ELSE h.over \/ h.active # ~m.in \/ ~m.ok)
               /\ g.sent = (IF new THEN 0 ELSE h.sent)
               /\ g.last = (IF new THEN 0 ELSE h.last)
               /\ g.latest = Later(h, t)
  <1>1. Later(h, t) \in Readings
    BY LaterType
  <1>2. CASE Renews(h, m, t)
    <2>1. HandshakeOnSyn(h, m, t) = Begun(h, m, t)
      BY <1>2 DEF HandshakeOnSyn, Renews
    <2> DEFINE g == Begun(h, m, t)
    <2>2. /\ g \in Handshake
          /\ g.seq = m.seq /\ g.active = (~m.in) /\ g.over = (~m.ok) /\ g.sent = 0
          /\ g.last = 0 /\ g.latest = Later(h, t) /\ g.rule = h.rule
      BY BegunFields
    <2> HIDE DEF g
    <2> QED BY <1>2, <2>1, <2>2, Zenon DEF g
  <1>3. CASE ~Renews(h, m, t)
    <2> DEFINE over == h.over \/ h.active # ~m.in \/ ~m.ok
    <2>1. HandshakeOnSyn(h, m, t) = [h EXCEPT !.over = over, !.latest = Later(h, t)]
      BY <1>3, Zenon DEF HandshakeOnSyn, Renews, Handshake
    <2>2. over \in BOOLEAN
      OBVIOUS
    <2> HIDE DEF over
    <2>3. [h EXCEPT !.over = over, !.latest = Later(h, t)] \in Handshake
      BY <1>1, <2>2 DEF Handshake
    <2>4. /\ HandshakeOnSyn(h, m, t).rule = h.rule /\ HandshakeOnSyn(h, m, t).seq = h.seq
          /\ HandshakeOnSyn(h, m, t).active = h.active /\ HandshakeOnSyn(h, m, t).over = over
          /\ HandshakeOnSyn(h, m, t).sent = h.sent /\ HandshakeOnSyn(h, m, t).last = h.last
          /\ HandshakeOnSyn(h, m, t).latest = Later(h, t)
      BY <2>1, Zenon DEF Handshake
    <2> QED BY <1>3, <2>1, <2>3, <2>4, Zenon DEF over
  <1> QED BY <1>2, <1>3

LEMMA HandshakeOnOtherFields ==
    ASSUME NEW h \in Handshake, NEW m \in Arrivals, NEW t \in Readings, NEW emit \in BOOLEAN
    PROVE  LET g == HandshakeOnOther(h, m, t, emit)
           IN  /\ g \in Handshake
               /\ g.rule = h.rule /\ g.seq = h.seq /\ g.active = h.active
               /\ g.over = (h.over \/ t > h.latest + Life \/ m.kind # "synack" \/ m.bytes > 0 \/ ~m.ok)
               /\ g.sent = (IF emit THEN h.sent + 1 ELSE h.sent)
               /\ g.last = (IF emit THEN t ELSE h.last)
               /\ g.latest = Later(h, t)
  <1> DEFINE over == h.over \/ t > h.latest + Life \/ m.kind # "synack" \/ m.bytes > 0 \/ ~m.ok
             sent == IF emit THEN h.sent + 1 ELSE h.sent
             last == IF emit THEN t ELSE h.last
  <1>1. HandshakeOnOther(h, m, t, emit) =
          [h EXCEPT !.over = over, !.sent = sent, !.last = last, !.latest = Later(h, t)]
    BY Zenon DEF HandshakeOnOther, Handshake
  <1>2. over \in BOOLEAN
    OBVIOUS
  <1>3. sent \in Nat /\ last \in Readings
    BY DEF Handshake
  <1>4. Later(h, t) \in Readings
    BY LaterType
  <1> HIDE DEF over, sent, last
  <1>5. [h EXCEPT !.over = over, !.sent = sent, !.last = last, !.latest = Later(h, t)] \in Handshake
    BY <1>2, <1>3, <1>4 DEF Handshake
  <1>6. /\ HandshakeOnOther(h, m, t, emit).rule = h.rule
        /\ HandshakeOnOther(h, m, t, emit).seq = h.seq
        /\ HandshakeOnOther(h, m, t, emit).active = h.active
        /\ HandshakeOnOther(h, m, t, emit).over = over
        /\ HandshakeOnOther(h, m, t, emit).sent = sent
        /\ HandshakeOnOther(h, m, t, emit).last = last
        /\ HandshakeOnOther(h, m, t, emit).latest = Later(h, t)
    BY <1>1, Zenon DEF Handshake
  <1> QED BY <1>1, <1>5, <1>6, Zenon DEF over, sent, last

----------------------------------------------------------------------------
(* CPUs at work, and types.                                                *)

Steps == {"idle", "lookup", "create", "relookup", "update"}

LEMMA AtWorkKept == ASSUME TypeOK, AtWork, [Next]_vars PROVE AtWork'
  <1>1. CASE Tick \/ UNCHANGED vars
    BY <1>1 DEF Tick, vars, table, AtWork
  <1>2. ASSUME NEW p \in Cpus, NEW k \in load.keys, NEW m \in load.arrivals,
               NEW c \in load.configs, Observe(p, k, m, c)
        PROVE  AtWork'
    <2>1. k \in Keys /\ m \in Arrivals /\ c \in Configs
      BY DEF TypeOK, Arrivals, Configs
    <2>2. [key |-> k, m |-> m, now |-> clock, config |-> c] \in Packet
      BY <2>1, Zenon DEF TypeOK, Packet
    <2>3. /\ pc' = [pc EXCEPT ![p] = "lookup"] /\ pc[p] = "idle" /\ ptr' = ptr
          /\ packet' = [packet EXCEPT ![p] = [key |-> k, m |-> m, now |-> clock, config |-> c]]
      BY <1>2 DEF Observe, table
    <2>4. packet'[p] \in Packet /\ \A q \in Cpus \ {p} : packet'[q] = packet[q]
      BY <2>2, <2>3 DEF TypeOK
    <2> QED BY <2>3, <2>4 DEF TypeOK, AtWork
  <1>3. ASSUME NEW p \in Cpus, Ignore(p) \/ Miss(p) \/ Create(p) \/ CreateFails(p) PROVE AtWork'
    <2>1. /\ pc[p] \notin {"idle", "update"} /\ UNCHANGED <<ptr, packet>>
          /\ \E step \in {"idle", "create", "relookup"} : pc' = [pc EXCEPT ![p] = step]
      BY <1>3 DEF Ignore, Miss, Create, CreateFails, table
    <2> QED BY <2>1 DEF TypeOK, AtWork
  <1>4. ASSUME NEW p \in Cpus, Hit(p) PROVE AtWork'
    <2>1. PICK s \in Slots : ptr' = [ptr EXCEPT ![p] = s]
      BY <1>4 DEF Hit, Found, Point
    <2>2. pc[p] # "idle" /\ pc' = [pc EXCEPT ![p] = "update"] /\ packet' = packet
      BY <1>4 DEF Hit
    <2> QED BY <2>1, <2>2 DEF TypeOK, TableType, AtWork
  <1>5. ASSUME NEW p \in Cpus, UpdateSyn(p) \/ UpdateOther(p) PROVE AtWork'
    <2>1. /\ pc[p] = "update" /\ pc' = [pc EXCEPT ![p] = "idle"]
          /\ ptr' = [ptr EXCEPT ![p] = NoSlot] /\ packet' = packet
      BY <1>5 DEF UpdateSyn, UpdateOther, Leave, Point
    <2> QED BY <2>1 DEF TypeOK, TableType, AtWork
  <1> QED BY <1>1, <1>2, <1>3, <1>4, <1>5 DEF Next, Trigger

LEMMA NoBatchType == NoBatch \in Batch
  <1>1. 0 \in Rules /\ 0 \in Nat /\ TRUE \in BOOLEAN /\ Nobody \in Keys \cup {Nobody}
    BY DEF Rules
  <1> QED BY <1>1, Zenon DEF NoBatch, Batch

\* What a CPU that is about to update its element has at hand.
LEMMA UpdateTypes ==
    ASSUME TypeOK, AtWork, NEW p \in Cpus, pc[p] = "update"
    PROVE  /\ ptr[p] \in Slots /\ flow[ptr[p]] \in Flow
           /\ packet[p].key \in Keys /\ packet[p].m \in Arrivals /\ packet[p].now \in Readings
           /\ packet[p].config \in Configs /\ handshake[packet[p].key] \in Handshake
  <1>1. packet[p] \in Packet /\ ptr[p] \in Slots
    BY DEF AtWork, TypeOK, TableType
  <1> QED BY <1>1 DEF TypeOK, Packet

LEMMA TypeStep == ASSUME TypeOK, AtWork, [Next]_vars PROVE TypeOK'
  <1>0. load \in Workloads /\ load.packets \in Nat /\ load.ticks \in Readings
    BY DEF TypeOK
  <1>1. CASE Tick
    <2>1. clock' \in Readings
      BY <1>0, <1>1 DEF Tick, TypeOK, Readings
    <2> QED BY <1>1, <2>1, NoBatchType DEF Tick, TypeOK, TableType, table
  <1>2. ASSUME NEW p \in Cpus, NEW k \in load.keys, NEW m \in load.arrivals,
               NEW c \in load.configs, Observe(p, k, m, c)
        PROVE  TypeOK'
    <2>1. k \in Keys /\ m \in Arrivals /\ c \in Configs
      BY <1>0 DEF Arrivals, Configs
    <2>2. [key |-> k, m |-> m, now |-> clock, config |-> c] \in Packet
      BY <2>1, Zenon DEF TypeOK, Packet
    <2>3. packet' \in [Cpus -> Packet \cup {NoPacket}]
      BY <1>2, <2>2, Zenon DEF TypeOK, Observe
    <2>4. pc' \in [Cpus -> Steps] /\ calls' \in 0 .. load.packets
      BY <1>0, <1>2 DEF TypeOK, Observe, Steps
    <2> QED BY <1>2, <2>3, <2>4, NoBatchType DEF TypeOK, TableType, Observe, table, Steps
  <1>3. ASSUME NEW p \in Cpus, Ignore(p) \/ Miss(p) PROVE TypeOK'
    <2>1. pc' \in [Cpus -> Steps]
      BY <1>3 DEF TypeOK, Ignore, Miss, Steps
    <2> QED BY <1>3, <2>1, NoBatchType DEF TypeOK, TableType, Ignore, Miss, table, Steps
  <1>4. ASSUME NEW p \in Cpus, Hit(p) PROVE TypeOK'
    <2>1. pc' \in [Cpus -> Steps] /\ ptr' \in [Cpus -> Slots \cup {NoSlot}]
      BY <1>4 DEF TypeOK, TableType, Hit, Found, Point, Steps
    <2> QED BY <1>4, <2>1, NoBatchType DEF TypeOK, TableType, Hit, Steps
  <1>5. ASSUME NEW p \in Cpus, Create(p) PROVE TypeOK'
    <2> DEFINE k == packet[p].key
               m == packet[p].m
               t == packet[p].now
               c == packet[p].config
               f == Initial(m, t, c)
               h == [Begun(NoHandshake, m, t) EXCEPT !.rule = NextRule(c)]
    <2>1. packet[p] \in Packet
      BY <1>5 DEF AtWork, Create
    <2>2. k \in Keys /\ m \in Arrivals /\ t \in Readings /\ c \in Configs
      BY <2>1 DEF Packet
    <2>3. f \in Flow
      BY <2>2, InitialFields
    <2>4. h \in Handshake
      <3>1. Begun(NoHandshake, m, t) \in Handshake /\ NextRule(c) \in Rules
        BY <2>2, BegunFields, NoHandshakeType, RuleType
      <3> HIDE DEF m, t, c
      <3> QED BY <3>1 DEF Handshake
    <2>5. turn' \in Nat
      BY <1>5, <2>2, RuleType DEF Create
    <2>6. PICK s \in Slots : owner' = [owner EXCEPT ![s] = k] /\ flow' = [flow EXCEPT ![s] = f]
      BY <1>5, Zenon DEF Create, Victims, Free, File
    <2>7. handshake' = [handshake EXCEPT ![k] = h] /\ stale' = stale \ {k}
      BY <1>5, Zenon DEF Create
    <2>8. pc' \in [Cpus -> Steps]
      BY <1>5 DEF TypeOK, Create, Steps
    <2> HIDE DEF k, m, t, c, f, h
    <2>9. flow' \in [Slots -> Flow] /\ owner' \in [Slots -> Keys \cup {Nobody}]
          /\ handshake' \in [Keys -> Handshake] /\ stale' \subseteq Keys
      BY <2>2, <2>3, <2>4, <2>6, <2>7 DEF TypeOK, TableType
    <2> QED BY <1>5, <2>5, <2>8, <2>9, NoBatchType DEF TypeOK, TableType, Create, Steps
  <1>6. ASSUME NEW p \in Cpus, CreateFails(p) PROVE TypeOK'
    <2>1. packet[p].config \in Configs
      BY <1>6 DEF AtWork, CreateFails, Packet
    <2>2. turn' \in Nat
      BY <1>6, <2>1, RuleType DEF CreateFails
    <2>3. pc' \in [Cpus -> Steps]
      BY <1>6 DEF TypeOK, CreateFails, Steps
    <2> QED BY <1>6, <2>2, <2>3, NoBatchType DEF TypeOK, TableType, CreateFails, table, Steps
  <1>7. ASSUME NEW p \in Cpus, pc[p] = "update", Leave(p),
               NEW f \in Flow, flow' = [flow EXCEPT ![ptr[p]] = f],
               NEW h \in Handshake, handshake' = [handshake EXCEPT ![packet[p].key] = h],
               fired' \in Batch
        PROVE  TypeOK'
    <2>1. packet[p].key \in Keys
      BY <1>7, UpdateTypes
    <2>2. stale' \subseteq Keys
      BY <1>7, <2>1 DEF Leave, TypeOK
    <2>3. ptr' \in [Cpus -> Slots \cup {NoSlot}] /\ pc' \in [Cpus -> Steps]
      BY <1>7 DEF Leave, Point, TypeOK, TableType, Steps
    <2>4. flow' \in [Slots -> Flow] /\ handshake' \in [Keys -> Handshake]
      BY <1>7 DEF TypeOK
    <2> QED BY <1>7, <2>2, <2>3, <2>4 DEF Leave, TypeOK, TableType, Steps
  <1>8. ASSUME NEW p \in Cpus, UpdateSyn(p) PROVE TypeOK'
    <2> DEFINE f == OnSyn(flow[ptr[p]], packet[p].m, packet[p].now)
               h == HandshakeOnSyn(handshake[packet[p].key], packet[p].m, packet[p].now)
    <2>1. f \in Flow /\ h \in Handshake
      BY <1>8, UpdateTypes, OnSynFields, HandshakeOnSynFields DEF UpdateSyn
    <2>2. /\ pc[p] = "update" /\ Leave(p) /\ fired' \in Batch
          /\ flow' = [flow EXCEPT ![ptr[p]] = f]
          /\ handshake' = [handshake EXCEPT ![packet[p].key] = h]
      BY <1>8, NoBatchType, Zenon DEF UpdateSyn
    <2> HIDE DEF f, h
    <2> QED BY <1>7, <2>1, <2>2
  <1>9. ASSUME NEW p \in Cpus, UpdateOther(p) PROVE TypeOK'
    <2> DEFINE g == flow[ptr[p]]
               m == packet[p].m
               t == packet[p].now
               k == packet[p].key
               emit == Triggers(g, m, t, packet[p].config)
               f == OnOther(g, m, t, packet[p].config)
               h == HandshakeOnOther(handshake[k], m, t, emit)
               ttl == IF m.in THEN m.ttl ELSE g.remote_ttl
               spaced == handshake[k].sent = 0 \/ t >= handshake[k].last + Gap
               batch == [key |-> k, rule |-> RuleOf(g), ttl |-> ttl, spaced |-> spaced]
    <2>0. pc[p] = "update"
      BY <1>9 DEF UpdateOther
    <2>1. emit \in BOOLEAN /\ spaced \in BOOLEAN
      BY Zenon DEF Triggers
    <2>2. f \in Flow /\ h \in Handshake
      BY <2>0, <2>1, UpdateTypes, OnOtherFields, HandshakeOnOtherFields
    <2>3. RuleOf(g) \in Rules /\ ttl \in Nat /\ k \in Keys
      <3>1. g \in Flow /\ m \in Arrivals /\ k \in Keys
        BY <2>0, UpdateTypes
      <3>2. m.ttl \in Nat
        BY <3>1, ArrivalTypes
      <3> QED BY <3>1, <3>2 DEF RuleOf, Rules, Flow
    <2>4. /\ Leave(p) /\ fired' = (IF emit THEN batch ELSE NoBatch)
          /\ flow' = [flow EXCEPT ![ptr[p]] = f]
          /\ handshake' = [handshake EXCEPT ![k] = h]
      BY <1>9, Zenon DEF UpdateOther
    <2> HIDE DEF g, m, t, emit, f, h, ttl, spaced
    <2>5. batch \in Batch
      BY <2>1, <2>3, Zenon DEF Batch
    <2> HIDE DEF batch
    <2>6. fired' \in Batch
      BY <2>4, <2>5, NoBatchType
    <2> QED BY <1>7, <2>0, <2>2, <2>4, <2>6
  <1>10. CASE UNCHANGED vars
    BY <1>10 DEF TypeOK, TableType, vars, table
  <1> QED
    BY <1>1, <1>2, <1>3, <1>4, <1>5, <1>6, <1>8, <1>9, <1>10 DEF Next, Trigger

LEMMA InitTypes == ASSUME Init PROVE TypeOK /\ AtWork
  <1>1. 1 \in Readings /\ calls \in 0 .. load.packets
    BY DEF Init, Readings
  <1>2. TableType /\ AtWork
    BY DEF Init, TableInit, TableType, AtWork
  <1> QED BY <1>1, <1>2, UnusedType, NoHandshakeType, NoBatchType DEF Init, TypeOK

\* Every value keeps its type; in particular no flow ever books more batches
\* than the quota, for every timing of the packets.
THEOREM TypeCorrect == Spec => []TypeOK
  <1>1. Init => TypeOK /\ AtWork
    BY InitTypes
  <1>2. TypeOK /\ AtWork /\ [Next]_vars => (TypeOK /\ AtWork)'
    BY TypeStep, AtWorkKept
  <1> QED BY <1>1, <1>2, PTL DEF Spec

----------------------------------------------------------------------------
(* One packet keeps a connection and its history in step.                  *)

LEMMA ReadingTypes ==
    ASSUME NEW f \in Flow, NEW h \in Handshake, NEW t \in Readings
    PROVE  /\ f.seen \in 0 .. MaxClock /\ f.emitted \in 0 .. MaxClock /\ t \in 0 .. MaxClock
           /\ h.latest \in 0 .. MaxClock /\ h.last \in 0 .. MaxClock
           /\ f.batches \in 0 .. MaxBatches /\ h.sent \in Nat
  BY DEF Flow, Handshake, Readings

\* With a reading in order, the code and exact time agree on a silence, and
\* on whether a batch is spaced from the last.
LEMMA InOrderReadings ==
    ASSUME NEW f \in Flow, NEW h \in Handshake, NEW t \in Readings, Exact(f, h), f.seen <= t
    PROVE  /\ Elapsed(t, f.seen) > Life <=> t > h.latest + Life
           /\ Elapsed(t, f.emitted) >= Gap <=> t >= h.last + Gap
           /\ Later(h, t) = t
  <1>1. /\ f.seen \in 0 .. MaxClock /\ f.emitted \in 0 .. MaxClock /\ t \in 0 .. MaxClock
        /\ f.seen = h.latest /\ f.emitted = h.last /\ f.emitted <= f.seen
    BY ReadingTypes, Zenon DEF Exact
  <1>2. Elapsed(t, f.seen) = t - f.seen /\ Elapsed(t, f.emitted) = t - f.emitted
    BY <1>1 DEF Elapsed
  <1>3. Later(h, t) = t
    BY <1>1 DEF Later
  <1> QED BY <1>1, <1>2, <1>3

LEMMA KnownOnSyn ==
    ASSUME NEW f \in Flow, NEW h \in Handshake, NEW m \in Arrivals, NEW t \in Readings, Known(f, h)
    PROVE  Known(OnSyn(f, m, t), HandshakeOnSyn(h, m, t))
  <1> DEFINE g == OnSyn(f, m, t)
             j == HandshakeOnSyn(h, m, t)
             new == NewGeneration(f, m, t)
  <1>1. /\ g.rule = f.rule /\ g.active = (IF new THEN ~m.in ELSE f.active)
        /\ g.remote_ttl = (IF m.in THEN m.ttl ELSE f.remote_ttl)
    BY OnSynFields
  <1>2. j.rule = h.rule
    BY HandshakeOnSynFields
  <1>3. m.ttl # 0
    BY ArrivalTypes
  <1> HIDE DEF g, j, new
  <1>4. Known(g, j)
    BY <1>1, <1>2, <1>3, Zenon DEF Known
  <1> QED BY <1>4 DEF g, j

LEMMA ExactOnSyn ==
    ASSUME NEW f \in Flow, NEW h \in Handshake, NEW m \in Arrivals, NEW t \in Readings,
           Exact(f, h), f.seen <= t
    PROVE  Exact(OnSyn(f, m, t), HandshakeOnSyn(h, m, t))
  <1> DEFINE g == OnSyn(f, m, t)
             j == HandshakeOnSyn(h, m, t)
             new == NewGeneration(f, m, t)
  <1>1. new <=> Renews(h, m, t)
    <2>1. Elapsed(t, f.seen) > Life <=> t > h.latest + Life
      BY InOrderReadings
    <2> QED BY <2>1, Zenon DEF NewGeneration, Renews, Exact
  <1>2. /\ g.syn_seq = (IF new THEN m.seq ELSE f.syn_seq)
        /\ g.active = (IF new THEN ~m.in ELSE f.active)
        /\ g.stopped = (IF new THEN ~m.ok ELSE f.stopped \/ Crosses(f, m) \/ ~m.ok)
        /\ g.batches = (IF new THEN 0 ELSE f.batches)
        /\ g.emitted = (IF new THEN 0 ELSE f.emitted)
        /\ g.seen = t
    BY OnSynFields
  <1>3. /\ j.seq = (IF Renews(h, m, t) THEN m.seq ELSE h.seq)
        /\ j.active = (IF Renews(h, m, t) THEN ~m.in ELSE h.active)
        /\ j.over = (IF Renews(h, m, t) THEN ~m.ok ELSE h.over \/ h.active # ~m.in \/ ~m.ok)
        /\ j.sent = (IF Renews(h, m, t) THEN 0 ELSE h.sent)
        /\ j.last = (IF Renews(h, m, t) THEN 0 ELSE h.last)
        /\ j.latest = Later(h, t)
    BY HandshakeOnSynFields
  <1>4. Later(h, t) = t
    BY InOrderReadings
  <1>5. g.emitted <= g.seen
    <2>1. f.emitted <= f.seen /\ f.emitted \in 0 .. MaxClock /\ f.seen \in 0 .. MaxClock
          /\ t \in 0 .. MaxClock
      BY ReadingTypes DEF Exact
    <2> HIDE DEF g, new
    <2> QED BY <1>2, <2>1
  <1> HIDE DEF g, j, new
  <1>6. Exact(g, j)
    BY <1>1, <1>2, <1>3, <1>4, <1>5, Zenon DEF Exact, Crosses
  <1> QED BY <1>6 DEF g, j

LEMMA KnownOnOther ==
    ASSUME NEW f \in Flow, NEW h \in Handshake, NEW m \in Arrivals, NEW t \in Readings,
           NEW c \in Configs, NEW emit \in BOOLEAN, Known(f, h)
    PROVE  Known(OnOther(f, m, t, c), HandshakeOnOther(h, m, t, emit))
  <1> DEFINE g == OnOther(f, m, t, c)
             j == HandshakeOnOther(h, m, t, emit)
  <1>1. g.rule = f.rule /\ g.active = f.active /\ g.remote_ttl = f.remote_ttl
    BY OnOtherFields
  <1>2. j.rule = h.rule
    BY HandshakeOnOtherFields
  <1> HIDE DEF g, j
  <1>3. Known(g, j)
    BY <1>1, <1>2, Zenon DEF Known
  <1> QED BY <1>3 DEF g, j

LEMMA ExactOnOther ==
    ASSUME NEW f \in Flow, NEW h \in Handshake, NEW m \in Arrivals, NEW t \in Readings,
           NEW c \in Configs, Exact(f, h), f.seen <= t
    PROVE  Exact(OnOther(f, m, t, c), HandshakeOnOther(h, m, t, Triggers(f, m, t, c)))
  <1> DEFINE fires == Triggers(f, m, t, c)
             g == OnOther(f, m, t, c)
             j == HandshakeOnOther(h, m, t, fires)
  <1>0. fires \in BOOLEAN
    BY Zenon DEF Triggers
  <1>1. /\ g.syn_seq = f.syn_seq /\ g.active = f.active
        /\ g.stopped = (f.stopped \/ Ends(f, m, t))
        /\ g.batches = (IF fires THEN f.batches + 1 ELSE f.batches)
        /\ g.emitted = (IF fires THEN t ELSE f.emitted) /\ g.seen = t
    BY OnOtherFields
  <1>2. /\ j.seq = h.seq /\ j.active = h.active
        /\ j.over = (h.over \/ t > h.latest + Life \/ m.kind # "synack" \/ m.bytes > 0 \/ ~m.ok)
        /\ j.sent = (IF fires THEN h.sent + 1 ELSE h.sent)
        /\ j.last = (IF fires THEN t ELSE h.last) /\ j.latest = Later(h, t)
    BY <1>0, HandshakeOnOtherFields
  <1>3. Later(h, t) = t /\ (Elapsed(t, f.seen) > Life <=> t > h.latest + Life)
    BY InOrderReadings
  <1>4. (f.stopped \/ Ends(f, m, t))
        = (h.over \/ t > h.latest + Life \/ m.kind # "synack" \/ m.bytes > 0 \/ ~m.ok)
    BY <1>3, Zenon DEF Ends, Exact
  <1>5. g.emitted <= g.seen
    <2>1. f.emitted <= f.seen /\ f.emitted \in 0 .. MaxClock /\ f.seen \in 0 .. MaxClock
          /\ t \in 0 .. MaxClock
      BY ReadingTypes DEF Exact
    <2> HIDE DEF g, fires
    <2> QED BY <1>1, <2>1
  <1> HIDE DEF g, j, fires
  <1>6. Exact(g, j)
    BY <1>1, <1>2, <1>3, <1>4, <1>5, Zenon DEF Exact
  <1> QED BY <1>6 DEF g, j, fires

----------------------------------------------------------------------------
(* The invariant.                                                          *)

LEMMA InitInv == ASSUME Init PROVE Inv
  <1>1. Agreeing /\ FiledOnce
    BY DEF Init, TableInit, Agreeing, FiledOnce
  <1>2. Owning
    BY DEF Init, TableInit, Owning
  <1> QED BY <1>1, <1>2 DEF Inv

\* Steps that leave the elements, the history and the pointers alone.
LEMMA InvStays ==
    ASSUME TypeOK, Inv, UNCHANGED <<owner, flow, handshake, stale>>, Owning'
    PROVE  Inv'
  BY DEF Inv, FiledOnce, Agreeing, Known, Exact

LEMMA CreateKeepsInv ==
    ASSUME TypeOK, AtWork, Inv, ~Recycle, NEW p \in Cpus, Create(p)
    PROVE  Inv'
  <1> DEFINE k == packet[p].key
             m == packet[p].m
             t == packet[p].now
             c == packet[p].config
             f == Initial(m, t, c)
             b == Begun(NoHandshake, m, t)
             h == [b EXCEPT !.rule = NextRule(c)]
  <1>0. packet[p] \in Packet
    BY DEF AtWork, Create
  <1>1. k \in Keys /\ k # Nobody /\ m \in Arrivals /\ t \in Readings /\ c \in Configs
    BY <1>0 DEF Packet
  <1>2. Found(k) = {} /\ handshake' = [handshake EXCEPT ![k] = h] /\ stale' = stale \ {k}
        /\ UNCHANGED <<ptr, packet>>
    BY Zenon DEF Create
  <1>3. PICK s \in Slots : /\ s \in Victims
                           /\ owner' = [owner EXCEPT ![s] = k]
                           /\ flow' = [flow EXCEPT ![s] = f]
    BY Zenon DEF Create, Victims, Free, File
  <1>4. ~Held(s)
    BY <1>3 DEF Victims, Free
  <1>5. owner \in [Slots -> Keys \cup {Nobody}] /\ flow \in [Slots -> Flow]
        /\ handshake \in [Keys -> Handshake] /\ ptr \in [Cpus -> Slots \cup {NoSlot}]
    BY DEF TypeOK, TableType
  <1>6. \A r \in Slots : owner[r] # k
    BY <1>2 DEF Found
  <1>7. Known(f, h) /\ Exact(f, h)
    <2>1. /\ f.rule = NextRule(c) /\ f.syn_seq = m.seq /\ f.active = (~m.in)
          /\ f.stopped = (~m.ok) /\ f.batches = 0 /\ f.emitted = 0 /\ f.seen = t
          /\ f.remote_ttl = (IF m.in THEN m.ttl ELSE 0)
      BY <1>1, InitialFields
    <2>2. /\ b \in Handshake
          /\ b.seq = m.seq /\ b.active = (~m.in) /\ b.over = (~m.ok) /\ b.sent = 0
          /\ b.last = 0 /\ b.latest = Later(NoHandshake, t)
      BY <1>1, NoHandshakeType, BegunFields
    <2>3. m.ttl # 0 /\ t \in 0 .. MaxClock
      BY <1>1, ArrivalTypes DEF Readings
    <2>4. Later(NoHandshake, t) = t
      BY <2>3 DEF Later, NoHandshake
    <2> HIDE DEF f, b, m, t, c
    <2>5. /\ h.rule = NextRule(c) /\ h.seq = b.seq /\ h.active = b.active /\ h.over = b.over
          /\ h.sent = b.sent /\ h.last = b.last /\ h.latest = b.latest
      BY <2>2, Zenon DEF Handshake
    <2> HIDE DEF h
    <2>6. Known(f, h)
      BY <2>1, <2>3, <2>5, Zenon DEF Known
    <2>7. f.emitted <= f.seen
      BY <2>1, <2>3
    <2>8. Exact(f, h)
      BY <2>1, <2>2, <2>4, <2>5, <2>7, Zenon DEF Exact
    <2> QED BY <2>6, <2>8
  <1> HIDE DEF k, m, t, c, f, b, h
  <1>8. /\ owner'[s] = k /\ flow'[s] = f /\ handshake'[k] = h
        /\ \A r \in Slots \ {s} : owner'[r] = owner[r] /\ flow'[r] = flow[r]
        /\ \A j \in Keys \ {k} : handshake'[j] = handshake[j]
    BY <1>1, <1>2, <1>3, <1>5
  <1>9. FiledOnce'
    BY <1>1, <1>3, <1>6, <1>8 DEF FiledOnce, Inv
  <1>10. Owning'
    <2> SUFFICES ASSUME NEW q \in Cpus, ptr[q] # NoSlot PROVE owner'[ptr[q]] = packet[q].key
      BY <1>2 DEF Owning
    <2>1. ptr[q] \in Slots \ {s}
      BY <1>4, <1>5 DEF Held
    <2> QED BY <1>8, <2>1 DEF Inv, Owning
  <1>11. Agreeing'
    <2> SUFFICES ASSUME NEW r \in Slots, owner'[r] \in Keys
                 PROVE  /\ Known(flow'[r], handshake'[owner'[r]])
                        /\ owner'[r] \notin stale' => Exact(flow'[r], handshake'[owner'[r]])
      BY DEF Agreeing, Known, Exact
    <2>1. CASE r = s
      BY <1>7, <1>8, <2>1
    <2>2. CASE r # s
      <3>1. /\ owner'[r] = owner[r] /\ flow'[r] = flow[r] /\ owner[r] # k
            /\ handshake'[owner[r]] = handshake[owner[r]]
        BY <1>6, <1>8, <2>2
      <3>2. owner[r] \in stale' <=> owner[r] \in stale
        BY <1>2, <3>1
      <3> QED BY <3>1, <3>2 DEF Inv, Agreeing
    <2> QED BY <2>1, <2>2
  <1> QED BY <1>9, <1>10, <1>11 DEF Inv

\* A critical section that keeps its connection and its history in step.
LEMMA LeaveKeepsInv ==
    ASSUME TypeOK, AtWork, Inv, NEW p \in Cpus, pc[p] = "update", Leave(p),
           NEW f \in Flow, flow' = [flow EXCEPT ![ptr[p]] = f],
           NEW h \in Handshake, handshake' = [handshake EXCEPT ![packet[p].key] = h],
           Known(f, h),
           packet[p].key \notin stale' => Exact(f, h)
    PROVE  Inv'
  <1> DEFINE s == ptr[p]
             k == packet[p].key
  <1>1. s \in Slots /\ k \in Keys
    BY UpdateTypes
  <1>2. owner[s] = k
    BY <1>1 DEF Inv, Owning
  <1>3. /\ UNCHANGED <<owner, packet>> /\ ptr' = [ptr EXCEPT ![p] = NoSlot]
        /\ stale' \in {stale, stale \cup {k}}
    BY DEF Leave, Point
  <1>4. owner \in [Slots -> Keys \cup {Nobody}] /\ flow \in [Slots -> Flow]
        /\ handshake \in [Keys -> Handshake] /\ ptr \in [Cpus -> Slots \cup {NoSlot}]
    BY DEF TypeOK, TableType
  <1>5. /\ flow'[s] = f /\ handshake'[k] = h
        /\ \A r \in Slots \ {s} : flow'[r] = flow[r]
        /\ \A j \in Keys \ {k} : handshake'[j] = handshake[j]
    BY <1>1, <1>4
  <1>6. FiledOnce'
    BY <1>3 DEF Inv, FiledOnce
  <1>7. Owning'
    BY <1>3, <1>4 DEF Inv, Owning
  <1>8. Known(f, h) /\ (k \notin stale' => Exact(f, h))
    OBVIOUS
  <1> HIDE DEF s, k
  <1>9. Agreeing'
    <2> SUFFICES ASSUME NEW r \in Slots, owner'[r] \in Keys
                 PROVE  /\ Known(flow'[r], handshake'[owner'[r]])
                        /\ owner'[r] \notin stale' => Exact(flow'[r], handshake'[owner'[r]])
      BY DEF Agreeing, Known, Exact
    <2>0. owner' = owner
      BY <1>3
    <2>1. CASE r = s
      BY <1>2, <1>5, <1>8, <2>0, <2>1
    <2>2. CASE r # s
      <3>1. owner[r] # k
        BY <1>1, <1>2, <2>0, <2>2 DEF Inv, FiledOnce
      <3>2. flow'[r] = flow[r] /\ handshake'[owner[r]] = handshake[owner[r]]
        BY <1>5, <2>0, <2>2, <3>1
      <3>3. owner[r] \notin stale' => owner[r] \notin stale
        BY <1>3, <3>1
      <3> QED BY <2>0, <3>2, <3>3 DEF Inv, Agreeing
    <2> QED BY <2>1, <2>2
  <1> QED BY <1>6, <1>7, <1>9 DEF Inv

\* What a CPU in its critical section knows of the connection.
LEMMA AtHand ==
    ASSUME TypeOK, AtWork, Inv, NEW p \in Cpus, pc[p] = "update", Leave(p)
    PROVE  /\ Known(flow[ptr[p]], handshake[packet[p].key])
           /\ packet[p].key \notin stale' =>
                 /\ Exact(flow[ptr[p]], handshake[packet[p].key])
                 /\ flow[ptr[p]].seen <= packet[p].now
                 /\ packet[p].key \notin stale
  <1>1. /\ ptr[p] \in Slots /\ packet[p].key \in Keys /\ packet[p].now \in Readings
        /\ flow[ptr[p]] \in Flow
    BY UpdateTypes
  <1>2. owner[ptr[p]] = packet[p].key
    BY <1>1 DEF Inv, Owning
  <1>3. flow[ptr[p]].seen \in 0 .. MaxClock /\ packet[p].now \in 0 .. MaxClock
    BY <1>1 DEF Flow, Readings
  <1>4. stale' = IF packet[p].now < flow[ptr[p]].seen THEN stale \cup {packet[p].key} ELSE stale
    BY DEF Leave
  <1> QED BY <1>1, <1>2, <1>3, <1>4 DEF Inv, Agreeing

LEMMA InvKept == ASSUME TypeOK, AtWork, Inv, ~Recycle, [Next]_vars PROVE Inv'
  <1>1. CASE Tick \/ UNCHANGED vars
    BY <1>1, InvStays DEF Tick, vars, table, Inv, Owning
  <1>2. ASSUME NEW p \in Cpus, NEW k \in load.keys, NEW m \in load.arrivals,
               NEW c \in load.configs, Observe(p, k, m, c)
        PROVE  Inv'
    <2>1. ptr[p] = NoSlot
      BY <1>2 DEF Observe, AtWork
    <2>2. Owning'
      BY <1>2, <2>1 DEF Observe, table, Inv, Owning, TypeOK
    <2> QED BY <1>2, <2>2, InvStays DEF Observe, table
  <1>3. ASSUME NEW p \in Cpus, Hit(p) PROVE Inv'
    <2>1. Owning'
      BY <1>3 DEF Hit, Point, Found, Inv, Owning, TypeOK, TableType
    <2> QED BY <1>3, <2>1, InvStays DEF Hit
  <1>4. ASSUME NEW p \in Cpus, Ignore(p) \/ Miss(p) \/ CreateFails(p) PROVE Inv'
    BY <1>4, InvStays DEF Ignore, Miss, CreateFails, table, Inv, Owning
  <1>5. ASSUME NEW p \in Cpus, UpdateSyn(p) PROVE Inv'
    <2> DEFINE f == flow[ptr[p]]
               m == packet[p].m
               t == packet[p].now
               k == packet[p].key
               h == handshake[k]
    <2>1. /\ pc[p] = "update" /\ Leave(p)
          /\ flow' = [flow EXCEPT ![ptr[p]] = OnSyn(f, m, t)]
          /\ handshake' = [handshake EXCEPT ![k] = HandshakeOnSyn(h, m, t)]
      BY <1>5, Zenon DEF UpdateSyn
    <2>2. f \in Flow /\ m \in Arrivals /\ t \in Readings /\ h \in Handshake
      BY <2>1, UpdateTypes
    <2>3. /\ Known(f, h)
          /\ k \notin stale' => Exact(f, h) /\ f.seen <= t
      BY <2>1, AtHand
    <2>4. OnSyn(f, m, t) \in Flow /\ HandshakeOnSyn(h, m, t) \in Handshake
      BY <2>2, OnSynFields, HandshakeOnSynFields
    <2>5. Known(OnSyn(f, m, t), HandshakeOnSyn(h, m, t))
      BY <2>2, <2>3, KnownOnSyn
    <2>6. k \notin stale' => Exact(OnSyn(f, m, t), HandshakeOnSyn(h, m, t))
      BY <2>2, <2>3, ExactOnSyn
    <2> HIDE DEF f, m, t, h
    <2> QED BY <2>1, <2>4, <2>5, <2>6, LeaveKeepsInv
  <1>6. ASSUME NEW p \in Cpus, UpdateOther(p) PROVE Inv'
    <2> DEFINE f == flow[ptr[p]]
               m == packet[p].m
               t == packet[p].now
               k == packet[p].key
               c == packet[p].config
               h == handshake[k]
               emit == Triggers(f, m, t, c)
               g == OnOther(f, m, t, c)
               j == HandshakeOnOther(h, m, t, emit)
    <2>1. /\ pc[p] = "update" /\ Leave(p)
          /\ flow' = [flow EXCEPT ![ptr[p]] = g]
          /\ handshake' = [handshake EXCEPT ![k] = j]
      BY <1>6, Zenon DEF UpdateOther
    <2>2. f \in Flow /\ m \in Arrivals /\ t \in Readings /\ c \in Configs /\ h \in Handshake
      BY <2>1, UpdateTypes
    <2>3. /\ Known(f, h)
          /\ k \notin stale' => Exact(f, h) /\ f.seen <= t
      BY <2>1, AtHand
    <2>4. emit \in BOOLEAN
      BY Zenon DEF Triggers
    <2>5. g \in Flow /\ j \in Handshake
      BY <2>2, <2>4, OnOtherFields, HandshakeOnOtherFields
    <2>6. Known(g, j)
      BY <2>2, <2>3, <2>4, KnownOnOther
    <2>7. k \notin stale' => Exact(g, j)
      BY <2>2, <2>3, ExactOnOther
    <2> HIDE DEF g, j
    <2> QED BY <2>1, <2>5, <2>6, <2>7, LeaveKeepsInv
  <1> QED BY <1>1, <1>2, <1>3, <1>4, <1>5, <1>6, CreateKeepsInv DEF Next, Trigger

----------------------------------------------------------------------------
(* What a SYN-ACK triggers.                                                *)

\* The promises about a batch, as the step that triggers it leaves them.
BatchFacts == BatchesAreSpaced /\ OverMeansOver /\ OneShape /\ PeerIsKnown

LEMMA UnfiredFacts == ASSUME fired' = NoBatch PROVE BatchFacts'
  BY Zenon DEF NoBatch, BatchFacts, BatchesAreSpaced, OverMeansOver, OneShape, PeerIsKnown

LEMMA UpdateFires ==
    ASSUME TypeOK, AtWork, Inv, NEW p \in Cpus, UpdateOther(p)
    PROVE  BatchFacts'
  <1> DEFINE f == flow[ptr[p]]
             m == packet[p].m
             t == packet[p].now
             k == packet[p].key
             c == packet[p].config
             h == handshake[k]
             emit == Triggers(f, m, t, c)
             j == HandshakeOnOther(h, m, t, emit)
             ttl == IF m.in THEN m.ttl ELSE f.remote_ttl
             spaced == h.sent = 0 \/ t >= h.last + Gap
  <1>0. /\ pc[p] = "update" /\ Leave(p) /\ handshake' = [handshake EXCEPT ![k] = j]
        /\ fired' = (IF emit THEN [key |-> k, rule |-> RuleOf(f), ttl |-> ttl, spaced |-> spaced]
                     ELSE NoBatch)
    BY Zenon DEF UpdateOther
  <1>1. CASE ~emit
    BY <1>0, <1>1, UnfiredFacts
  <1>2. CASE emit
    <2>1. /\ f \in Flow /\ m \in Arrivals /\ t \in Readings /\ c \in Configs /\ k \in Keys
          /\ h \in Handshake
      BY <1>0, UpdateTypes
    <2>2. /\ Known(f, h)
          /\ k \notin stale' => Exact(f, h) /\ f.seen <= t
      BY <1>0, AtHand
    <2>3. f.active = m.in /\ ~f.stopped /\ ~Ends(f, m, t) /\ Spaced(f, t)
      BY <1>2, Zenon DEF Triggers
    <2>4. /\ j.rule = h.rule
          /\ j.over = (h.over \/ t > h.latest + Life \/ m.kind # "synack" \/ m.bytes > 0 \/ ~m.ok)
      <3>1. emit \in BOOLEAN
        BY Zenon DEF Triggers
      <3> HIDE DEF emit
      <3> QED BY <2>1, <3>1, HandshakeOnOtherFields
    <2>5. /\ fired'.key = k /\ fired'.rule = RuleOf(f) /\ fired'.ttl = ttl
          /\ fired'.spaced = spaced
      BY <1>0, <1>2, Zenon
    <2>6. m.ttl # 0 /\ RuleOf(f) = f.rule
      BY <2>1, ArrivalTypes DEF RuleOf, Flow
    <2>7. k \notin stale' => /\ Elapsed(t, f.seen) > Life <=> t > h.latest + Life
                             /\ Elapsed(t, f.emitted) >= Gap <=> t >= h.last + Gap
      BY <2>1, <2>2, InOrderReadings
    <2>8. ttl # 0
      BY <2>2, <2>3, <2>6, Zenon DEF Known
    <2>9. k \notin stale' => spaced
      BY <2>2, <2>3, <2>7, Zenon DEF Spaced, Exact
    <2>10. k \notin stale' => ~j.over
      BY <2>2, <2>3, <2>4, <2>7, Zenon DEF Ends, Exact
    <2> HIDE DEF f, m, t, c, h, emit, j, ttl, spaced
    <2>11. handshake'[k] = j
      BY <1>0, <2>1 DEF TypeOK
    <2>12. BatchesAreSpaced' /\ PeerIsKnown'
      BY <2>5, <2>8, <2>9, Zenon DEF BatchesAreSpaced, PeerIsKnown
    <2>13. OverMeansOver'
      BY <2>5, <2>10, <2>11, Zenon DEF OverMeansOver
    <2>14. OneShape'
      BY <2>2, <2>4, <2>5, <2>6, <2>11, Zenon DEF OneShape, Known
    <2> QED BY <2>12, <2>13, <2>14 DEF BatchFacts
  <1> QED BY <1>1, <1>2

LEMMA QuotaKept ==
    ASSUME TypeOK, TypeOK', AtWork, Inv, Inv', QuotaHoldsInOrder, [Next]_vars
    PROVE  QuotaHoldsInOrder'
  <1>1. CASE UNCHANGED <<handshake, stale>>
    BY <1>1 DEF QuotaHoldsInOrder
  <1>2. ASSUME NEW p \in Cpus, Create(p) PROVE QuotaHoldsInOrder'
    <2> DEFINE k == packet[p].key
               b == Begun(NoHandshake, packet[p].m, packet[p].now)
               h == [b EXCEPT !.rule = NextRule(packet[p].config)]
    <2>1. packet[p] \in Packet
      BY <1>2 DEF AtWork, Create
    <2>2. k \in Keys /\ packet[p].m \in Arrivals /\ packet[p].now \in Readings
      BY <2>1 DEF Packet
    <2>3. b \in Handshake /\ b.sent = 0
      BY <2>2, NoHandshakeType, BegunFields
    <2>4. handshake' = [handshake EXCEPT ![k] = h] /\ stale' = stale \ {k}
      BY <1>2, Zenon DEF Create
    <2> HIDE DEF b, k
    <2>5. h.sent = 0
      BY <2>3, Zenon DEF Handshake
    <2> HIDE DEF h
    <2> QED BY <2>2, <2>4, <2>5 DEF QuotaHoldsInOrder, TypeOK
  <1>3. ASSUME NEW p \in Cpus, UpdateSyn(p) \/ UpdateOther(p) PROVE QuotaHoldsInOrder'
    <2> DEFINE k == packet[p].key
               s == ptr[p]
    <2>1. /\ pc[p] = "update" /\ Leave(p)
          /\ \E h : handshake' = [handshake EXCEPT ![k] = h]
      BY <1>3, Zenon DEF UpdateSyn, UpdateOther
    <2>2. s \in Slots /\ k \in Keys
      BY <2>1, UpdateTypes
    <2>3. owner'[s] = k /\ stale \subseteq stale' /\ stale' \subseteq stale \cup {k}
      BY <2>1, <2>2 DEF Inv, Owning, Leave
    <2>4. k \notin stale' => Exact(flow'[s], handshake'[k])
      BY <2>2, <2>3 DEF Inv, Agreeing, Exact, Known
    <2>5. flow'[s].batches \in 0 .. MaxBatches
      BY <2>2 DEF TypeOK, Flow
    <2>6. k \notin stale' => handshake'[k].sent <= MaxBatches
      BY <2>4, <2>5 DEF Exact
    <2>7. \A j \in Keys \ {k} : handshake'[j] = handshake[j] /\ (j \in stale' <=> j \in stale)
      BY <2>1, <2>3 DEF TypeOK
    <2> HIDE DEF k, s
    <2> QED BY <2>6, <2>7 DEF QuotaHoldsInOrder
  <1>4. ASSUME NEW p \in Cpus, Trigger(p) PROVE QuotaHoldsInOrder'
    <2>1. Ignore(p) \/ Hit(p) \/ Miss(p) \/ CreateFails(p) => UNCHANGED <<handshake, stale>>
      BY DEF Ignore, Hit, Miss, CreateFails
    <2> QED BY <1>1, <1>2, <1>3, <1>4, <2>1 DEF Trigger
  <1>5. Tick \/ UNCHANGED vars => UNCHANGED <<handshake, stale>>
    BY DEF Tick, vars
  <1>6. \A p \in Cpus, k \in load.keys, m \in load.arrivals, c \in load.configs :
           Observe(p, k, m, c) => UNCHANGED <<handshake, stale>>
    BY DEF Observe
  <1> QED BY <1>1, <1>4, <1>5, <1>6 DEF Next

\* Without recycled elements the trigger keeps its promises: a connection has
\* one rule and a known peer whatever the readings; with readings in order its
\* quota holds, its batches are spaced, and an end is an end.
THEOREM HandshakesKeepPromises ==
    ASSUME ~Recycle PROVE Spec => [](QuotaHoldsInOrder /\ BatchFacts)
  <1>1. Init => TypeOK /\ AtWork /\ Inv /\ QuotaHoldsInOrder /\ BatchFacts
    <2> SUFFICES ASSUME Init
                 PROVE  TypeOK /\ AtWork /\ Inv /\ QuotaHoldsInOrder /\ BatchFacts
      OBVIOUS
    <2>1. fired.key = Nobody /\ fired.spaced
      BY DEF Init, NoBatch
    <2>2. BatchFacts
      BY <2>1 DEF BatchFacts, BatchesAreSpaced, OverMeansOver, OneShape, PeerIsKnown
    <2>3. QuotaHoldsInOrder
      BY DEF Init, NoHandshake, QuotaHoldsInOrder
    <2> QED BY <2>2, <2>3, InitTypes, InitInv
  <1>2. /\ TypeOK /\ AtWork /\ Inv /\ QuotaHoldsInOrder /\ BatchFacts /\ [Next]_vars
        => (TypeOK /\ AtWork /\ Inv /\ QuotaHoldsInOrder /\ BatchFacts)'
    <2> SUFFICES ASSUME TypeOK, AtWork, Inv, QuotaHoldsInOrder, BatchFacts, [Next]_vars
                 PROVE  (TypeOK /\ AtWork /\ Inv /\ QuotaHoldsInOrder /\ BatchFacts)'
      OBVIOUS
    <2>1. TypeOK' /\ AtWork' /\ Inv'
      BY TypeStep, AtWorkKept, InvKept
    <2>2. QuotaHoldsInOrder'
      BY <2>1, QuotaKept
    <2>3. BatchFacts'
      <3>1. CASE \E p \in Cpus : UpdateOther(p)
        BY <3>1, UpdateFires
      <3>2. CASE fired' = NoBatch
        BY <3>2, UnfiredFacts
      <3>3. CASE UNCHANGED vars
        BY <3>3, Zenon DEF vars, BatchFacts, BatchesAreSpaced, OverMeansOver, OneShape, PeerIsKnown
      <3>4. Next => (\E p \in Cpus : UpdateOther(p)) \/ fired' = NoBatch
        BY Zenon DEF Next, Trigger, Tick, Observe, Ignore, Hit, Miss, Create, CreateFails, UpdateSyn
      <3> QED BY <3>1, <3>2, <3>3, <3>4
    <2> QED BY <2>1, <2>2, <2>3
  <1> QED BY <1>1, <1>2, PTL DEF Spec

\* A generation never gets more than max_batches batches while readings come
\* in order, however its SYN is retransmitted.
THEOREM QuotaIsKept == ASSUME ~Recycle PROVE Spec => []QuotaHoldsInOrder
  BY HandshakesKeepPromises, PTL

\* Two batches of a generation are 200 ms apart, with readings in order.
THEOREM BatchesSpaced == ASSUME ~Recycle PROVE Spec => []BatchesAreSpaced
  <1>1. BatchFacts => BatchesAreSpaced
    BY DEF BatchFacts
  <1> QED BY <1>1, HandshakesKeepPromises, PTL

\* A handshake that is over triggers nothing any more, with readings in order.
THEOREM OverIsOver == ASSUME ~Recycle PROVE Spec => []OverMeansOver
  <1>1. BatchFacts => OverMeansOver
    BY DEF BatchFacts
  <1> QED BY <1>1, HandshakesKeepPromises, PTL

\* All batches of a connection carry one rule's payload, whatever the races at
\* its creation, the reloads and the readings.
THEOREM ShapesAgree == ASSUME ~Recycle PROVE Spec => []OneShape
  <1>1. BatchFacts => OneShape
    BY DEF BatchFacts
  <1> QED BY <1>1, HandshakesKeepPromises, PTL

\* A batch's hop estimate rests on a TTL of the peer, whatever the readings.
THEOREM PeersAreKnown == ASSUME ~Recycle PROVE Spec => []PeerIsKnown
  <1>1. BatchFacts => PeerIsKnown
    BY DEF BatchFacts
  <1> QED BY <1>1, HandshakesKeepPromises, PTL
=============================================================================
