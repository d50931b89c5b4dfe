--------------------------- MODULE UdpFlow_proof ---------------------------
(***************************************************************************)
(* Proofs about UdpFlow, for any number of CPUs, flows and map elements,   *)
(* every timeout and window.  Those that speak of a flow's history assume  *)
(* that no element is recycled under a CPU's pointer: Recycle = TRUE in    *)
(* MC_UdpFlow shows that they fail otherwise.                              *)
(***************************************************************************)
EXTENDS UdpFlow, TLAPS

USE ClockAssumption, TableAssumption, UdpAssumption

\* A key is filed once.
FiledOnce == \A s, r \in Slots : owner[s] = owner[r] /\ owner[s] # Nobody => s = r

\* A CPU points at an element exactly while it is about to update it.
Pointing == \A p \in Cpus : pc[p] = "update" <=> ptr[p] # NoSlot

\* The element it points at is its packet's.
Owning == \A p \in Cpus : ptr[p] # NoSlot => owner[ptr[p]] = packet[p].key

\* What the state of a flow and its history in exact time have in common:
\* the flow has heard and said no more, and with readings in order they agree.
Known(f, w) == /\ f.outbound => w.spoke
               /\ f.remote_ttl \in {0, w.heard}
               /\ f.seen <= w.latest
Exact(f, w) == /\ f.seen = w.latest
               /\ f.packets = IF w.seen <= Top THEN w.seen ELSE Top
Agreeing == \A s \in Slots : owner[s] \in Keys =>
               /\ Known(flow[s], window[owner[s]])
               /\ owner[s] \notin stale => Exact(flow[s], window[owner[s]])

Inv == FiledOnce /\ Pointing /\ Owning /\ Agreeing

----------------------------------------------------------------------------
(* The operators of the critical section.                                  *)

LEMMA RenewedType == ASSUME NEW f \in Flow PROVE Renewed(f) \in Flow
  <1>1. \A n \in 0 .. Top, q \in 0 .. MaxInitial, o \in BOOLEAN, h \in Ttls \cup {0} :
          [f EXCEPT !.packets = n, !.batches = q, !.outbound = o, !.remote_ttl = h] \in Flow
    BY DEF Flow
  <1>2. 0 \in 0 .. Top /\ 0 \in 0 .. MaxInitial /\ FALSE \in BOOLEAN /\ 0 \in Ttls \cup {0}
    OBVIOUS
  <1> QED BY <1>1, <1>2, Zenon DEF Renewed

LEMMA AgedType == ASSUME NEW f \in Flow, NEW m \in Packet PROVE Aged(f, m) \in Flow
  BY RenewedType DEF Aged

LEMMA CountedType == ASSUME NEW n \in 0 .. Top PROVE Counted(n) \in 0 .. Top
  BY DEF Counted

LEMMA SeenFields ==
    ASSUME NEW f \in Flow, NEW m \in Packet
    PROVE  /\ Seen(f, m).seen = m.now
           /\ Seen(f, m).packets = Counted(Aged(f, m).packets)
           /\ Seen(f, m).batches = Aged(f, m).batches
           /\ Seen(f, m).remote_ttl = IF m.in THEN m.ttl ELSE Aged(f, m).remote_ttl
           /\ Seen(f, m).outbound = (Aged(f, m).outbound \/ ~m.in)
  <1>1. Aged(f, m) \in Flow
    BY AgedType
  <1> QED BY <1>1, Zenon DEF Seen, Flow

LEMMA SeenType == ASSUME NEW f \in Flow, NEW m \in Packet PROVE Seen(f, m) \in Flow
  <1> DEFINE a == Aged(f, m)
             count == Counted(a.packets)
             spoke == a.outbound \/ ~m.in
             heard == IF m.in THEN m.ttl ELSE a.remote_ttl
  <1>1. a \in Flow
    BY AgedType
  <1>2. m.now \in Readings /\ m.ttl \in Ttls /\ m.in \in BOOLEAN
    BY DEF Packet
  <1>3. count \in 0 .. Top
    BY <1>1, CountedType DEF Flow
  <1>4. spoke \in BOOLEAN
    OBVIOUS
  <1>5. heard \in Ttls \cup {0}
    BY <1>1, <1>2 DEF Flow
  <1>6. Seen(f, m) = [a EXCEPT !.seen = m.now, !.packets = count,
                               !.remote_ttl = heard, !.outbound = spoke]
    BY <1>1, Zenon DEF Seen, Flow
  <1> HIDE DEF a, count, spoke, heard
  <1>7. ASSUME NEW t \in Readings, NEW n \in 0 .. Top, NEW h \in Ttls \cup {0}, NEW o \in BOOLEAN
        PROVE  [a EXCEPT !.seen = t, !.packets = n, !.remote_ttl = h, !.outbound = o] \in Flow
    BY <1>1 DEF Flow
  <1>8. [a EXCEPT !.seen = m.now, !.packets = count, !.remote_ttl = heard, !.outbound = spoke] \in Flow
    BY <1>2, <1>3, <1>4, <1>5, <1>7
  <1> QED BY <1>6, <1>8, Zenon

LEMMA BatchesType == ASSUME NEW f \in Flow, NEW n \in 0 .. MaxInitial
                     PROVE  [f EXCEPT !.batches = n] \in Flow
  BY DEF Flow

\* What a window is after the silence before a packet, if there was one.
Rested(w, m) == IF m.now > w.latest + m.config.idle THEN Silent ELSE w

LEMMA RestedType == ASSUME NEW w \in Window, NEW m \in Packet PROVE Rested(w, m) \in Window
  <1>1. Silent \in Window
    <2>1. 0 \in Nat /\ FALSE \in BOOLEAN /\ 0 \in Ttls \cup {0} /\ 0 \in Readings
      BY DEF Readings
    <2> QED BY <2>1, Zenon DEF Silent, Window
  <1> QED BY <1>1 DEF Rested

LEMMA WindowFields ==
    ASSUME NEW w \in Window, NEW m \in Packet
    PROVE  /\ WindowAfter(w, m).seen = Rested(w, m).seen + 1
           /\ WindowAfter(w, m).spoke = (Rested(w, m).spoke \/ ~m.in)
           /\ WindowAfter(w, m).heard = IF m.in THEN m.ttl ELSE Rested(w, m).heard
           /\ WindowAfter(w, m).latest = IF m.now > w.latest THEN m.now ELSE w.latest
  <1>1. Rested(w, m) \in Window
    BY RestedType
  <1> QED BY <1>1, Zenon DEF WindowAfter, Window, Rested

LEMMA WindowType == ASSUME NEW w \in Window, NEW m \in Packet
                    PROVE  WindowAfter(w, m) \in Window
  <1> DEFINE r == Rested(w, m)
             count == r.seen + 1
             spoke == r.spoke \/ ~m.in
             heard == IF m.in THEN m.ttl ELSE r.heard
             t == IF m.now > w.latest THEN m.now ELSE w.latest
  <1>1. r \in Window
    BY RestedType
  <1>2. t \in Readings
    BY DEF Packet, Window
  <1>3. spoke \in BOOLEAN
    OBVIOUS
  <1>4. heard \in Ttls \cup {0}
    BY <1>1 DEF Window, Packet
  <1>5. count \in Nat
    BY <1>1 DEF Window
  <1>6. WindowAfter(w, m) = [r EXCEPT !.seen = count, !.spoke = spoke,
                                      !.heard = heard, !.latest = t]
    BY <1>1, Zenon DEF WindowAfter, Window, Rested
  <1> HIDE DEF r, count, spoke, heard, t
  <1>7. ASSUME NEW n \in Nat, NEW o \in BOOLEAN, NEW h \in Ttls \cup {0}, NEW u \in Readings
        PROVE  [r EXCEPT !.seen = n, !.spoke = o, !.heard = h, !.latest = u] \in Window
    BY <1>1 DEF Window
  <1>8. [r EXCEPT !.seen = count, !.spoke = spoke, !.heard = heard, !.latest = t] \in Window
    BY <1>2, <1>3, <1>4, <1>5, <1>7
  <1> QED BY <1>6, <1>8, Zenon

LEMMA PointingKept == ASSUME TypeOK, Pointing, [Next]_vars PROVE Pointing'
  <1>1. CASE Tick
    BY <1>1 DEF Tick, table, Pointing
  <1>2. ASSUME NEW p \in Cpus, NEW k \in Keys, NEW in \in BOOLEAN, NEW ttl \in Ttls,
               NEW c \in Configs, Observe(p, k, in, ttl, c)
        PROVE  Pointing'
    BY <1>2 DEF TypeOK, Observe, table, Pointing
  <1>3. ASSUME NEW p \in Cpus, Hit(p) PROVE Pointing'
    BY <1>3 DEF TypeOK, TableType, Hit, Point, Found, Pointing
  <1>4. ASSUME NEW p \in Cpus, Miss(p) PROVE Pointing'
    BY <1>4 DEF TypeOK, Miss, table, Pointing
  <1>5. ASSUME NEW p \in Cpus, Create(p) PROVE Pointing'
    BY <1>5 DEF TypeOK, Create, Pointing
  <1>6. ASSUME NEW p \in Cpus, CreateFails(p) PROVE Pointing'
    BY <1>6 DEF TypeOK, CreateFails, table, Pointing
  <1>7. ASSUME NEW p \in Cpus, Update(p) PROVE Pointing'
    <2>1. /\ pc[p] = "update" /\ pc' = [pc EXCEPT ![p] = "idle"]
          /\ ptr' = [ptr EXCEPT ![p] = NoSlot]
      BY <1>7 DEF Update, Point
    <2> QED BY <2>1 DEF TypeOK, TableType, Pointing
  <1>8. CASE UNCHANGED vars
    BY <1>8 DEF vars, table, Pointing
  <1> QED BY <1>1, <1>2, <1>3, <1>4, <1>5, <1>6, <1>7, <1>8 DEF Next

----------------------------------------------------------------------------
\* Every value keeps its type; in particular the number of batches a flow has
\* booked stays within the largest window, for every timing of the packets.
THEOREM TypeCorrect == Spec => []TypeOK
  <1>1. Init => TypeOK /\ Pointing
    <2> SUFFICES ASSUME Init PROVE TypeOK /\ Pointing
      OBVIOUS
    <2>1. 1 \in Readings /\ 0 \in Readings /\ 0 \in 0 .. MaxPackets
      BY DEF Readings
    <2>2. Blank \in Flow
      <3>1. 0 \in 0 .. Top /\ 0 \in 0 .. MaxInitial /\ FALSE \in BOOLEAN /\ 0 \in Ttls \cup {0}
        OBVIOUS
      <3> QED BY <2>1, <3>1, Zenon DEF Blank, Flow
    <2>3. Silent \in Window /\ NoBatch \in Batch
      <3>1. 0 \in Nat /\ FALSE \in BOOLEAN /\ 0 \in Ttls \cup {0} /\ Nobody \in Keys \cup {Nobody}
        OBVIOUS
      <3> QED BY <2>1, <3>1, Zenon DEF Silent, Window, NoBatch, Batch
    <2>4. TableType
      BY DEF Init, TableInit, TableType
    <2>5. Pointing
      BY DEF Init, TableInit, Pointing
    <2> QED BY <2>1, <2>2, <2>3, <2>4, <2>5 DEF Init, TypeOK
  <1>2. TypeOK /\ Pointing /\ [Next]_vars => TypeOK'
    <2> SUFFICES ASSUME TypeOK, Pointing, [Next]_vars PROVE TypeOK'
      OBVIOUS
    <2>0. NoBatch \in Batch
      <3>1. 0 \in Nat /\ FALSE \in BOOLEAN /\ 0 \in Ttls \cup {0} /\ Nobody \in Keys \cup {Nobody}
        OBVIOUS
      <3> QED BY <3>1, Zenon DEF NoBatch, Batch
    <2>1. CASE Tick
      BY <2>0, <2>1 DEF TypeOK, Tick, table, TableType, Readings
    <2>2. ASSUME NEW p \in Cpus, NEW k \in Keys, NEW in \in BOOLEAN, NEW ttl \in Ttls,
                 NEW c \in Configs, Observe(p, k, in, ttl, c)
          PROVE  TypeOK'
      <3>1. [key |-> k, in |-> in, ttl |-> ttl, now |-> clock, config |-> c] \in Packet
        BY Zenon DEF TypeOK, Packet
      <3>2. packet' \in [Cpus -> Packet]
        BY <2>2, <3>1, Zenon DEF TypeOK, Observe
      <3>3. pc' \in [Cpus -> {"idle", "lookup", "create", "relookup", "update"}]
        BY <2>2 DEF TypeOK, Observe
      <3>4. calls' \in 0 .. MaxPackets
        BY <2>2 DEF TypeOK, Observe
      <3> QED BY <2>0, <2>2, <3>2, <3>3, <3>4 DEF TypeOK, Observe, table, TableType
    <2>3. ASSUME NEW p \in Cpus, Hit(p) PROVE TypeOK'
      <3>1. ptr' \in [Cpus -> Slots \cup {NoSlot}]
        BY <2>3 DEF TypeOK, TableType, Hit, Point, Found
      <3>2. pc' \in [Cpus -> {"idle", "lookup", "create", "relookup", "update"}]
        BY <2>3 DEF TypeOK, Hit
      <3> QED BY <2>0, <2>3, <3>1, <3>2 DEF TypeOK, Hit, TableType
    <2>4. ASSUME NEW p \in Cpus, Miss(p) PROVE TypeOK'
      <3>1. pc' \in [Cpus -> {"idle", "lookup", "create", "relookup", "update"}]
        BY <2>4 DEF TypeOK, Miss
      <3> QED BY <2>0, <2>4, <3>1 DEF TypeOK, Miss, table, TableType
    <2>5. ASSUME NEW p \in Cpus, Create(p) PROVE TypeOK'
      <3>1. Blank \in Flow
        <4>1. 0 \in 0 .. Top /\ 0 \in 0 .. MaxInitial /\ FALSE \in BOOLEAN /\ 0 \in Ttls \cup {0}
              /\ 0 \in Readings
          BY DEF Readings
        <4> QED BY <4>1, Zenon DEF Blank, Flow
      <3>2. Silent \in Window
        <4>1. 0 \in Nat /\ FALSE \in BOOLEAN /\ 0 \in Ttls \cup {0} /\ 0 \in Readings
          BY DEF Readings
        <4> QED BY <4>1, Zenon DEF Silent, Window
      <3>3. packet[p].key \in Keys
        BY DEF TypeOK, Packet
      <3>4. PICK s \in Slots : /\ File(s, packet[p].key)
                               /\ flow' = [flow EXCEPT ![s] = Blank]
        BY <2>5, Zenon DEF Create, Created, Victims, Free
      <3>5. flow' \in [Slots -> Flow] /\ owner' \in [Slots -> Keys \cup {Nobody}]
        BY <3>1, <3>3, <3>4 DEF TypeOK, TableType, File
      <3>6. window' \in [Keys -> Window] /\ stale' \subseteq Keys
        BY <2>5, <3>2 DEF TypeOK, Create
      <3>7. pc' \in [Cpus -> {"idle", "lookup", "create", "relookup", "update"}]
        BY <2>5 DEF TypeOK, Create
      <3> QED BY <2>0, <2>5, <3>5, <3>6, <3>7 DEF TypeOK, Create, TableType
    <2>6. ASSUME NEW p \in Cpus, CreateFails(p) PROVE TypeOK'
      <3>1. pc' \in [Cpus -> {"idle", "lookup", "create", "relookup", "update"}]
        BY <2>6 DEF TypeOK, CreateFails
      <3> QED BY <2>0, <2>6, <3>1 DEF TypeOK, CreateFails, table, TableType
    <2>7. ASSUME NEW p \in Cpus, Update(p) PROVE TypeOK'
      <3> DEFINE m == packet[p]
                 s == ptr[p]
                 f == Seen(flow[s], m)
                 w == WindowAfter(window[m.key], m)
                 emit == Triggers(f, m)
                 booked == IF emit THEN f.batches + 1 ELSE f.batches
      <3>1. m \in Packet /\ m.key \in Keys /\ m.in \in BOOLEAN /\ m.config \in Configs
        BY DEF TypeOK, Packet
      <3>2. s \in Slots
        BY <2>7 DEF TypeOK, TableType, Pointing, Update
      <3>3. f \in Flow /\ w \in Window
        BY <3>1, <3>2, SeenType, WindowType DEF TypeOK
      <3>4. booked \in 0 .. MaxInitial
        <4>1. f.batches \in 0 .. MaxInitial
          BY <3>3 DEF Flow
        <4>2. m.config.packets \in 1 .. MaxInitial
          BY <3>1
        <4>3. emit => f.batches < m.config.packets
          BY Zenon DEF Triggers
        <4> HIDE DEF m, s, f, w, emit
        <4> QED BY <4>1, <4>2, <4>3
      <3>5. flow' \in [Slots -> Flow]
        <4>1. flow' = [flow EXCEPT ![s] = [f EXCEPT !.batches = booked]]
          BY <2>7, Zenon DEF Update
        <4> HIDE DEF m, s, f, w, emit, booked
        <4> QED BY <3>2, <3>3, <3>4, <4>1, BatchesType DEF TypeOK
      <3>6. window' \in [Keys -> Window]
        <4>1. window' = [window EXCEPT ![m.key] = w]
          BY <2>7, Zenon DEF Update
        <4> HIDE DEF m, s, f, w, emit
        <4> QED BY <3>1, <3>3, <4>1 DEF TypeOK
      <3>7. fired' \in Batch
        <4>1. f.remote_ttl \in Ttls \cup {0} /\ m.key \in Keys \cup {Nobody}
          BY <3>1, <3>3 DEF Flow
        <4>2. [key |-> m.key, in |-> m.in, ttl |-> f.remote_ttl] \in Batch
          BY <3>1, <4>1, Zenon DEF Batch
        <4> QED BY <2>0, <2>7, <4>2, Zenon DEF Update
      <3>8. stale' \subseteq Keys
        BY <2>7, <3>1 DEF TypeOK, Update
      <3>9. ptr' \in [Cpus -> Slots \cup {NoSlot}]
        BY <2>7 DEF TypeOK, TableType, Update, Point
      <3>10. pc' \in [Cpus -> {"idle", "lookup", "create", "relookup", "update"}]
        BY <2>7 DEF TypeOK, Update
      <3>11. UNCHANGED <<owner, clock, packet, calls>>
        BY <2>7 DEF Update
      <3> HIDE DEF m, s, f, w, emit, booked
      <3> QED BY <3>5, <3>6, <3>7, <3>8, <3>9, <3>10, <3>11 DEF TypeOK, TableType
    <2>8. CASE UNCHANGED vars
      BY <2>8 DEF TypeOK, vars, table, TableType
    <2> QED BY <2>1, <2>2, <2>3, <2>4, <2>5, <2>6, <2>7, <2>8 DEF Next
  <1>3. TypeOK /\ Pointing /\ [Next]_vars => Pointing'
    BY PointingKept
  <1> QED BY <1>1, <1>2, <1>3, PTL DEF Spec

----------------------------------------------------------------------------
(* One packet keeps a flow and its history in step.                        *)

\* A silence in exact time is one for the code, whose time stamp is not later.
LEMMA SilenceRenews ==
    ASSUME NEW f \in Flow, NEW w \in Window, NEW m \in Packet, f.seen <= w.latest,
           m.now > w.latest + m.config.idle
    PROVE  Aged(f, m) = Renewed(f)
  <1>1. /\ f.seen \in 0 .. MaxClock /\ w.latest \in 0 .. MaxClock /\ m.now \in 0 .. MaxClock
        /\ m.config.idle \in Nat
    BY DEF Flow, Window, Packet, Readings
  <1>2. Elapsed(m.now, f.seen) > m.config.idle
    BY <1>1 DEF Elapsed
  <1> QED BY <1>2 DEF Aged, Expired

\* With a reading in order the code sees a silence only where there was one.
LEMMA InOrderAges ==
    ASSUME NEW f \in Flow, NEW w \in Window, NEW m \in Packet, f.seen = w.latest,
           f.seen <= m.now, ~(m.now > w.latest + m.config.idle)
    PROVE  Aged(f, m) = f
  <1>1. /\ f.seen \in 0 .. MaxClock /\ w.latest \in 0 .. MaxClock /\ m.now \in 0 .. MaxClock
        /\ m.config.idle \in Nat
    BY DEF Flow, Window, Packet, Readings
  <1>2. ~(Elapsed(m.now, f.seen) > m.config.idle)
    BY <1>1 DEF Elapsed
  <1> QED BY <1>2 DEF Aged, Expired

LEMMA RenewedFields ==
    ASSUME NEW f \in Flow
    PROVE  /\ Renewed(f).packets = 0 /\ Renewed(f).outbound = FALSE
           /\ Renewed(f).remote_ttl = 0 /\ Renewed(f).batches = 0
  BY Zenon DEF Renewed, Flow

LEMMA KnownStep ==
    ASSUME NEW f \in Flow, NEW w \in Window, NEW m \in Packet, Known(f, w)
    PROVE  Known(Seen(f, m), WindowAfter(w, m))
  <1> DEFINE a == Aged(f, m)
             r == Rested(w, m)
  <1>2. (a.outbound => r.spoke) /\ a.remote_ttl \in {0, r.heard}
    <2>1. CASE m.now > w.latest + m.config.idle
      <3>1. a = Renewed(f)
        BY <2>1, SilenceRenews DEF Known
      <3> QED BY <3>1, RenewedFields, Zenon
    <2>2. CASE ~(m.now > w.latest + m.config.idle)
      <3>1. r = w
        BY <2>2 DEF Rested
      <3>2. a = f \/ a = Renewed(f)
        BY DEF Aged
      <3> QED BY <3>1, <3>2, RenewedFields, Zenon DEF Known
    <2> QED BY <2>1, <2>2
  <1>3. /\ Seen(f, m).seen = m.now
        /\ Seen(f, m).remote_ttl = IF m.in THEN m.ttl ELSE a.remote_ttl
        /\ Seen(f, m).outbound = (a.outbound \/ ~m.in)
    BY SeenFields
  <1>4. /\ WindowAfter(w, m).spoke = (r.spoke \/ ~m.in)
        /\ WindowAfter(w, m).heard = IF m.in THEN m.ttl ELSE r.heard
        /\ WindowAfter(w, m).latest = IF m.now > w.latest THEN m.now ELSE w.latest
    BY WindowFields
  <1>5. Seen(f, m).seen <= WindowAfter(w, m).latest
    <2>1. m.now \in 0 .. MaxClock /\ w.latest \in 0 .. MaxClock
      BY DEF Window, Packet, Readings
    <2> QED BY <1>3, <1>4, <2>1
  <1> HIDE DEF a, r
  <1>6. Seen(f, m).outbound => WindowAfter(w, m).spoke
    BY <1>2, <1>3, <1>4, Zenon
  <1>7. Seen(f, m).remote_ttl \in {0, WindowAfter(w, m).heard}
    BY <1>2, <1>3, <1>4
  <1> QED BY <1>5, <1>6, <1>7, Zenon DEF Known

LEMMA ExactStep ==
    ASSUME NEW f \in Flow, NEW w \in Window, NEW m \in Packet, Exact(f, w), f.seen <= m.now
    PROVE  Exact(Seen(f, m), WindowAfter(w, m))
  <1> DEFINE a == Aged(f, m)
             r == Rested(w, m)
  <1>1. /\ f.seen \in 0 .. MaxClock /\ w.latest \in 0 .. MaxClock /\ m.now \in 0 .. MaxClock
        /\ w.seen \in Nat /\ f.packets \in 0 .. Top
    BY DEF Flow, Window, Packet, Readings
  <1>2. r.seen \in Nat /\ a.packets = IF r.seen <= Top THEN r.seen ELSE Top
    <2>1. CASE m.now > w.latest + m.config.idle
      <3>1. a.packets = 0
        <4>1. f.seen <= w.latest
          BY <1>1 DEF Exact
        <4>2. a = Renewed(f)
          BY <2>1, <4>1, SilenceRenews
        <4> QED BY <4>2, RenewedFields, Zenon
      <3>2. r.seen = 0
        BY <2>1 DEF Rested, Silent
      <3> QED BY <3>1, <3>2
    <2>2. CASE ~(m.now > w.latest + m.config.idle)
      BY <1>1, <2>2, InOrderAges DEF Exact, Rested
    <2> QED BY <2>1, <2>2
  <1>3. Seen(f, m).seen = m.now /\ Seen(f, m).packets = Counted(a.packets)
    BY SeenFields
  <1>4. /\ WindowAfter(w, m).seen = r.seen + 1
        /\ WindowAfter(w, m).latest = IF m.now > w.latest THEN m.now ELSE w.latest
    BY WindowFields
  <1> HIDE DEF a, r
  <1>5. Seen(f, m).seen = WindowAfter(w, m).latest
    BY <1>1, <1>3, <1>4 DEF Exact
  <1>6. Counted(a.packets) = IF r.seen + 1 <= Top THEN r.seen + 1 ELSE Top
    BY <1>2 DEF Counted
  <1> QED BY <1>3, <1>4, <1>5, <1>6 DEF Exact

\* Booking a batch touches nothing the two have in common.
LEMMA BookingAgrees ==
    ASSUME NEW f \in Flow, NEW w \in Window, NEW n
    PROVE  /\ Known(f, w) => Known([f EXCEPT !.batches = n], w)
           /\ Exact(f, w) => Exact([f EXCEPT !.batches = n], w)
  <1>1. /\ [f EXCEPT !.batches = n].outbound = f.outbound
        /\ [f EXCEPT !.batches = n].remote_ttl = f.remote_ttl
        /\ [f EXCEPT !.batches = n].seen = f.seen
        /\ [f EXCEPT !.batches = n].packets = f.packets
    BY Zenon DEF Flow
  <1>2. Known(f, w) => Known([f EXCEPT !.batches = n], w)
    BY <1>1, Zenon DEF Known
  <1>3. Exact(f, w) => Exact([f EXCEPT !.batches = n], w)
    BY <1>1, Zenon DEF Exact
  <1> QED BY <1>2, <1>3

----------------------------------------------------------------------------
(* The invariant.                                                          *)

LEMMA InitInv == ASSUME Init PROVE Inv
  <1>1. Agreeing /\ FiledOnce
    BY DEF Init, TableInit, Agreeing, FiledOnce
  <1>2. Pointing /\ Owning
    BY DEF Init, TableInit, Pointing, Owning
  <1> QED BY <1>1, <1>2 DEF Inv

\* Steps that leave the flows and their history alone.
LEMMA TableKept == ASSUME Inv, UNCHANGED <<owner, flow, window, stale>>
                   PROVE  FiledOnce' /\ Agreeing'
  BY DEF Inv, FiledOnce, Agreeing

LEMMA CreateKeepsInv ==
    ASSUME TypeOK, Inv, ~Recycle, NEW p \in Cpus, Create(p)
    PROVE  FiledOnce' /\ Owning' /\ Agreeing'
  <1> DEFINE k == packet[p].key
  <1>1. k \in Keys /\ k # Nobody
    BY DEF TypeOK, Packet
  <1>2. Found(k) = {} /\ window' = [window EXCEPT ![k] = Silent] /\ stale' = stale \ {k}
        /\ UNCHANGED <<ptr, packet>>
    BY Zenon DEF Create
  <1>3. PICK s \in Slots : /\ s \in Victims
                           /\ owner' = [owner EXCEPT ![s] = k]
                           /\ flow' = [flow EXCEPT ![s] = Blank]
    BY Zenon DEF Create, Created, Victims, Free, File
  <1>4. ~Held(s)
    BY <1>3 DEF Victims, Free
  <1>5. owner \in [Slots -> Keys \cup {Nobody}] /\ flow \in [Slots -> Flow]
        /\ window \in [Keys -> Window] /\ ptr \in [Cpus -> Slots \cup {NoSlot}]
    BY DEF TypeOK, TableType
  <1>6. \A r \in Slots : owner[r] # k
    BY <1>2 DEF Found
  <1> HIDE DEF k
  <1>7. /\ owner'[s] = k /\ flow'[s] = Blank /\ window'[k] = Silent
        /\ \A r \in Slots \ {s} : owner'[r] = owner[r] /\ flow'[r] = flow[r]
        /\ \A j \in Keys \ {k} : window'[j] = window[j]
    BY <1>1, <1>2, <1>3, <1>5
  <1>8. FiledOnce'
    BY <1>1, <1>3, <1>6, <1>7 DEF FiledOnce, Inv
  <1>9. Owning'
    <2> SUFFICES ASSUME NEW q \in Cpus, ptr[q] # NoSlot PROVE owner'[ptr[q]] = packet[q].key
      BY <1>2 DEF Owning
    <2>1. ptr[q] \in Slots \ {s}
      BY <1>4, <1>5 DEF Held
    <2> QED BY <1>7, <2>1 DEF Inv, Owning
  <1>10. Known(Blank, Silent) /\ Exact(Blank, Silent)
    BY DEF Known, Exact, Blank, Silent
  <1>11. Agreeing'
    <2> SUFFICES ASSUME NEW r \in Slots, owner'[r] \in Keys
                 PROVE  /\ Known(flow'[r], window'[owner'[r]])
                        /\ owner'[r] \notin stale' => Exact(flow'[r], window'[owner'[r]])
      BY DEF Agreeing, Known, Exact
    <2>1. CASE r = s
      BY <1>7, <1>10, <2>1
    <2>2. CASE r # s
      <3>1. /\ owner'[r] = owner[r] /\ flow'[r] = flow[r] /\ owner[r] # k
            /\ window'[owner[r]] = window[owner[r]]
        BY <1>6, <1>7, <2>2
      <3>2. owner[r] \in stale' <=> owner[r] \in stale
        BY <1>2, <3>1
      <3> QED BY <3>1, <3>2 DEF Inv, Agreeing
    <2> QED BY <2>1, <2>2
  <1> QED BY <1>8, <1>9, <1>11

LEMMA UpdateKeepsInv ==
    ASSUME TypeOK, Inv, NEW p \in Cpus, Update(p)
    PROVE  FiledOnce' /\ Owning' /\ Agreeing'
  <1> DEFINE m == packet[p]
             s == ptr[p]
             k == m.key
             f == flow[s]
             w == window[k]
             emit == Triggers(Seen(f, m), m)
             booked == IF emit THEN Seen(f, m).batches + 1 ELSE Seen(f, m).batches
  <1>1. /\ s \in Slots /\ m \in Packet /\ k \in Keys /\ f \in Flow /\ w \in Window
    BY DEF TypeOK, TableType, Update, Inv, Pointing, Packet
  <1>2. owner[s] = k
    BY <1>1 DEF Inv, Owning
  <1>3. /\ flow' = [flow EXCEPT ![s] = [Seen(f, m) EXCEPT !.batches = booked]]
        /\ window' = [window EXCEPT ![k] = WindowAfter(w, m)]
    BY Zenon DEF Update
  <1>4. /\ stale' = IF m.now < f.seen THEN stale \cup {k} ELSE stale
        /\ ptr' = [ptr EXCEPT ![p] = NoSlot]
        /\ UNCHANGED <<owner, packet>>
    BY Zenon DEF Update, Point
  <1>5. flow \in [Slots -> Flow] /\ window \in [Keys -> Window]
        /\ ptr \in [Cpus -> Slots \cup {NoSlot}]
    BY DEF TypeOK, TableType
  <1>6. Known(f, w) /\ (k \notin stale => Exact(f, w))
    BY <1>1, <1>2 DEF Inv, Agreeing
  <1>7. Known(Seen(f, m), WindowAfter(w, m))
    BY <1>1, <1>6, KnownStep
  <1>8. k \notin stale' => Exact(Seen(f, m), WindowAfter(w, m))
    <2>1. m.now \in 0 .. MaxClock /\ f.seen \in 0 .. MaxClock
      BY <1>1 DEF Packet, Flow, Readings
    <2>2. k \notin stale' => k \notin stale /\ f.seen <= m.now
      BY <1>4, <2>1
    <2> QED BY <1>1, <1>6, <2>2, ExactStep
  <1>9. Seen(f, m) \in Flow /\ WindowAfter(w, m) \in Window
    BY <1>1, SeenType, WindowType
  <1>10. FiledOnce'
    BY <1>4 DEF Inv, FiledOnce
  <1> HIDE DEF m, s, k, f, w, emit, booked
  <1>11. Owning'
    BY <1>4, <1>5 DEF Inv, Owning, m
  <1>12. /\ flow'[s] = [Seen(f, m) EXCEPT !.batches = booked]
         /\ window'[k] = WindowAfter(w, m)
         /\ \A r \in Slots \ {s} : flow'[r] = flow[r]
         /\ \A j \in Keys \ {k} : window'[j] = window[j]
    BY <1>1, <1>3, <1>5
  <1>13. Known(flow'[s], window'[k]) /\ (k \notin stale' => Exact(flow'[s], window'[k]))
    <2> DEFINE u == Seen(f, m)
               v == WindowAfter(w, m)
               a == [u EXCEPT !.batches = booked]
    <2>1. (Known(u, v) => Known(a, v)) /\ (Exact(u, v) => Exact(a, v))
      BY <1>9, BookingAgrees
    <2> HIDE DEF u, v, a
    <2>2. flow'[s] = a /\ window'[k] = v
      BY <1>12 DEF u, v, a
    <2>3. Known(u, v) /\ (k \notin stale' => Exact(u, v))
      BY <1>7, <1>8 DEF u, v
    <2> QED BY <2>1, <2>2, <2>3, Zenon
  <1>14. Agreeing'
    <2> SUFFICES ASSUME NEW r \in Slots, owner'[r] \in Keys
                 PROVE  /\ Known(flow'[r], window'[owner'[r]])
                        /\ owner'[r] \notin stale' => Exact(flow'[r], window'[owner'[r]])
      BY DEF Agreeing, Known, Exact
    <2>0. owner' = owner
      BY <1>4
    <2>1. CASE r = s
      BY <1>2, <1>13, <2>0, <2>1
    <2>2. CASE r # s
      <3>1. owner[r] # k
        BY <1>1, <1>2, <2>0, <2>2, TableAssumption DEF Inv, FiledOnce
      <3>2. flow'[r] = flow[r] /\ window'[owner[r]] = window[owner[r]]
        BY <1>12, <2>0, <2>2, <3>1
      <3>3. owner[r] \notin stale' => owner[r] \notin stale
        BY <1>4, <3>1
      <3> QED BY <2>0, <3>2, <3>3 DEF Inv, Agreeing
    <2> QED BY <2>1, <2>2
  <1> QED BY <1>10, <1>11, <1>14

LEMMA InvKept == ASSUME TypeOK, Inv, ~Recycle, [Next]_vars PROVE Inv'
  <1>0. Pointing'
    BY PointingKept DEF Inv
  <1> SUFFICES FiledOnce' /\ Owning' /\ Agreeing'
    BY <1>0 DEF Inv
  <1>1. CASE Tick
    BY <1>1, TableKept DEF Tick, table, Inv, Owning
  <1>2. ASSUME NEW p \in Cpus, NEW k \in Keys, NEW in \in BOOLEAN, NEW ttl \in Ttls,
               NEW c \in Configs, Observe(p, k, in, ttl, c)
        PROVE  FiledOnce' /\ Owning' /\ Agreeing'
    <2>1. ptr[p] = NoSlot
      BY <1>2 DEF Observe, Inv, Pointing
    <2>2. Owning'
      BY <1>2, <2>1 DEF Observe, table, Inv, Owning, TypeOK
    <2> QED BY <1>2, <2>2, TableKept DEF Observe, table
  <1>3. ASSUME NEW p \in Cpus, Hit(p) PROVE FiledOnce' /\ Owning' /\ Agreeing'
    <2>1. Owning'
      BY <1>3 DEF Hit, Point, Found, Inv, Owning, TypeOK, TableType
    <2> QED BY <1>3, <2>1, TableKept DEF Hit
  <1>4. ASSUME NEW p \in Cpus, Miss(p) PROVE FiledOnce' /\ Owning' /\ Agreeing'
    BY <1>4, TableKept DEF Miss, table, Inv, Owning
  <1>5. ASSUME NEW p \in Cpus, Create(p) PROVE FiledOnce' /\ Owning' /\ Agreeing'
    BY <1>5, CreateKeepsInv
  <1>6. ASSUME NEW p \in Cpus, CreateFails(p) PROVE FiledOnce' /\ Owning' /\ Agreeing'
    BY <1>6, TableKept DEF CreateFails, table, Inv, Owning
  <1>7. ASSUME NEW p \in Cpus, Update(p) PROVE FiledOnce' /\ Owning' /\ Agreeing'
    BY <1>7, UpdateKeepsInv
  <1>8. CASE UNCHANGED vars
    BY <1>8, TableKept DEF vars, table, Inv, Owning
  <1> QED BY <1>1, <1>2, <1>3, <1>4, <1>5, <1>6, <1>7, <1>8 DEF Next

----------------------------------------------------------------------------
(* What a packet triggers.                                                 *)

\* The three properties of a batch, as the step that triggers it leaves them.
BatchFacts == BatchesAreEarly /\ NoReflection /\ EstimateIsCurrent

LEMMA UnfiredFacts == ASSUME fired' = NoBatch PROVE BatchFacts'
  BY Zenon DEF NoBatch, BatchFacts, BatchesAreEarly, NoReflection, EstimateIsCurrent

LEMMA UpdateFires ==
    ASSUME TypeOK, Inv, Inv', NEW p \in Cpus, Update(p)
    PROVE  BatchFacts'
  <1> DEFINE m == packet[p]
             s == ptr[p]
             k == m.key
             f == Seen(flow[s], m)
             w == WindowAfter(window[k], m)
             emit == Triggers(f, m)
             booked == IF emit THEN f.batches + 1 ELSE f.batches
  <1>1. CASE ~emit
    BY <1>1, UnfiredFacts, Zenon DEF Update
  <1>2. CASE emit
    <2>1. /\ s \in Slots /\ m \in Packet /\ k \in Keys /\ m.config \in Configs
          /\ flow \in [Slots -> Flow] /\ window \in [Keys -> Window]
      BY DEF TypeOK, TableType, Update, Inv, Pointing, Packet
    <2>2. owner[s] = k /\ owner' = owner
      BY <2>1 DEF Inv, Owning, Update
    <2>3. f \in Flow /\ w \in Window
      BY <2>1, SeenType, WindowType
    <2>4. /\ flow' = [flow EXCEPT ![s] = [f EXCEPT !.batches = booked]]
          /\ window' = [window EXCEPT ![k] = w]
          /\ fired' = [key |-> k, in |-> m.in, ttl |-> f.remote_ttl]
      BY <1>2, Zenon DEF Update
    <2>5. /\ f.packets <= m.config.packets
          /\ m.in => f.outbound
      BY <1>2 DEF Triggers, Early, Answers
    <2>6. m.config.packets \in 1 .. MaxInitial
      BY <2>1
    <2> HIDE DEF m, s, k, f, w, emit, booked
    <2>7. flow'[s] = [f EXCEPT !.batches = booked] /\ window'[k] = w
      BY <2>1, <2>4
    <2>8. /\ flow'[s].packets = f.packets /\ flow'[s].outbound = f.outbound
          /\ flow'[s].remote_ttl = f.remote_ttl
          /\ window'[k].seen = w.seen
      BY <2>3, <2>7 DEF Flow, Window
    <2>9. /\ Known(flow'[s], window'[k])
          /\ k \notin stale' => Exact(flow'[s], window'[k])
      BY <2>1, <2>2 DEF Inv, Agreeing, Known, Exact
    <2>10. fired'.key = k /\ fired'.in = m.in /\ fired'.ttl = f.remote_ttl
      BY <2>4
    <2>11. BatchesAreEarly'
      <3> SUFFICES ASSUME k \notin stale' PROVE window'[k].seen <= MaxInitial
        BY <2>10, Zenon DEF BatchesAreEarly
      <3>1. f.packets = IF w.seen <= Top THEN w.seen ELSE Top
        BY <2>8, <2>9, Zenon DEF Exact
      <3>2. w.seen \in Nat
        BY <2>3 DEF Window
      <3> QED BY <2>5, <2>6, <2>8, <3>1, <3>2
    <2>12. NoReflection'
      BY <2>5, <2>8, <2>9, <2>10, Zenon DEF NoReflection, Known
    <2>13. EstimateIsCurrent'
      BY <2>8, <2>9, <2>10, Zenon DEF EstimateIsCurrent, Known
    <2> QED BY <2>11, <2>12, <2>13 DEF BatchFacts
  <1> QED BY <1>1, <1>2

\* Without recycled elements, every batch keeps the three promises of the UDP
\* trigger: an early packet (with readings in order), a remote that was spoken
\* to, an estimate of the present peer.
THEOREM BatchesKeepPromises == ASSUME ~Recycle PROVE Spec => []BatchFacts
  <1>1. Init => Inv /\ BatchFacts
    <2> SUFFICES ASSUME Init PROVE BatchFacts
      BY InitInv
    <2>1. fired.key = Nobody
      BY DEF Init, NoBatch
    <2> QED BY <2>1 DEF BatchFacts, BatchesAreEarly, NoReflection, EstimateIsCurrent
  <1>2. TypeOK /\ Inv /\ [Next]_vars => Inv'
    BY InvKept
  <1>3. TypeOK /\ Inv /\ Inv' /\ BatchFacts /\ [Next]_vars => BatchFacts'
    <2> SUFFICES ASSUME TypeOK, Inv, Inv', BatchFacts, [Next]_vars PROVE BatchFacts'
      OBVIOUS
    <2>1. CASE \E p \in Cpus : Update(p)
      BY <2>1, UpdateFires
    <2>2. CASE fired' = NoBatch
      BY <2>2, UnfiredFacts
    <2>3. CASE UNCHANGED vars
      BY <2>3, Zenon DEF vars, BatchFacts, BatchesAreEarly, NoReflection, EstimateIsCurrent
    <2>4. Next => (\E p \in Cpus : Update(p)) \/ fired' = NoBatch
      BY Zenon DEF Next, Tick, Observe, Hit, Miss, Create, CreateFails
    <2> QED BY <2>1, <2>2, <2>3, <2>4
  <1> QED BY <1>1, <1>2, <1>3, TypeCorrect, PTL DEF Spec

\* Only early packets trigger, for every length of a flow.
THEOREM EarlyBatches == ASSUME ~Recycle PROVE Spec => []BatchesAreEarly
  <1>1. BatchFacts => BatchesAreEarly
    BY DEF BatchFacts
  <1> QED BY <1>1, BatchesKeepPromises, PTL

\* A lone inbound packet is never answered, for every order of readings.
THEOREM NothingReflected == ASSUME ~Recycle PROVE Spec => []NoReflection
  <1>1. BatchFacts => NoReflection
    BY DEF BatchFacts
  <1> QED BY <1>1, BatchesKeepPromises, PTL

\* The hop estimate is never a former peer's, for every order of readings.
THEOREM EstimatesAreCurrent == ASSUME ~Recycle PROVE Spec => []EstimateIsCurrent
  <1>1. BatchFacts => EstimateIsCurrent
    BY DEF BatchFacts
  <1> QED BY <1>1, BatchesKeepPromises, PTL
=============================================================================
