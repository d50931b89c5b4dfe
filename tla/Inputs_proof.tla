---------------------------- MODULE Inputs_proof ----------------------------
(***************************************************************************)
(* Proofs about Inputs, for any set of files and frames and any limits:    *)
(* what the parser accepts and which key it makes, the TTL of decoys, what *)
(* the reader takes from a file and what is asked for under it, and the    *)
(* scan and the rewriting of the options of a SYN.                         *)
(***************************************************************************)
EXTENDS Inputs, FiniteSetTheorems, SequenceTheorems, TLAPS

\* The file is read to its end before a frame is looked at.
InOrder ==
    /\ inbound \in BOOLEAN
    /\ stage # "none" => verdict = "accepted" /\ frame \in Frames

\* What is looked at has been parsed under the settings there still are.
Accepted == Looked => Frame!Parsed(frame, Mode)

\* The steps of options(): the options are as they came until they are
\* stored, and the checksum follows them.
Rewriting ==
    /\ stage \in {"parsed", "passed", "rewriting", "vetoed"} => content = frame.options
    /\ stage \in {"parsed", "passed", "rewriting", "vetoed", "eligible", "stored"} =>
          (stage # "stored" => summed = content)
    /\ stage = "stored" => summed = frame.options

\* The amounts in the file are among those that number() takes.
Amounts == {"dynamic_percent", "ttl"}
Read == \A key \in Amounts :
    <<"injection", 0, key>> \in DOMAIN given => given["injection", 0, key] \in DOMAIN Number

\* Decoys have the TTL that the head of emit() has computed.
Estimated ==
    sent # 0 =>
        /\ stage = "passed"
        /\ sent = Hop!DecoyTtl(IF inbound THEN frame.ip.ttl ELSE 0, EstimateHops,
                               Amount("dynamic_percent", 0), Amount("ttl", 3))

----------------------------------------------------------------------------
(* The parser.                                                             *)

\* An accepted frame contains its packet, and the packet its headers.
LEMMA ParsedFits ==
    ASSUME NEW f \in Frames, NEW mode, Frame!Parsed(f, mode)
    PROVE  /\ Frame!L4(f, mode) + Frame!HeaderBytes(f) <= Frame!End(f, mode)
           /\ Frame!End(f, mode) <= f.len
           /\ Frame!InPppoe(f, mode) =>
                 Frame!End(f, mode) <= 14 + 4 * Len(f.tags) + 6 + f.ppp.length
           /\ Frame!Bytes(f, mode) >= 0
           /\ f.frag.offset # 0 => f.ip.version = 6 /\ ~Frame!Extended(f)
  <1>1. /\ f.len \in Int /\ f.ip.total \in Int /\ f.ppp.length \in Int /\ f.tp.hlen \in Int
        /\ Len(f.tags) \in Int
    BY InputsAssumption DEF Frame!Headers
  <1>2. Frame!LinkBytes(f) \in Int
    BY <1>1 DEF Frame!LinkBytes
  <1>3. Frame!L3(f, mode) \in Int /\ Frame!Envelope(f, mode) \in Int
    BY <1>1, <1>2 DEF Frame!L3, Frame!Envelope
  <1>4. Frame!L4(f, mode) \in Int /\ Frame!End(f, mode) \in Int
    BY <1>1, <1>3 DEF Frame!L4, Frame!End, Frame!IpBytes
  <1>5. Frame!End(f, mode) <= Frame!Envelope(f, mode)
    BY DEF Frame!Parsed, Frame!NetworkFits, Frame!WithinEnvelope
  <1>6. Frame!Envelope(f, mode) <= f.len
    BY <1>1 DEF Frame!Parsed, Frame!LinkFits, Frame!Envelope
  <1>7. Frame!End(f, mode) <= f.len
    BY <1>1, <1>3, <1>4, <1>5, <1>6
  <1>8. Frame!InPppoe(f, mode) => Frame!End(f, mode) <= 14 + 4 * Len(f.tags) + 6 + f.ppp.length
    BY <1>5 DEF Frame!Envelope, Frame!LinkBytes
  <1>9. Frame!HeaderBytes(f) \in Int /\ Frame!HeaderBytes(f) <= Frame!Room(f, mode)
    <2>1. CASE Frame!Protocol(f) = "udp"
      <3>1. Frame!HeaderBytes(f) = 8
        BY <2>1 DEF Frame!HeaderBytes
      <3>2. Frame!UdpFits(f, mode)
        BY <2>1 DEF Frame!Parsed
      <3> QED BY <1>4, <3>1, <3>2 DEF Frame!UdpFits, Frame!Room
    <2>2. CASE Frame!Protocol(f) # "udp"
      <3>1. Frame!HeaderBytes(f) = f.tp.hlen
        BY <2>2 DEF Frame!HeaderBytes
      <3>2. Frame!TcpFits(f, mode)
        BY <2>2 DEF Frame!Parsed
      <3> QED BY <1>1, <3>1, <3>2 DEF Frame!TcpFits
    <2> QED BY <2>1, <2>2
  <1>10. Frame!L4(f, mode) + Frame!HeaderBytes(f) <= Frame!End(f, mode) /\ Frame!Bytes(f, mode) >= 0
    BY <1>4, <1>9 DEF Frame!Room, Frame!Bytes
  <1>11. f.frag.offset # 0 => f.ip.version = 6 /\ ~Frame!Extended(f)
    BY DEF Frame!Parsed, Frame!NetworkFits, Frame!IsV4, Frame!IsV6, Frame!V4Fits, Frame!V6Fits
  <1> QED BY <1>7, <1>8, <1>10, <1>11

\* g is f but for its ends, for VLAN tags in another place, and for d bytes that
\* they make it longer.
Moved(g, f, d, mode) ==
    /\ g.gso = f.gso /\ g.group = f.group /\ g.ether = f.ether /\ g.ppp = f.ppp /\ g.frag = f.frag
    /\ g.ip.version = f.ip.version /\ g.ip.plain = f.ip.plain /\ g.ip.proto = f.ip.proto
    /\ g.ip.total = f.ip.total
    /\ g.tp.hlen = f.tp.hlen /\ g.tp.ulen = f.tp.ulen /\ g.tp.zero = f.tp.zero
    /\ g.len = f.len + d /\ Frame!Stack(g) = Frame!Stack(f)
    /\ IF mode = "l3" THEN d = 0 ELSE Frame!LinkBytes(g) = Frame!LinkBytes(f) + d

\* What parse() looks at moves with the tags.
LEMMA MovedParses ==
    ASSUME NEW f \in Frame!Headers, NEW g, NEW d \in Int, NEW mode,
           Moved(g, f, d, mode), Frame!Parsed(f, mode), g.len <= 4096
    PROVE  Frame!Parsed(g, mode)
  <1>1. /\ f.len \in Int /\ f.ip.total \in Int /\ f.ppp.length \in Int /\ f.tp.hlen \in Int
        /\ f.tp.ulen \in Int /\ Len(f.tags) \in Int
    BY DEF Frame!Headers
  <1>2. Frame!LinkBytes(f) \in Int
    BY <1>1 DEF Frame!LinkBytes
  <1>3. Frame!InPppoe(g, mode) = Frame!InPppoe(f, mode) /\ Frame!Proto(g, mode) = Frame!Proto(f, mode)
    BY DEF Moved, Frame!InPppoe, Frame!Proto
  <1>4. /\ Frame!L3(f, mode) \in Int /\ Frame!L3(g, mode) = Frame!L3(f, mode) + d
        /\ Frame!Envelope(f, mode) \in Int /\ Frame!Envelope(g, mode) = Frame!Envelope(f, mode) + d
    <2>1. CASE mode = "l3"
      <3>1. d = 0 /\ ~Frame!InPppoe(f, mode) /\ g.len = f.len + d
        BY <2>1 DEF Moved, Frame!InPppoe
      <3> QED BY <1>1, <1>3, <2>1, <3>1 DEF Frame!L3, Frame!Envelope
    <2>2. CASE mode # "l3"
      <3>1. Frame!LinkBytes(g) = Frame!LinkBytes(f) + d /\ g.len = f.len + d /\ g.ppp = f.ppp
        BY <2>2 DEF Moved
      <3> QED BY <1>1, <1>2, <1>3, <2>2, <3>1 DEF Frame!L3, Frame!Envelope
    <2> QED BY <2>1, <2>2
  <1>5. /\ Frame!Extended(g) = Frame!Extended(f) /\ Frame!IpBytes(g) = Frame!IpBytes(f)
        /\ Frame!Protocol(g) = Frame!Protocol(f) /\ Frame!FirstFragment(g) = Frame!FirstFragment(f)
        /\ Frame!IsV4(g, mode) = Frame!IsV4(f, mode) /\ Frame!IsV6(g, mode) = Frame!IsV6(f, mode)
        /\ Frame!V4Fits(g) = Frame!V4Fits(f)
    <2>1. Frame!Extended(g) = Frame!Extended(f)
      BY DEF Moved, Frame!Extended
    <2> QED BY <1>3, <2>1 DEF Moved, Frame!IpBytes, Frame!Protocol, Frame!FirstFragment, Frame!IsV4, Frame!IsV6,
                              Frame!V4Fits
  <1>6. /\ Frame!L4(f, mode) \in Int /\ Frame!L4(g, mode) = Frame!L4(f, mode) + d
        /\ Frame!End(f, mode) \in Int /\ Frame!End(g, mode) = Frame!End(f, mode) + d
    <2>1. Frame!IpBytes(f) \in Int
      BY DEF Frame!IpBytes
    <2>2. g.ip.version = f.ip.version /\ g.ip.total = f.ip.total
      BY DEF Moved
    <2> QED BY <1>1, <1>4, <1>5, <2>1, <2>2 DEF Frame!L4, Frame!End
  <1>7. Frame!Room(f, mode) \in Int /\ Frame!Room(g, mode) = Frame!Room(f, mode)
    BY <1>6 DEF Frame!Room
  <1>8. g.len = f.len + d
    BY DEF Moved
  <1>9. Frame!LinkFits(g, mode)
    <2>1. Frame!LinkFits(f, mode)
      BY DEF Frame!Parsed
    <2>2. ~g.gso
      BY <2>1 DEF Frame!LinkFits, Moved
    <2>3. ASSUME mode # "l3"
          PROVE  /\ ~g.group
                 /\ Len(Frame!Stack(g)) <= 2 /\ Frame!Loadable(g, 0, Frame!LinkBytes(g))
                 /\ (mode = "pppoe") = (g.ether = "pppoe")
      <3>1. Frame!LinkBytes(g) = Frame!LinkBytes(f) + d /\ Frame!LinkBytes(f) <= f.len
        BY <1>2, <2>1, <2>3 DEF Moved, Frame!LinkFits, Frame!Loadable
      <3>2. Frame!Loadable(g, 0, Frame!LinkBytes(g))
        BY <1>1, <1>2, <1>8, <3>1 DEF Frame!Loadable
      <3> QED BY <2>1, <2>3, <3>2 DEF Moved, Frame!LinkFits
    <2>4. ASSUME Frame!InPppoe(g, mode)
          PROVE  /\ Frame!Loadable(g, Frame!LinkBytes(g), 8)
                 /\ g.ppp.fit /\ g.ppp.session # 0 /\ g.ppp.length >= 2
                 /\ Frame!Envelope(g, mode) <= g.len
      <3>1. Frame!InPppoe(f, mode) /\ mode # "l3"
        BY <1>3, <2>4 DEF Frame!InPppoe
      <3>2. Frame!LinkBytes(g) = Frame!LinkBytes(f) + d /\ Frame!LinkBytes(f) + 8 <= f.len
        BY <2>1, <3>1 DEF Moved, Frame!LinkFits, Frame!Loadable
      <3>3. Frame!Loadable(g, Frame!LinkBytes(g), 8)
        BY <1>1, <1>2, <1>8, <3>2 DEF Frame!Loadable
      <3>4. Frame!Envelope(f, mode) <= f.len
        BY <2>1, <3>1 DEF Frame!LinkFits
      <3>5. Frame!Envelope(g, mode) <= g.len
        BY <1>1, <1>4, <1>8, <3>4
      <3> QED BY <2>1, <3>1, <3>3, <3>5 DEF Moved, Frame!LinkFits
    <2> QED BY <2>2, <2>3, <2>4 DEF Frame!LinkFits
  <1>10. \A bytes \in Int : /\ Frame!Loadable(f, Frame!L3(f, mode), bytes) => Frame!Loadable(g, Frame!L3(g, mode), bytes)
                            /\ Frame!Loadable(f, Frame!L4(f, mode), bytes) => Frame!Loadable(g, Frame!L4(g, mode), bytes)
    BY <1>1, <1>4, <1>6, <1>8 DEF Frame!Loadable
  <1>11. Frame!V6Fits(f, mode) => Frame!V6Fits(g, mode)
    <2> SUFFICES ASSUME Frame!V6Fits(f, mode), Frame!Extended(f) PROVE Frame!V6Fits(g, mode)
      BY <1>5 DEF Frame!V6Fits
    <2>1. Frame!End(g, mode) <= Frame!Envelope(g, mode) /\ Frame!End(g, mode) >= Frame!L4(g, mode)
      BY <1>4, <1>6 DEF Frame!V6Fits
    <2>2. Frame!Loadable(g, Frame!L4(g, mode) - 8, 8)
      BY <1>1, <1>6, <1>8 DEF Frame!V6Fits, Frame!Loadable
    <2>3. g.frag.offset = 0 /\ g.frag.next = "udp" /\ ~g.frag.strange
      BY DEF Frame!V6Fits, Moved
    <2>4. g.frag.more => (Frame!End(g, mode) - Frame!L4(g, mode)) % 8 = 0
      <3>1. Frame!End(g, mode) - Frame!L4(g, mode) = Frame!End(f, mode) - Frame!L4(f, mode)
        BY <1>6
      <3> QED BY <3>1 DEF Frame!V6Fits, Moved
    <2> QED BY <2>1, <2>2, <2>3, <2>4 DEF Frame!V6Fits
  <1>12. Frame!NetworkFits(g, mode)
    <2>1. Frame!NetworkFits(f, mode)
      BY DEF Frame!Parsed
    <2>2. Frame!Loadable(g, Frame!L3(g, mode), 20)
      BY <1>10, <2>1 DEF Frame!NetworkFits
    <2>3. \/ Frame!IsV4(g, mode) /\ Frame!V4Fits(g)
          \/ Frame!IsV6(g, mode) /\ Frame!Loadable(g, Frame!L3(g, mode), 40) /\ Frame!V6Fits(g, mode)
      BY <1>5, <1>10, <1>11, <2>1 DEF Frame!NetworkFits
    <2>4. Frame!WithinEnvelope(g, mode)
      BY <1>4, <1>6, <2>1 DEF Frame!NetworkFits, Frame!WithinEnvelope
    <2> QED BY <2>2, <2>3, <2>4 DEF Frame!NetworkFits
  <1>13. Frame!TcpFits(f, mode) => Frame!TcpFits(g, mode)
    BY <1>7, <1>10 DEF Moved, Frame!TcpFits
  <1>14. Frame!UdpFits(f, mode) => Frame!UdpFits(g, mode)
    BY <1>5, <1>7, <1>10 DEF Moved, Frame!UdpFits
  <1> QED BY <1>5, <1>9, <1>12, <1>13, <1>14 DEF Frame!Parsed

\* The answer to a frame is such a frame, its ends exchanged.
LEMMA ReplySwaps ==
    ASSUME NEW f \in Frame!Headers
    PROVE  /\ Reply(f) \in Frame!Headers
           /\ Reply(f).macs.src = f.macs.dst /\ Reply(f).macs.dst = f.macs.src
           /\ Reply(f).ip.src = f.ip.dst /\ Reply(f).ip.dst = f.ip.src
           /\ Reply(f).tp.sport = f.tp.dport /\ Reply(f).tp.dport = f.tp.sport
           /\ Reply(f).offload = f.offload /\ Reply(f).tags = f.tags
           /\ \A mode : Moved(Reply(f), f, 0, mode)
  <1> DEFINE r == Reply(f)
  <1>1. /\ f.macs \in [src : STRING, dst : STRING]
        /\ f.ip \in [version : {4, 6}, plain : BOOLEAN, proto : STRING, total : Int, ttl : 0 .. 255,
                     src : STRING, dst : STRING]
        /\ f.tp \in [hlen : Int, ulen : Int, zero : BOOLEAN, sport : Int, dport : Int]
    BY DEF Frame!Headers
  <1>2. /\ Swapped(f.macs) \in [src : STRING, dst : STRING]
        /\ Swapped(f.macs).src = f.macs.dst /\ Swapped(f.macs).dst = f.macs.src
    BY <1>1 DEF Swapped
  <1>3. /\ Swapped(f.ip) \in [version : {4, 6}, plain : BOOLEAN, proto : STRING, total : Int, ttl : 0 .. 255,
                              src : STRING, dst : STRING]
        /\ Swapped(f.ip).src = f.ip.dst /\ Swapped(f.ip).dst = f.ip.src
        /\ Swapped(f.ip).version = f.ip.version /\ Swapped(f.ip).plain = f.ip.plain
        /\ Swapped(f.ip).proto = f.ip.proto /\ Swapped(f.ip).total = f.ip.total
    BY <1>1 DEF Swapped
  <1> DEFINE tp == [f.tp EXCEPT !.sport = f.tp.dport, !.dport = f.tp.sport]
  <1>4. /\ tp \in [hlen : Int, ulen : Int, zero : BOOLEAN, sport : Int, dport : Int]
        /\ tp.sport = f.tp.dport /\ tp.dport = f.tp.sport
        /\ tp.hlen = f.tp.hlen /\ tp.ulen = f.tp.ulen /\ tp.zero = f.tp.zero
    BY <1>1
  <1>5. r = [f EXCEPT !.macs = Swapped(f.macs), !.ip = Swapped(f.ip), !.tp = tp]
    BY DEF Reply
  <1> HIDE DEF r, tp
  <1> DEFINE macs == Swapped(f.macs)
             ip   == Swapped(f.ip)
  <1>6. r \in Frame!Headers
    <2>1. /\ macs \in [src : STRING, dst : STRING]
          /\ ip \in [version : {4, 6}, plain : BOOLEAN, proto : STRING, total : Int, ttl : 0 .. 255,
                     src : STRING, dst : STRING]
          /\ r = [f EXCEPT !.macs = macs, !.ip = ip, !.tp = tp]
      BY <1>2, <1>3, <1>5
    <2> HIDE DEF macs, ip
    <2> DEFINE r1 == [f EXCEPT !.macs = macs]
               r2 == [r1 EXCEPT !.ip = ip]
    <2>2. r1 \in Frame!Headers
      BY <2>1 DEF Frame!Headers
    <2> HIDE DEF r1
    <2>3. r2 \in Frame!Headers
      BY <2>1, <2>2 DEF Frame!Headers
    <2> HIDE DEF r2
    <2>4. [r2 EXCEPT !.tp = tp] \in Frame!Headers
      BY <1>4, <2>3 DEF Frame!Headers
    <2>5. [r2 EXCEPT !.tp = tp] = r
      BY <2>1 DEF r1, r2, Frame!Headers
    <2> QED BY <2>4, <2>5, Zenon
  <1>7. /\ r.macs = Swapped(f.macs) /\ r.ip = Swapped(f.ip) /\ r.tp = tp
        /\ r.gso = f.gso /\ r.group = f.group /\ r.ether = f.ether /\ r.ppp = f.ppp /\ r.frag = f.frag
        /\ r.len = f.len /\ r.offload = f.offload /\ r.tags = f.tags
    BY <1>5 DEF Frame!Headers
  <1>8. f.len \in Int /\ Len(f.tags) \in Int
    BY DEF Frame!Headers
  <1>9. Frame!LinkBytes(r) = Frame!LinkBytes(f) + 0 /\ Frame!Stack(r) = Frame!Stack(f) /\ r.len = f.len + 0
    BY <1>7, <1>8 DEF Frame!LinkBytes, Frame!Stack
  <1>10. \A mode : Moved(r, f, 0, mode)
    BY <1>3, <1>4, <1>7, <1>9 DEF Moved
  <1> QED BY <1>2, <1>3, <1>4, <1>6, <1>7, <1>10 DEF r

\* A frame with n of its tags in the metadata.
Split(f, n) ==
    [f EXCEPT !.offload = SubSeq(Frame!Stack(f), 1, n),
              !.tags = SubSeq(Frame!Stack(f), n + 1, Len(Frame!Stack(f))),
              !.len = @ + 4 * (Len(Frame!Stack(f)) - n - Len(f.tags))]

\* Tags in another place make a frame that has only moved.
LEMMA SplitMoves ==
    ASSUME NEW f \in Frame!Headers, NEW n \in 0 .. Len(Frame!Stack(f))
    PROVE  /\ Split(f, n).macs = f.macs /\ Split(f, n).ip = f.ip /\ Split(f, n).tp = f.tp
           /\ \E d \in Int : \A mode : mode # "l3" => Moved(Split(f, n), f, d, mode)
  <1> DEFINE s == Frame!Stack(f)
             g == Split(f, n)
             d == 4 * (Len(s) - n - Len(f.tags))
  <1>1. f.offload \in Seq(STRING) /\ f.tags \in Seq(STRING) /\ f.len \in Int
    BY DEF Frame!Headers
  <1>2. s \in Seq(STRING)
    BY <1>1, ConcatProperties DEF Frame!Stack
  <1> HIDE DEF s
  <1>3. Len(s) \in Nat /\ Len(f.tags) \in Nat /\ n \in 0 .. Len(s)
    BY <1>1, <1>2 DEF s
  <1>4. d \in Int
    BY <1>3
  <1> HIDE DEF d
  <1>5. g = [f EXCEPT !.offload = SubSeq(s, 1, n), !.tags = SubSeq(s, n + 1, Len(s)), !.len = f.len + d]
    BY DEF Split, s, d
  <1> HIDE DEF g
  <1>6. /\ g.offload = SubSeq(s, 1, n) /\ g.tags = SubSeq(s, n + 1, Len(s)) /\ g.len = f.len + d
        /\ g.macs = f.macs /\ g.ip = f.ip /\ g.tp = f.tp
        /\ g.gso = f.gso /\ g.group = f.group /\ g.ether = f.ether /\ g.ppp = f.ppp /\ g.frag = f.frag
    BY <1>5 DEF Frame!Headers
  <1>7. Len(SubSeq(s, n + 1, Len(s))) = Len(s) - n
    <2>1. \A i \in n + 1 .. Len(s) : s[i] \in STRING
      BY <1>2, <1>3
    <2>2. Len(SubSeq(s, n + 1, Len(s))) = IF n + 1 <= Len(s) THEN Len(s) - (n + 1) + 1 ELSE 0
      BY <1>3, <2>1, SubSeqProperties
    <2> QED BY <1>3, <2>2
  <1>8. SubSeq(s, 1, n) \o SubSeq(s, n + 1, Len(s)) = s
    <2>1. SubSeq(s, 1, n) \o SubSeq(s, n + 1, Len(s)) = SubSeq(s, 1, Len(s))
      <3>1. 1 \in 1 .. Len(s) + 1 /\ n \in 1 - 1 .. Len(s) /\ Len(s) \in n .. Len(s)
        BY <1>3
      <3> QED BY <1>2, <3>1, ConcatAdjacentSubSeq
    <2> QED BY <1>2, <2>1, SubSeqFull
  <1>9. Frame!Stack(g) = s
    BY <1>6, <1>8 DEF Frame!Stack
  <1>10. Frame!LinkBytes(g) = Frame!LinkBytes(f) + d
    <2>1. Len(g.tags) = Len(s) - n
      BY <1>6, <1>7
    <2>2. n \in Int
      BY <1>3
    <2>3. Frame!LinkBytes(g) = 14 + 4 * (Len(s) - n)
      BY <2>1 DEF Frame!LinkBytes
    <2>4. \A a, b, c \in Int : 14 + 4 * (a - b) = 14 + 4 * c + 4 * (a - b - c)
      OBVIOUS
    <2>5. Len(s) \in Int /\ Len(f.tags) \in Int
      BY <1>3
    <2> QED BY <2>2, <2>3, <2>4, <2>5, Zenon DEF Frame!LinkBytes, d
  <1>11. \A mode : mode # "l3" => Moved(g, f, d, mode)
    BY <1>6, <1>9, <1>10 DEF Moved, s
  <1> QED BY <1>4, <1>6, <1>11 DEF g

\* The answer has the key of its request.
LEMMA MovedKeys ==
    ASSUME NEW f \in Frame!Headers, NEW g, NEW d \in Int, NEW mode, NEW in \in BOOLEAN,
           Moved(g, f, d, mode),
           g.macs.src = f.macs.dst, g.macs.dst = f.macs.src,
           g.ip.src = f.ip.dst, g.ip.dst = f.ip.src,
           g.tp.sport = f.tp.dport, g.tp.dport = f.tp.sport
    PROVE  Frame!Key(g, mode, ~in) = Frame!Key(f, mode, in)
  <1>1. /\ Frame!Protocol(g) = Frame!Protocol(f) /\ g.ip.version = f.ip.version
        /\ Frame!Stack(g) = Frame!Stack(f) /\ g.ppp = f.ppp
        /\ Frame!InPppoe(g, mode) = Frame!InPppoe(f, mode)
    BY DEF Moved, Frame!Protocol, Frame!Extended, Frame!InPppoe
  <1>2. Frame!Peer(g, ~in) = Frame!Peer(f, in)
    BY DEF Frame!Peer
  <1>3. CASE in
    BY <1>1, <1>2, <1>3 DEF Frame!Key
  <1>4. CASE ~in
    BY <1>1, <1>2, <1>4 DEF Frame!Key
  <1> QED BY <1>3, <1>4

\* Wherever its tags are, the answer is the answer, moved.
LEMMA PlacementsMove ==
    ASSUME NEW f \in Frame!Headers, NEW g \in Placements(Reply(f))
    PROVE  /\ g.macs = Reply(f).macs /\ g.ip = Reply(f).ip /\ g.tp = Reply(f).tp
           /\ \E d \in Int : Moved(g, Reply(f), d, Mode)
  <1> DEFINE r == Reply(f)
  <1>1. r \in Frame!Headers
    BY ReplySwaps
  <1> HIDE DEF r
  <1>2. CASE Mode = "l3"
    <2>1. g = r
      BY <1>2 DEF Placements, r
    <2>2. r.len \in Int
      BY <1>1 DEF Frame!Headers
    <2>3. Moved(r, r, 0, Mode)
      BY <1>2, <2>2 DEF Moved
    <2> QED BY <2>1, <2>3 DEF r
  <1>3. CASE Mode # "l3"
    <2>1. PICK n \in {0, 1} \cap (0 .. Len(Frame!Stack(r))) : g = Split(r, n)
      BY <1>3 DEF Placements, Split, r
    <2>2. n \in 0 .. Len(Frame!Stack(r))
      OBVIOUS
    <2>3. /\ g.macs = r.macs /\ g.ip = r.ip /\ g.tp = r.tp
          /\ \E d \in Int : \A mode : mode # "l3" => Moved(g, r, d, mode)
      BY <1>1, <2>1, <2>2, SplitMoves
    <2> QED BY <1>3, <2>3 DEF r
  <1> QED BY <1>2, <1>3

\* An answer that has moved is a frame that has.
LEMMA MovedTwice ==
    ASSUME NEW f \in Frame!Headers, NEW g, NEW r, NEW d \in Int, NEW mode,
           Moved(r, f, 0, mode), Moved(g, r, d, mode)
    PROVE  Moved(g, f, d, mode)
  <1>1. f.len \in Int /\ Len(f.tags) \in Int
    BY DEF Frame!Headers
  <1>2. Frame!LinkBytes(f) \in Int
    BY <1>1 DEF Frame!LinkBytes
  <1>3. g.len = f.len + d /\ (mode # "l3" => Frame!LinkBytes(g) = Frame!LinkBytes(f) + d)
    BY <1>1, <1>2 DEF Moved
  <1> QED BY <1>3 DEF Moved

----------------------------------------------------------------------------
(* The estimate.                                                           *)

\* Usual first values of a TTL, and that of the decoys: a share of the
\* distance, or the least one.
InitialTtls == {64, 128, 255}
Best(remote, percent, ttl) == Hop!Larger(Hop!Dynamic(remote, percent), ttl)

\* Unless it is dropped, a decoy dies before it gets to the peer whose packet
\* arrived with the TTL remote, whichever of the usual values the peer began with.
LEMMA DecoyNearer ==
    ASSUME NEW remote \in 1 .. 255, NEW percent \in Int, NEW ttl \in Int,
           NEW initial \in InitialTtls, remote <= initial,
           ~Hop!Near(remote, Best(remote, percent, ttl))
    PROVE  Best(remote, percent, ttl) < initial - remote
  <1>1. Hop!Initial(remote) \in Int /\ Hop!Initial(remote) <= initial
    BY DEF Hop!Initial, InitialTtls
  <1>2. Hop!Hops(remote) \in Int /\ Hop!Hops(remote) <= initial - remote
    BY <1>1 DEF Hop!Hops, InitialTtls
  <1>3. Hop!Dynamic(remote, percent) \in Int
    <2>1. Hop!Hops(remote) * percent \in Int
      BY <1>2
    <2> QED BY <2>1 DEF Hop!Dynamic
  <1>4. Best(remote, percent, ttl) \in Int
    BY <1>3 DEF Hop!Larger, Best
  <1>5. Best(remote, percent, ttl) < Hop!Hops(remote)
    BY <1>2, <1>4 DEF Hop!Near
  <1>6. initial - remote \in Int
    BY DEF InitialTtls
  <1>7. \A a, b, c \in Int : a < b /\ b <= c => a < c
    OBVIOUS
  <1> QED BY <1>2, <1>4, <1>5, <1>6, <1>7, Zenon

\* The values of amounts are numbers.
LEMMA NumbersAreNumbers == \A v \in DOMAIN Number : Number[v] \in Int
  BY DEF Number

LEMMA AmountsAreNumbers ==
    ASSUME Read, NEW key \in Amounts, NEW default \in Int
    PROVE  Amount(key, default) \in Int
  BY NumbersAreNumbers DEF Read, Amount

\* A setting that is read does not change those read before, and only a
\* number is taken for an amount.
LEMMA AssignReads ==
    ASSUME Read, NEW line, Assign(line)
    PROVE  Read'
  <1>1. Id(line.name) \notin DOMAIN given /\ line.value \in Takes(section, line.name)
    BY DEF Assign, Assigns, Fresh
  <1>2. given' = [id \in DOMAIN given \cup {Id(line.name)} |->
                     IF id = Id(line.name) THEN line.value ELSE given[id]]
    BY DEF Assign
  <1>3. DOMAIN given' = DOMAIN given \cup {Id(line.name)}
    BY <1>2
  <1>4. \A id \in DOMAIN given' : given'[id] = IF id = Id(line.name) THEN line.value ELSE given[id]
    BY <1>2
  <1>5. ASSUME NEW key \in Amounts, <<"injection", 0, key>> = Id(line.name)
        PROVE  line.value \in DOMAIN Number
    <2>1. section = "injection" /\ line.name = key
      BY <1>5 DEF Id
    <2>2. CASE key = "ttl"
      <3>1. Takes(section, line.name) = Within(1, 255)
        BY <2>1, <2>2 DEF Takes
      <3> QED BY <1>1, <3>1 DEF Within
    <2>3. CASE key = "dynamic_percent"
      <3>1. Takes(section, line.name) = Within(0, 99)
        BY <2>1, <2>3 DEF Takes
      <3> QED BY <1>1, <3>1 DEF Within
    <2> QED BY <1>5, <2>2, <2>3 DEF Amounts
  <1> QED BY <1>3, <1>4, <1>5 DEF Read

----------------------------------------------------------------------------
(* Ranks.                                                                  *)

\* Ranks in a finite set of numbers number its members from 1 on.
LEMMA RankInRange ==
    ASSUME NEW S \in SUBSET Int, IsFiniteSet(S), NEW x \in S
    PROVE  /\ Rank(S, x) \in 1 .. Cardinality(S)
           /\ IsFiniteSet({y \in S : y <= x})
  <1> DEFINE T == {y \in S : y <= x}
  <1>1. T \in SUBSET S /\ x \in T
    OBVIOUS
  <1>2. IsFiniteSet(T) /\ Cardinality(T) <= Cardinality(S)
    BY <1>1, FS_Subset
  <1>3. Cardinality(T) \in Nat /\ Cardinality(T) # 0
    BY <1>1, <1>2, FS_CardinalityType, FS_EmptySet
  <1>4. Cardinality(S) \in Nat
    BY FS_CardinalityType
  <1> QED BY <1>2, <1>3, <1>4 DEF Rank

LEMMA RankIncreases ==
    ASSUME NEW S \in SUBSET Int, IsFiniteSet(S), NEW x \in S, NEW y \in S, x < y
    PROVE  Rank(S, x) < Rank(S, y)
  <1> DEFINE T == {z \in S : z <= x}
             U == {z \in S : z <= y}
  <1>1. IsFiniteSet(T) /\ IsFiniteSet(U)
    BY RankInRange
  <1>2. y \notin T /\ T \cup {y} \in SUBSET U
    <2>1. x \in Int /\ y \in Int
      OBVIOUS
    <2>2. \A z \in Int : z <= x => z <= y
      BY <2>1
    <2>3. y \notin T
      BY <2>1
    <2>4. \A z \in T \cup {y} : z \in S /\ z <= y
      BY <2>1, <2>2
    <2> QED BY <2>3, <2>4
  <1>3. IsFiniteSet(T \cup {y}) /\ Cardinality(T \cup {y}) = Cardinality(T) + 1
    BY <1>1, <1>2, FS_AddElement
  <1>4. Cardinality(T \cup {y}) <= Cardinality(U)
    BY <1>1, <1>2, FS_Subset
  <1>5. Cardinality(T) \in Nat /\ Cardinality(U) \in Nat
    BY <1>1, FS_CardinalityType
  <1> QED BY <1>3, <1>4, <1>5 DEF Rank

LEMMA RankDistinguishes ==
    ASSUME NEW S \in SUBSET Int, IsFiniteSet(S)
    PROVE  \A x, y \in S : Rank(S, x) = Rank(S, y) => x = y
  <1> SUFFICES ASSUME NEW x \in S, NEW y \in S, Rank(S, x) = Rank(S, y) PROVE x = y
    OBVIOUS
  <1>1. Rank(S, x) \in 1 .. Cardinality(S) /\ Cardinality(S) \in Nat
    BY RankInRange, FS_CardinalityType
  <1>2. ~(x < y) /\ ~(y < x)
    <2>1. ~(Rank(S, x) < Rank(S, y)) /\ ~(Rank(S, y) < Rank(S, x))
      BY <1>1
    <2> QED BY <2>1, RankIncreases
  <1>3. x \in Int /\ y \in Int
    OBVIOUS
  <1> QED BY <1>2, <1>3

LEMMA RankReached ==
    ASSUME NEW S \in SUBSET Int, IsFiniteSet(S), NEW n \in 1 .. Cardinality(S)
    PROVE  \E x \in S : Rank(S, x) = n
  <1> DEFINE T == 1 .. Cardinality(S)
             r == [x \in S |-> Rank(S, x)]
  <1>1. Cardinality(S) \in Nat
    BY FS_CardinalityType
  <1>2. IsFiniteSet(T) /\ Cardinality(T) = Cardinality(S)
    BY <1>1, FS_Interval
  <1>3. r \in [S -> T]
    BY RankInRange
  <1>4. r \in Injection(S, T)
    BY <1>3, RankDistinguishes DEF Injection, IsInjective
  <1>5. r \in Surjection(S, T)
    BY <1>2, <1>4, FS_Injection
  <1> QED BY <1>5 DEF Surjection

\* The last member has the rank of all.
LEMMA MaxOfFinite ==
    ASSUME NEW S \in SUBSET Int, IsFiniteSet(S), S # {}
    PROVE  Max(S) \in S /\ \A y \in S : y <= Max(S)
  <1>1. Cardinality(S) \in Nat /\ Cardinality(S) # 0
    BY FS_CardinalityType, FS_EmptySet
  <1>2. PICK x \in S : Rank(S, x) = Cardinality(S)
    BY <1>1, RankReached
  <1>3. ASSUME NEW y \in S PROVE x >= y
    <2>1. Rank(S, y) \in 1 .. Rank(S, x) /\ Rank(S, x) \in Nat
      BY <1>1, <1>2, RankInRange
    <2>2. ~(Rank(S, x) < Rank(S, y))
      BY <2>1
    <2>3. ~(x < y)
      BY <2>2, RankIncreases
    <2>4. x \in Int /\ y \in Int
      OBVIOUS
    <2> QED BY <2>3, <2>4
  <1>4. Max(S) \in S /\ \A y \in S : Max(S) >= y
    BY <1>3 DEF Max
  <1> QED BY <1>4

\* Members keep their ranks under a map that keeps their order.
LEMMA RanksCarryOver ==
    ASSUME NEW S \in SUBSET Int, IsFiniteSet(S), NEW T \in SUBSET Int,
           NEW f \in [S -> T],
           \A t \in T : \E x \in S : f[x] = t,
           \A x, y \in S : x < y => f[x] < f[y]
    PROVE  /\ IsFiniteSet(T) /\ Cardinality(T) = Cardinality(S)
           /\ \A x \in S : Rank(T, f[x]) = Rank(S, x)
  <1>1. ASSUME NEW x \in S, NEW y \in S PROVE f[x] <= f[y] <=> x <= y
    <2>1. x \in Int /\ y \in Int /\ f[x] \in Int /\ f[y] \in Int
      OBVIOUS
    <2>2. CASE x < y
      <3>1. f[x] < f[y]
        BY <2>2
      <3> QED BY <2>1, <2>2, <3>1
    <2>3. CASE y < x
      <3>1. f[y] < f[x]
        BY <2>3
      <3> QED BY <2>1, <2>3, <3>1
    <2>4. CASE x = y
      BY <2>1, <2>4
    <2> QED BY <2>1, <2>2, <2>3, <2>4
  <1>2. \A x, y \in S : f[x] = f[y] => x = y
    <2> SUFFICES ASSUME NEW x \in S, NEW y \in S, f[x] = f[y] PROVE x = y
      OBVIOUS
    <2>1. f[x] \in Int /\ x \in Int /\ y \in Int
      OBVIOUS
    <2>2. x <= y /\ y <= x
      BY <1>1, <2>1
    <2> QED BY <2>1, <2>2
  <1>3. f \in Bijection(S, T)
    BY <1>2 DEF Bijection, Injection, Surjection, IsInjective
  <1>4. IsFiniteSet(T) /\ Cardinality(T) = Cardinality(S)
    BY <1>3, FS_Bijection DEF ExistsBijection
  <1>5. ASSUME NEW x \in S PROVE Rank(T, f[x]) = Rank(S, x)
    <2> DEFINE A == {y \in S : y <= x}
               B == {t \in T : t <= f[x]}
               g == [y \in A |-> f[y]]
    <2>1. IsFiniteSet(A)
      BY RankInRange
    <2>2. \A y \in A : f[y] \in B
      BY <1>1
    <2>3. \A t \in B : \E y \in A : f[y] = t
      BY <1>1
    <2>4. g \in Bijection(A, B)
      BY <1>2, <2>2, <2>3 DEF Bijection, Injection, Surjection, IsInjective
    <2>5. Cardinality(B) = Cardinality(A)
      BY <2>1, <2>4, FS_Bijection DEF ExistsBijection
    <2> QED BY <2>5 DEF Rank
  <1> QED BY <1>4, <1>5

\* What holds at 0 and is handed on holds up to n.
LEMMA Upwards ==
    ASSUME NEW n \in Nat, NEW S, 0 \in S, \A m \in 0 .. n - 1 : m \in S => m + 1 \in S
    PROVE  0 .. n \subseteq S
  <1> DEFINE reached == {m \in 0 .. n : 0 .. m \subseteq S}
  <1>1. reached \in SUBSET Int /\ IsFiniteSet(reached)
    <2>1. IsFiniteSet(0 .. n)
      BY FS_Interval
    <2> QED BY <2>1, FS_Subset
  <1>2. 0 .. 0 = {0}
    OBVIOUS
  <1>3. 0 \in reached
    BY <1>2
  <1> HIDE DEF reached
  <1>4. PICK m \in reached : \A k \in reached : k <= m
    <2>1. Max(reached) \in reached /\ \A k \in reached : k <= Max(reached)
      BY <1>1, <1>3, MaxOfFinite
    <2> QED BY <2>1
  <1>5. CASE m = n
    BY <1>5 DEF reached
  <1>6. CASE m # n
    <2>1. m + 1 \in S /\ m + 1 \in 0 .. n /\ m \in Nat /\ 0 .. m \subseteq S
      <3>1. m \in 0 .. n /\ 0 .. m \subseteq S
        BY DEF reached
      <3> QED BY <1>6, <3>1
    <2>2. 0 .. m + 1 = (0 .. m) \cup {m + 1}
      BY <2>1
    <2>3. m + 1 \in reached
      BY <2>1, <2>2 DEF reached
    <2> QED BY <1>4, <2>1, <2>3
  <1> QED BY <1>5, <1>6

\* f begins with first, and its n steps are by G.
Runs(f, n, first, G) == f[0] = first /\ \A m \in 1 .. n : f[m] = G[m][f[m - 1]]

\* There is such a sequence.
LEMMA Recursion ==
    ASSUME NEW n \in Nat, NEW S, NEW first \in S, NEW G \in [1 .. n -> [S -> S]]
    PROVE  \E f \in [0 .. n -> S] : Runs(f, n, first, G)
  <1> DEFINE AllRuns(k) == {f \in [0 .. k -> S] : f[0] = first /\ \A m \in 1 .. k : f[m] = G[m][f[m - 1]]}
             able       == {k \in 0 .. n : AllRuns(k) # {}}
  <1>1. 0 \in able
    <2>1. [m \in 0 .. 0 |-> first] \in AllRuns(0)
      OBVIOUS
    <2> QED BY <2>1
  <1>2. ASSUME NEW k \in 0 .. n - 1, k \in able PROVE k + 1 \in able
    <2>1. PICK f \in AllRuns(k) : TRUE
      BY <1>2
    <2> DEFINE g == [m \in 0 .. k + 1 |-> IF m = k + 1 THEN G[k + 1][f[k]] ELSE f[m]]
    <2>2. f[k] \in S /\ k + 1 \in 1 .. n
      BY <2>1
    <2>3. G[k + 1][f[k]] \in S
      BY <2>2
    <2>4. g \in [0 .. k + 1 -> S]
      BY <2>1, <2>3
    <2>5. g[0] = first
      BY <2>1
    <2>6. ASSUME NEW m \in 1 .. k + 1 PROVE g[m] = G[m][g[m - 1]]
      <3>1. CASE m = k + 1
        <4>1. g[m] = G[k + 1][f[k]] /\ g[m - 1] = f[k]
          BY <3>1
        <4> QED BY <3>1, <4>1
      <3>2. CASE m # k + 1
        <4>1. m \in 1 .. k /\ m - 1 \in 0 .. k
          BY <3>2
        <4>2. g[m] = f[m] /\ g[m - 1] = f[m - 1]
          BY <4>1
        <4>3. f[m] = G[m][f[m - 1]]
          BY <2>1, <4>1
        <4> QED BY <4>2, <4>3
      <3> QED BY <3>1, <3>2
    <2>7. g \in AllRuns(k + 1)
      BY <2>4, <2>5, <2>6
    <2>8. k + 1 \in 0 .. n
      OBVIOUS
    <2> HIDE DEF AllRuns
    <2> QED BY <2>7, <2>8
  <1> HIDE DEF able
  <1>3. 0 .. n \subseteq able
    BY <1>1, <1>2, Upwards
  <1>4. n \in able
    BY <1>3
  <1> QED BY <1>4 DEF able, Runs

----------------------------------------------------------------------------
(* A file of any length, looked at whole.                                  *)

\* The file as WellFormed and RotationWritten see it, for any sequence of lines.
HeaderIn(s, i) == Max({h \in 1 .. i : s[h].is = "header"} \cup {0})
SectionIn(s, i) == IF HeaderIn(s, i) = 0 THEN "" ELSE s[HeaderIn(s, i)].name
HeadsIn(s, name) == {h \in DOMAIN s : s[h].is = "header" /\ s[h].name = name}
SettingsIn(s) == {i \in DOMAIN s : s[i].is = "setting"}

\* What id is to be for a setting: a block counts those of its name.
IdIn(s, i) ==
    <<SectionIn(s, i),
      IF SectionIn(s, i) \in Blocks THEN Rank(HeadsIn(s, SectionIn(s, i)), HeaderIn(s, i)) ELSE 0,
      s[i].name>>

\* The headers are in order.
Headed(s) ==
    /\ \A h \in DOMAIN s : s[h].is = "header" => s[h].name \in Blocks \cup Sections
    /\ \A h, k \in DOMAIN s :
          s[h].is = "header" /\ s[k].is = "header" /\ s[h].name = s[k].name /\ s[h].name \in Sections
             => h = k
    /\ \A b \in Blocks : Cardinality(HeadsIn(s, b)) <= Limit[b]

LEMMA LastHeader ==
    ASSUME NEW s \in Seq(Line), NEW i \in 0 .. Len(s)
    PROVE  /\ HeaderIn(s, i) \in 0 .. i
           /\ HeaderIn(s, i) # 0 => HeaderIn(s, i) \in DOMAIN s /\ s[HeaderIn(s, i)].is = "header"
           /\ \A h \in 1 .. i : s[h].is = "header" => h <= HeaderIn(s, i)
  <1> DEFINE H == {h \in 1 .. i : s[h].is = "header"} \cup {0}
  <1>1. H \in SUBSET (0 .. i) /\ H # {}
    OBVIOUS
  <1>2. IsFiniteSet(0 .. i)
    BY FS_Interval
  <1>3. IsFiniteSet(H) /\ H \in SUBSET Int
    BY <1>1, <1>2, FS_Subset
  <1>4. Max(H) \in H /\ \A h \in H : h <= Max(H)
    BY <1>1, <1>3, MaxOfFinite
  <1>5. DOMAIN s = 1 .. Len(s)
    OBVIOUS
  <1> QED BY <1>1, <1>4, <1>5 DEF HeaderIn

LEMMA HeadsAreNumbers ==
    ASSUME NEW s \in Seq(Line), NEW name
    PROVE  HeadsIn(s, name) \in SUBSET Int /\ IsFiniteSet(HeadsIn(s, name))
  <1>1. HeadsIn(s, name) \in SUBSET (1 .. Len(s))
    BY DEF HeadsIn
  <1>2. IsFiniteSet(1 .. Len(s))
    BY FS_Interval
  <1> QED BY <1>1, <1>2, FS_Subset

LEMMA SettingsAreNumbers ==
    ASSUME NEW s \in Seq(Line)
    PROVE  SettingsIn(s) \in SUBSET (1 .. Len(s)) /\ IsFiniteSet(SettingsIn(s))
  <1>1. SettingsIn(s) \in SUBSET (1 .. Len(s))
    BY DEF SettingsIn
  <1>2. IsFiniteSet(1 .. Len(s))
    BY FS_Interval
  <1> QED BY <1>1, <1>2, FS_Subset

\* The header above a line is the last of its name that is not below it.
LEMMA UnderItsHeader ==
    ASSUME NEW s \in Seq(Line), NEW i \in 0 .. Len(s), HeaderIn(s, i) # 0
    PROVE  HeaderIn(s, i) \in HeadsIn(s, SectionIn(s, i))
  BY LastHeader DEF HeadsIn, SectionIn

LEMMA NoHeaderNoSection ==
    ASSUME NEW s \in Seq(Line), Headed(s), NEW i \in 0 .. Len(s)
    PROVE  SectionIn(s, i) \in Blocks \cup Sections <=> HeaderIn(s, i) # 0
  <1>1. "" \notin Blocks \cup Sections
    BY DEF Blocks, Sections
  <1>2. CASE HeaderIn(s, i) = 0
    BY <1>1, <1>2 DEF SectionIn
  <1>3. CASE HeaderIn(s, i) # 0
    <2>1. HeaderIn(s, i) \in DOMAIN s /\ s[HeaderIn(s, i)].is = "header"
      BY <1>3, LastHeader
    <2> QED BY <1>3, <2>1 DEF SectionIn, Headed
  <1> QED BY <1>2, <1>3

\* Two settings have one id when they are under one header and of one name.
LEMMA SameId ==
    ASSUME NEW s \in Seq(Line), Headed(s), NEW i \in 1 .. Len(s), NEW j \in 1 .. Len(s)
    PROVE  IdIn(s, i) = IdIn(s, j) <=> HeaderIn(s, i) = HeaderIn(s, j) /\ s[i].name = s[j].name
  <1>1. HeaderIn(s, i) = HeaderIn(s, j) => SectionIn(s, i) = SectionIn(s, j)
    BY DEF SectionIn
  <1>2. HeaderIn(s, i) = HeaderIn(s, j) /\ s[i].name = s[j].name => IdIn(s, i) = IdIn(s, j)
    BY <1>1 DEF IdIn
  <1>3. ASSUME IdIn(s, i) = IdIn(s, j)
        PROVE  HeaderIn(s, i) = HeaderIn(s, j)
    <2> DEFINE name == SectionIn(s, i)
    <2>1. SectionIn(s, j) = name
      BY <1>3 DEF IdIn
    <2>2. CASE HeaderIn(s, i) = 0 \/ HeaderIn(s, j) = 0
      <3>1. HeaderIn(s, i) # 0 <=> HeaderIn(s, j) # 0
        BY <2>1, NoHeaderNoSection
      <3> QED BY <2>2, <3>1
    <2>3. CASE HeaderIn(s, i) # 0 /\ HeaderIn(s, j) # 0
      <3>1. HeaderIn(s, i) \in HeadsIn(s, name) /\ HeaderIn(s, j) \in HeadsIn(s, name)
        BY <2>1, <2>3, UnderItsHeader
      <3>2. CASE name \in Blocks
        <4>1. Rank(HeadsIn(s, name), HeaderIn(s, i)) = Rank(HeadsIn(s, name), HeaderIn(s, j))
          BY <1>3, <2>1, <3>2 DEF IdIn
        <4> QED BY <3>1, <4>1, HeadsAreNumbers, RankDistinguishes
      <3>3. CASE name \in Sections
        BY <3>1, <3>3 DEF Headed, HeadsIn
      <3> QED BY <2>3, <3>2, <3>3, NoHeaderNoSection
    <2> QED BY <2>2, <2>3
  <1>4. IdIn(s, i) = IdIn(s, j) => s[i].name = s[j].name
    BY DEF IdIn
  <1> QED BY <1>2, <1>3, <1>4

\* At the end of what has been read, a block is the last one opened.
LEMMA LastBlock ==
    ASSUME NEW s \in Seq(Line), Headed(s), SectionIn(s, Len(s)) \in Blocks
    PROVE  Rank(HeadsIn(s, SectionIn(s, Len(s))), HeaderIn(s, Len(s)))
              = Cardinality(HeadsIn(s, SectionIn(s, Len(s))))
  <1> DEFINE H == HeadsIn(s, SectionIn(s, Len(s)))
  <1>1. Len(s) \in 0 .. Len(s)
    OBVIOUS
  <1>2. \A h \in H : h <= HeaderIn(s, Len(s))
    BY <1>1, LastHeader DEF HeadsIn
  <1>3. {h \in H : h <= HeaderIn(s, Len(s))} = H
    BY <1>2
  <1> QED BY <1>3 DEF Rank

----------------------------------------------------------------------------
(* One more line.                                                          *)

Longer(t, s, line) ==
    /\ t \in Seq(Line) /\ Len(t) = Len(s) + 1 /\ t[Len(t)] = line
    /\ DOMAIN t = DOMAIN s \cup {Len(t)} /\ Len(t) \notin DOMAIN s
    /\ \A i \in DOMAIN s : t[i] = s[i]

LEMMA Appended ==
    ASSUME NEW s \in Seq(Line), NEW line \in Line
    PROVE  Longer(Append(s, line), s, line)
  BY DEF Longer

LEMMA HeadersAppended ==
    ASSUME NEW s \in Seq(Line), NEW line \in Line, NEW t, Longer(t, s, line)
    PROVE  /\ \A i \in 0 .. Len(s) : HeaderIn(t, i) = HeaderIn(s, i) /\ SectionIn(t, i) = SectionIn(s, i)
           /\ line.is = "header" =>
                 HeaderIn(t, Len(t)) = Len(t) /\ SectionIn(t, Len(t)) = line.name
           /\ line.is # "header" =>
                 /\ HeaderIn(t, Len(t)) = HeaderIn(s, Len(s))
                 /\ SectionIn(t, Len(t)) = SectionIn(s, Len(s))
  <1>1. /\ t \in Seq(Line) /\ Len(t) = Len(s) + 1 /\ t[Len(t)] = line
        /\ \A i \in 1 .. Len(s) : t[i] = s[i]
    BY DEF Longer
  <1>2. ASSUME NEW i \in 0 .. Len(s)
        PROVE  HeaderIn(t, i) = HeaderIn(s, i) /\ SectionIn(t, i) = SectionIn(s, i)
    <2>1. \A h \in 1 .. i : t[h] = s[h]
      BY <1>1
    <2>2. {h \in 1 .. i : t[h].is = "header"} = {h \in 1 .. i : s[h].is = "header"}
      BY <2>1
    <2>3. HeaderIn(t, i) = HeaderIn(s, i)
      BY <2>2 DEF HeaderIn
    <2>4. HeaderIn(s, i) # 0 => HeaderIn(s, i) \in 1 .. Len(s)
      BY LastHeader
    <2> QED BY <1>1, <2>3, <2>4 DEF SectionIn
  <1>3. ASSUME line.is = "header"
        PROVE  HeaderIn(t, Len(t)) = Len(t) /\ SectionIn(t, Len(t)) = line.name
    <2>1. Len(t) \in 1 .. Len(t) /\ Len(t) \in 0 .. Len(t) /\ t[Len(t)].is = "header"
      BY <1>1, <1>3
    <2>2. HeaderIn(t, Len(t)) \in 0 .. Len(t) /\ Len(t) <= HeaderIn(t, Len(t))
      BY <1>1, <2>1, LastHeader
    <2>3. HeaderIn(t, Len(t)) = Len(t) /\ Len(t) # 0
      BY <1>1, <2>2
    <2> QED BY <1>1, <2>3 DEF SectionIn
  <1>4. ASSUME line.is # "header"
        PROVE  /\ HeaderIn(t, Len(t)) = HeaderIn(s, Len(s))
               /\ SectionIn(t, Len(t)) = SectionIn(s, Len(s))
    <2>1. \A h \in 1 .. Len(t) : t[h].is = "header" <=> h \in 1 .. Len(s) /\ s[h].is = "header"
      BY <1>1, <1>4
    <2>2. 1 .. Len(s) \subseteq 1 .. Len(t)
      BY <1>1
    <2>3. {h \in 1 .. Len(t) : t[h].is = "header"} = {h \in 1 .. Len(s) : s[h].is = "header"}
      BY <2>1, <2>2
    <2>4. HeaderIn(t, Len(t)) = HeaderIn(s, Len(s))
      BY <2>3 DEF HeaderIn
    <2>5. HeaderIn(s, Len(s)) # 0 => HeaderIn(s, Len(s)) \in 1 .. Len(s)
      BY LastHeader
    <2> QED BY <1>1, <2>4, <2>5 DEF SectionIn
  <1> QED BY <1>2, <1>3, <1>4

LEMMA HeadsAppended ==
    ASSUME NEW s \in Seq(Line), NEW line \in Line, NEW t, Longer(t, s, line)
    PROVE  \A name : HeadsIn(t, name) = HeadsIn(s, name)
              \cup (IF line.is = "header" /\ line.name = name THEN {Len(t)} ELSE {})
  BY DEF Longer, HeadsIn

LEMMA SettingsAppended ==
    ASSUME NEW s \in Seq(Line), NEW line \in Line, NEW t, Longer(t, s, line)
    PROVE  SettingsIn(t) = SettingsIn(s) \cup (IF line.is = "setting" THEN {Len(t)} ELSE {})
  BY DEF Longer, SettingsIn

\* Ids do not change when lines are added.
LEMMA IdsAppended ==
    ASSUME NEW s \in Seq(Line), NEW line \in Line, NEW t, Longer(t, s, line),
           NEW i \in DOMAIN s
    PROVE  IdIn(t, i) = IdIn(s, i)
  <1>1. t[i] = s[i] /\ i \in 0 .. Len(s) /\ Len(t) = Len(s) + 1
    BY DEF Longer
  <1>2. HeaderIn(t, i) = HeaderIn(s, i) /\ SectionIn(t, i) = SectionIn(s, i)
    BY <1>1, HeadersAppended
  <1>3. HeaderIn(s, i) \in 0 .. Len(s)
    BY <1>1, LastHeader
  <1>4. \A name : HeadsIn(t, name) = HeadsIn(s, name)
              \cup (IF line.is = "header" /\ line.name = name THEN {Len(t)} ELSE {})
      BY DEF Longer, HeadsIn
  <1>5. ASSUME NEW name
        PROVE  Rank(HeadsIn(t, name), HeaderIn(s, i)) = Rank(HeadsIn(s, name), HeaderIn(s, i))
    <2>1. ~(Len(t) <= HeaderIn(s, i))
      BY <1>1, <1>3
    <2>3. {h \in HeadsIn(t, name) : h <= HeaderIn(s, i)} = {h \in HeadsIn(s, name) : h <= HeaderIn(s, i)}
      BY <1>4, <2>1
    <2> QED BY <2>3 DEF Rank
  <1> QED BY <1>1, <1>2, <1>5 DEF IdIn

\* The settings are in order: of different ids, with values their keys take.
Settled(s) ==
    /\ \A i \in DOMAIN s : s[i].is # "junk"
    /\ \A i \in SettingsIn(s) : s[i].value \in Takes(SectionIn(s, i), s[i].name)
    /\ \A i, j \in SettingsIn(s) : IdIn(s, i) = IdIn(s, j) => i = j
    /\ Cardinality(SettingsIn(s)) <= MaxKeys

\* WellFormed of any sequence of lines.
LinesIn(s, h, key) == {i \in DOMAIN s : s[i].is = "setting" /\ s[i].name = key /\ HeaderIn(s, i) = h}
Fits(s) ==
    /\ \A i \in DOMAIN s :
          /\ s[i].is # "junk"
          /\ s[i].is = "setting" =>
                /\ LinesIn(s, HeaderIn(s, i), s[i].name) = {i}
                /\ s[i].value \in Takes(SectionIn(s, i), s[i].name)
          /\ s[i].is = "header" =>
                Cardinality(HeadsIn(s, s[i].name)) <=
                    CASE s[i].name \in Blocks   -> Limit[s[i].name]
                      [] s[i].name \in Sections -> 1
                      [] OTHER                  -> 0
    /\ Cardinality(SettingsIn(s)) <= MaxKeys

\* What the reader remembers of the lines s.
Remembered(s) ==
    /\ section = SectionIn(s, Len(s))
    /\ blocks = [b \in Blocks |-> Cardinality(HeadsIn(s, b))]
    /\ opened = {name \in Sections : HeadsIn(s, name) # {}}
    /\ DOMAIN given = {IdIn(s, i) : i \in SettingsIn(s)}
    /\ \A i \in SettingsIn(s) : given[IdIn(s, i)] = s[i].value

ReadSoFar ==
    /\ origin \in Files /\ file \in Seq(Line)
    /\ verdict # "malformed" => Headed(file) /\ Settled(file) /\ Remembered(file)
    /\ verdict = "malformed" => ~Fits(file)

LEMMA FitsIsWellFormed == WellFormed <=> Fits(file)
  <1>1. \A i : HeaderOf(i) = HeaderIn(file, i)
    BY DEF HeaderOf, HeaderIn
  <1>2. \A i : SectionOf(i) = SectionIn(file, i)
    BY <1>1 DEF SectionOf, SectionIn
  <1>3. \A h, key : LinesOf(h, key) = LinesIn(file, h, key)
    BY <1>1 DEF LinesOf, LinesIn
  <1>4. \A name : Occurrences(name) = HeadsIn(file, name)
    BY DEF Occurrences, HeadsIn
  <1> QED BY <1>1, <1>2, <1>3, <1>4, Zenon DEF WellFormed, Fits, SettingsIn

\* What is in order line by line is well-formed as a whole.
LEMMA InOrderFits ==
    ASSUME NEW s \in Seq(Line), Headed(s), Settled(s)
    PROVE  Fits(s)
  <1>1. DOMAIN s = 1 .. Len(s)
    OBVIOUS
  <1>2. ASSUME NEW i \in DOMAIN s, s[i].is = "setting"
        PROVE  /\ LinesIn(s, HeaderIn(s, i), s[i].name) = {i}
               /\ s[i].value \in Takes(SectionIn(s, i), s[i].name)
    <2>1. i \in SettingsIn(s)
      BY <1>2 DEF SettingsIn
    <2>2. ASSUME NEW j \in LinesIn(s, HeaderIn(s, i), s[i].name) PROVE j = i
      <3>1. j \in DOMAIN s /\ j \in SettingsIn(s) /\ HeaderIn(s, j) = HeaderIn(s, i) /\ s[j].name = s[i].name
        BY <2>2 DEF LinesIn, SettingsIn
      <3>2. IdIn(s, j) = IdIn(s, i)
        BY <1>1, <3>1, SameId
      <3> QED BY <2>1, <3>1, <3>2 DEF Settled
    <2>3. i \in LinesIn(s, HeaderIn(s, i), s[i].name)
      BY <1>2 DEF LinesIn
    <2> QED BY <2>1, <2>2, <2>3 DEF Settled
  <1>3. ASSUME NEW i \in DOMAIN s, s[i].is = "header"
        PROVE  Cardinality(HeadsIn(s, s[i].name)) <=
                    CASE s[i].name \in Blocks   -> Limit[s[i].name]
                      [] s[i].name \in Sections -> 1
                      [] OTHER                  -> 0
    <2>1. CASE s[i].name \in Blocks
      <3>1. Cardinality(HeadsIn(s, s[i].name)) <= Limit[s[i].name]
        BY <2>1 DEF Headed
      <3> QED BY <2>1, <3>1, Zenon DEF Blocks, Sections
    <2>2. CASE s[i].name \in Sections
      <3>1. s[i].name \notin Blocks
        BY <2>2 DEF Blocks, Sections
      <3>2. HeadsIn(s, s[i].name) = {i}
        BY <1>3, <2>2 DEF Headed, HeadsIn
      <3>3. Cardinality(HeadsIn(s, s[i].name)) = 1
        BY <3>2, FS_Singleton, Zenon
      <3> QED BY <2>2, <3>1, <3>3
    <2> QED BY <1>3, <2>1, <2>2 DEF Headed
  <1> QED BY <1>2, <1>3 DEF Fits, Settled

\* The id of a setting to come.
LEMMA NextId ==
    ASSUME NEW s \in Seq(Line), Headed(s), Remembered(s),
           NEW line \in Line, line.is = "setting", NEW t, Longer(t, s, line)
    PROVE  IdIn(t, Len(t)) = Id(line.name)
  <1>1. t[Len(t)] = line
    BY DEF Longer
  <1>2. HeaderIn(t, Len(t)) = HeaderIn(s, Len(s)) /\ SectionIn(t, Len(t)) = section
    BY HeadersAppended DEF Remembered
  <1>3. \A name : HeadsIn(t, name) = HeadsIn(s, name)
    BY DEF Longer, HeadsIn
  <1>4. CASE section \in Blocks
    <2>1. Rank(HeadsIn(s, section), HeaderIn(s, Len(s))) = blocks[section]
      BY <1>4, LastBlock DEF Remembered
    <2> QED BY <1>1, <1>2, <1>3, <1>4, <2>1 DEF IdIn, Id
  <1>5. CASE section \notin Blocks
    BY <1>1, <1>2, <1>5 DEF IdIn, Id
  <1> QED BY <1>4, <1>5

\* One key for every setting.
LEMMA AsManyKeys ==
    ASSUME NEW s \in Seq(Line), Settled(s), Remembered(s)
    PROVE  Cardinality(DOMAIN given) = Cardinality(SettingsIn(s))
  <1> DEFINE f == [i \in SettingsIn(s) |-> IdIn(s, i)]
  <1>1. f \in Bijection(SettingsIn(s), DOMAIN given)
    BY DEF Settled, Remembered, Bijection, Injection, Surjection, IsInjective
  <1> QED BY <1>1, SettingsAreNumbers, FS_Bijection DEF ExistsBijection

\* The lines come from the file.
LEMMA LinesAreLines ==
    ASSUME ReadSoFar, NEW line \in Lines
    PROVE  line \in Line
  <1>1. origin.head \in Seq(Line) /\ origin.lines \subseteq Line /\ Len(file) \in Nat
    BY ConfigFileAssumption DEF ReadSoFar
  <1>2. CASE Len(file) < Len(origin.head)
    <2>1. line = origin.head[Len(file) + 1]
      BY <1>2 DEF Lines
    <2> QED BY <1>1, <1>2, <2>1
  <1>3. CASE ~(Len(file) < Len(origin.head))
    <2>1. line \in origin.lines
      BY <1>3 DEF Lines
    <2> QED BY <1>1, <2>1
  <1> QED BY <1>2, <1>3

----------------------------------------------------------------------------
(* The reader, line by line.                                               *)

\* A header that is taken.
LEMMA HeaderTaken ==
    ASSUME NEW s \in Seq(Line), Headed(s), Settled(s), NEW line \in Line, line.is = "header",
           NEW t, Longer(t, s, line),
           \/ line.name \in Blocks /\ Cardinality(HeadsIn(s, line.name)) < Limit[line.name]
           \/ line.name \in Sections /\ HeadsIn(s, line.name) = {}
    PROVE  /\ Headed(t) /\ Settled(t)
           /\ SettingsIn(t) = SettingsIn(s)
           /\ {IdIn(t, i) : i \in SettingsIn(t)} = {IdIn(s, i) : i \in SettingsIn(s)}
  <1>1. /\ t \in Seq(Line) /\ Len(t) = Len(s) + 1 /\ t[Len(t)] = line
        /\ DOMAIN t = DOMAIN s \cup {Len(t)} /\ Len(t) \notin DOMAIN s
        /\ \A i \in DOMAIN s : t[i] = s[i]
    BY DEF Longer
  <1>2. SettingsIn(t) = SettingsIn(s)
    BY <1>1 DEF SettingsIn
  <1>3. \A i \in DOMAIN s : IdIn(t, i) = IdIn(s, i)
    BY IdsAppended
  <1>4. \A i \in DOMAIN s : SectionIn(t, i) = SectionIn(s, i)
    BY HeadersAppended
  <1>5. \A i \in SettingsIn(s) : i \in DOMAIN s
    BY DEF SettingsIn
  <1>6. Settled(t)
    <2>1. \A i \in DOMAIN t : t[i].is # "junk"
      BY <1>1 DEF Settled
    <2>2. \A i \in SettingsIn(t) : t[i].value \in Takes(SectionIn(t, i), t[i].name)
      BY <1>1, <1>2, <1>4, <1>5 DEF Settled
    <2>3. \A i, j \in SettingsIn(t) : IdIn(t, i) = IdIn(t, j) => i = j
      BY <1>2, <1>3, <1>5 DEF Settled
    <2> QED BY <1>2, <2>1, <2>2, <2>3 DEF Settled
  <1>7. Headed(t)
    <2>1. \A h \in DOMAIN t : t[h].is = "header" => t[h].name \in Blocks \cup Sections
      BY <1>1 DEF Headed
    <2>2. ASSUME NEW h \in DOMAIN t, NEW k \in DOMAIN t, t[h].is = "header", t[k].is = "header",
                 t[h].name = t[k].name, t[h].name \in Sections
          PROVE  h = k
      <3>1. CASE h \in DOMAIN s /\ k \in DOMAIN s
        BY <1>1, <2>2, <3>1 DEF Headed
      <3>2. ASSUME t[h].name = line.name PROVE h = Len(t) /\ k = Len(t)
        <4>1. line.name \notin Blocks
          BY <2>2, <3>2 DEF Blocks, Sections
        <4>2. HeadsIn(s, line.name) = {}
          BY <4>1
        <4>3. h \notin DOMAIN s /\ k \notin DOMAIN s
          BY <1>1, <2>2, <3>2, <4>2 DEF HeadsIn
        <4> QED BY <1>1, <4>3
      <3> QED BY <1>1, <3>1, <3>2, <2>2
    <2>3. ASSUME NEW b \in Blocks PROVE Cardinality(HeadsIn(t, b)) <= Limit[b]
      <3>1. CASE line.name # b
        <4>1. HeadsIn(t, b) = HeadsIn(s, b)
          BY <1>1, <3>1 DEF HeadsIn
        <4> QED BY <4>1 DEF Headed
      <3>2. CASE line.name = b
        <4>1. HeadsIn(t, b) = HeadsIn(s, b) \cup {Len(t)} /\ Len(t) \notin HeadsIn(s, b)
          BY <1>1, <3>2 DEF HeadsIn
        <4>2. IsFiniteSet(HeadsIn(s, b)) /\ Cardinality(HeadsIn(s, b)) \in Nat
          BY HeadsAreNumbers, FS_CardinalityType
        <4>3. Cardinality(HeadsIn(t, b)) = Cardinality(HeadsIn(s, b)) + 1
          BY <4>1, <4>2, FS_AddElement
        <4>4. Cardinality(HeadsIn(s, b)) < Limit[b] /\ Limit[b] \in Nat
          <5>1. b \notin Sections
            BY DEF Blocks, Sections
          <5>2. Limit[b] \in Nat
            BY ConfigFileAssumption DEF Limit
          <5> QED BY <3>2, <5>1, <5>2
        <4> QED BY <4>2, <4>3, <4>4
      <3> QED BY <3>1, <3>2
    <2> QED BY <2>1, <2>2, <2>3 DEF Headed
  <1>8. {IdIn(t, i) : i \in SettingsIn(t)} = {IdIn(s, i) : i \in SettingsIn(s)}
    BY <1>2, <1>3, <1>5
  <1> QED BY <1>2, <1>6, <1>7, <1>8

LEMMA HeadCounted ==
    ASSUME NEW s \in Seq(Line), NEW line \in Line, line.is = "header", NEW t, Longer(t, s, line)
    PROVE  /\ \A name : name # line.name => HeadsIn(t, name) = HeadsIn(s, name)
           /\ HeadsIn(t, line.name) # {}
           /\ Cardinality(HeadsIn(t, line.name)) = Cardinality(HeadsIn(s, line.name)) + 1
           /\ Cardinality(HeadsIn(s, line.name)) \in Nat
  <1>1. /\ t \in Seq(Line) /\ Len(t) = Len(s) + 1 /\ t[Len(t)] = line
        /\ DOMAIN t = DOMAIN s \cup {Len(t)} /\ Len(t) \notin DOMAIN s
        /\ \A i \in DOMAIN s : t[i] = s[i]
    BY DEF Longer
  <1>2. \A name : name # line.name => HeadsIn(t, name) = HeadsIn(s, name)
    BY <1>1 DEF HeadsIn
  <1>3. HeadsIn(t, line.name) = HeadsIn(s, line.name) \cup {Len(t)} /\ Len(t) \notin HeadsIn(s, line.name)
    BY <1>1 DEF HeadsIn
  <1>4. IsFiniteSet(HeadsIn(s, line.name)) /\ Cardinality(HeadsIn(s, line.name)) \in Nat
    BY HeadsAreNumbers, FS_CardinalityType
  <1>5. Cardinality(HeadsIn(t, line.name)) = Cardinality(HeadsIn(s, line.name)) + 1
    BY <1>3, <1>4, FS_AddElement
  <1> QED BY <1>2, <1>3, <1>4, <1>5

LEMMA OpenBlockReads ==
    ASSUME ReadSoFar, NEW line \in Lines, OpenBlock(line)
    PROVE  ReadSoFar'
  <1>1. line \in Line /\ file \in Seq(Line) /\ Headed(file) /\ Settled(file) /\ Remembered(file)
        /\ verdict = "reading" /\ Longer(file', file, line)
        /\ UNCHANGED <<origin, opened, given, verdict>> /\ section' = line.name
        /\ blocks' = [blocks EXCEPT ![line.name] = @ + 1]
        /\ line.is = "header" /\ line.name \in Blocks /\ blocks[line.name] < Limit[line.name]
    BY LinesAreLines, Appended DEF ReadSoFar, OpenBlock, OpensBlock, Take
  <1>2. /\ blocks[line.name] = Cardinality(HeadsIn(file, line.name))
        /\ Cardinality(HeadsIn(file, line.name)) < Limit[line.name]
    BY <1>1 DEF Remembered
  <1>3. /\ Headed(file') /\ Settled(file') /\ SettingsIn(file') = SettingsIn(file)
        /\ {IdIn(file', i) : i \in SettingsIn(file')} = {IdIn(file, i) : i \in SettingsIn(file)}
    BY <1>1, <1>2, HeaderTaken
  <1>4. Remembered(file)'
    <2>1. section' = SectionIn(file', Len(file'))
      BY <1>1, HeadersAppended
    <2>2. /\ \A name : name # line.name => HeadsIn(file', name) = HeadsIn(file, name)
          /\ Cardinality(HeadsIn(file', line.name)) = Cardinality(HeadsIn(file, line.name)) + 1
      BY <1>1, HeadCounted
    <2>3. blocks' = [b \in Blocks |-> Cardinality(HeadsIn(file', b))]
      BY <1>1, <1>2, <2>2 DEF Remembered
    <2>4. opened' = {name \in Sections : HeadsIn(file', name) # {}}
      <3>1. \A name \in Sections : name # line.name
        BY <1>1 DEF Blocks, Sections
      <3> QED BY <1>1, <2>2, <3>1 DEF Remembered
    <2>5. DOMAIN given' = {IdIn(file', i) : i \in SettingsIn(file')}
      BY <1>1, <1>3 DEF Remembered
    <2>6. \A i \in SettingsIn(file') : given'[IdIn(file', i)] = file'[i].value
      <3>1. \A i \in SettingsIn(file) : i \in DOMAIN file
        BY DEF SettingsIn
      <3>2. \A i \in DOMAIN file : file'[i] = file[i] /\ IdIn(file', i) = IdIn(file, i)
        BY <1>1, IdsAppended DEF Longer
      <3> QED BY <1>1, <1>3, <3>1, <3>2 DEF Remembered
    <2> QED BY <2>1, <2>3, <2>4, <2>5, <2>6 DEF Remembered
  <1>5. file' \in Seq(Line)
    BY <1>1 DEF Longer
  <1> QED BY <1>1, <1>3, <1>4, <1>5 DEF ReadSoFar

LEMMA OpenSectionReads ==
    ASSUME ReadSoFar, NEW line \in Lines, OpenSection(line)
    PROVE  ReadSoFar'
  <1>1. line \in Line /\ file \in Seq(Line) /\ Headed(file) /\ Settled(file) /\ Remembered(file)
        /\ verdict = "reading" /\ Longer(file', file, line)
        /\ UNCHANGED <<origin, blocks, given, verdict>> /\ section' = line.name
        /\ opened' = opened \cup {line.name}
        /\ line.is = "header" /\ line.name \in Sections \ opened
    BY LinesAreLines, Appended DEF ReadSoFar, OpenSection, OpensSection, Take
  <1>2. HeadsIn(file, line.name) = {}
    BY <1>1 DEF Remembered
  <1>3. /\ Headed(file') /\ Settled(file') /\ SettingsIn(file') = SettingsIn(file)
        /\ {IdIn(file', i) : i \in SettingsIn(file')} = {IdIn(file, i) : i \in SettingsIn(file)}
    BY <1>1, <1>2, HeaderTaken
  <1>4. Remembered(file)'
    <2>1. section' = SectionIn(file', Len(file'))
      BY <1>1, HeadersAppended
    <2>2. /\ \A name : name # line.name => HeadsIn(file', name) = HeadsIn(file, name)
          /\ HeadsIn(file', line.name) # {}
      BY <1>1, HeadCounted
    <2>3. blocks' = [b \in Blocks |-> Cardinality(HeadsIn(file', b))]
      <3>1. \A b \in Blocks : b # line.name
        BY <1>1 DEF Blocks, Sections
      <3> QED BY <1>1, <2>2, <3>1 DEF Remembered
    <2>4. opened' = {name \in Sections : HeadsIn(file', name) # {}}
      BY <1>1, <2>2 DEF Remembered
    <2>5. DOMAIN given' = {IdIn(file', i) : i \in SettingsIn(file')}
      BY <1>1, <1>3 DEF Remembered
    <2>6. \A i \in SettingsIn(file') : given'[IdIn(file', i)] = file'[i].value
      <3>1. \A i \in SettingsIn(file) : i \in DOMAIN file
        BY DEF SettingsIn
      <3>2. \A i \in DOMAIN file : file'[i] = file[i] /\ IdIn(file', i) = IdIn(file, i)
        BY <1>1, IdsAppended DEF Longer
      <3> QED BY <1>1, <1>3, <3>1, <3>2 DEF Remembered
    <2> QED BY <2>1, <2>3, <2>4, <2>5, <2>6 DEF Remembered
  <1>5. file' \in Seq(Line)
    BY <1>1 DEF Longer
  <1> QED BY <1>1, <1>3, <1>4, <1>5 DEF ReadSoFar

\* A setting that is taken.
LEMMA AssignReadsOn ==
    ASSUME ReadSoFar, NEW line \in Lines, Assign(line)
    PROVE  ReadSoFar'
  <1> DEFINE n == Len(file')
             id == Id(line.name)
  <1>1. line \in Line /\ file \in Seq(Line) /\ Headed(file) /\ Settled(file) /\ Remembered(file)
        /\ verdict = "reading" /\ Longer(file', file, line)
        /\ UNCHANGED <<origin, blocks, opened, section, verdict>>
        /\ given' = [k \in DOMAIN given \cup {id} |-> IF k = id THEN line.value ELSE given[k]]
        /\ line.is = "setting" /\ id \notin DOMAIN given /\ Cardinality(DOMAIN given) < MaxKeys
        /\ line.value \in Takes(section, line.name)
    BY LinesAreLines, Appended DEF ReadSoFar, Assign, Assigns, Fresh, Take
  <1>2. /\ file' \in Seq(Line) /\ n = Len(file) + 1 /\ file'[n] = line
        /\ DOMAIN file' = DOMAIN file \cup {n} /\ n \notin DOMAIN file
        /\ \A i \in DOMAIN file : file'[i] = file[i]
    BY <1>1 DEF Longer
  <1>3. SettingsIn(file') = SettingsIn(file) \cup {n} /\ SettingsIn(file) \subseteq DOMAIN file
    BY <1>1, <1>2 DEF SettingsIn
  <1>4. \A name : HeadsIn(file', name) = HeadsIn(file, name)
    BY <1>1, <1>2 DEF HeadsIn
  <1>5. IdIn(file', n) = id /\ \A i \in DOMAIN file : IdIn(file', i) = IdIn(file, i)
    BY <1>1, NextId, IdsAppended
  <1>6. SectionIn(file', n) = section
        /\ \A i \in DOMAIN file : SectionIn(file', i) = SectionIn(file, i)
    BY <1>1, HeadersAppended DEF Remembered
  <1>7. Headed(file')
    BY <1>1, <1>2, <1>4 DEF Headed
  <1>8. Settled(file')
    <2>1. \A i \in DOMAIN file' : file'[i].is # "junk"
      BY <1>1, <1>2 DEF Settled
    <2>2. \A i \in SettingsIn(file') : file'[i].value \in Takes(SectionIn(file', i), file'[i].name)
      BY <1>1, <1>2, <1>3, <1>6 DEF Settled
    <2>3. \A i \in SettingsIn(file) : IdIn(file', i) # id
      BY <1>1, <1>3, <1>5 DEF Remembered
    <2>4. \A i, j \in SettingsIn(file') : IdIn(file', i) = IdIn(file', j) => i = j
      BY <1>1, <1>3, <1>5, <2>3 DEF Settled
    <2>5. Cardinality(SettingsIn(file')) = Cardinality(SettingsIn(file)) + 1
      BY <1>1, <1>2, <1>3, SettingsAreNumbers, FS_AddElement
    <2>6. Cardinality(SettingsIn(file)) < MaxKeys /\ Cardinality(SettingsIn(file)) \in Nat
      BY <1>1, AsManyKeys, SettingsAreNumbers, FS_CardinalityType
    <2>7. Cardinality(SettingsIn(file')) <= MaxKeys
      BY <2>5, <2>6, ConfigFileAssumption
    <2> QED BY <2>1, <2>2, <2>4, <2>7 DEF Settled
  <1>9. Remembered(file)'
    <2>1. section' = SectionIn(file', Len(file'))
      BY <1>1, <1>6
    <2>2. blocks' = [b \in Blocks |-> Cardinality(HeadsIn(file', b))]
      BY <1>1, <1>4 DEF Remembered
    <2>3. opened' = {name \in Sections : HeadsIn(file', name) # {}}
      BY <1>1, <1>4 DEF Remembered
    <2>4. DOMAIN given' = DOMAIN given \cup {id}
      BY <1>1
    <2>5. {IdIn(file', i) : i \in SettingsIn(file')} = {IdIn(file, i) : i \in SettingsIn(file)} \cup {id}
      BY <1>3, <1>5
    <2>6. DOMAIN given' = {IdIn(file', i) : i \in SettingsIn(file')}
      BY <1>1, <2>4, <2>5 DEF Remembered
    <2>7. given'[id] = line.value /\ \A k \in DOMAIN given : given'[k] = given[k]
      BY <1>1
    <2>8. ASSUME NEW i \in SettingsIn(file') PROVE given'[IdIn(file', i)] = file'[i].value
      <3>1. CASE i = n
        BY <1>2, <1>5, <2>7, <3>1
      <3>2. CASE i \in SettingsIn(file)
        <4>1. IdIn(file, i) \in DOMAIN given /\ given[IdIn(file, i)] = file[i].value
          BY <1>1, <3>2 DEF Remembered
        <4> QED BY <1>2, <1>3, <1>5, <2>7, <3>2, <4>1
      <3> QED BY <1>3, <3>1, <3>2
    <2> QED BY <2>1, <2>2, <2>3, <2>6, <2>8 DEF Remembered
  <1> QED BY <1>1, <1>2, <1>7, <1>8, <1>9 DEF ReadSoFar

\* A line that is not taken makes the file ill-formed.
LEMMA RejectReads ==
    ASSUME ReadSoFar, NEW line \in Lines, Reject(line)
    PROVE  ReadSoFar'
  <1> DEFINE n == Len(file')
  <1>1. line \in Line /\ file \in Seq(Line) /\ Headed(file) /\ Settled(file) /\ Remembered(file)
        /\ Longer(file', file, line) /\ verdict' = "malformed" /\ UNCHANGED origin
        /\ ~OpensBlock(line) /\ ~OpensSection(line) /\ ~Assigns(line)
    BY LinesAreLines, Appended DEF ReadSoFar, Reject, Take
  <1>2. /\ file' \in Seq(Line) /\ n = Len(file) + 1 /\ file'[n] = line
        /\ DOMAIN file' = DOMAIN file \cup {n} /\ n \notin DOMAIN file
        /\ \A i \in DOMAIN file : file'[i] = file[i]
    BY <1>1 DEF Longer
  <1>a. SUFFICES ASSUME Fits(file') PROVE FALSE
    BY <1>1, <1>2 DEF ReadSoFar
  <1>3. CASE line.is = "junk"
    BY <1>2, <1>3, <1>a DEF Fits
  <1>4. CASE line.is = "header"
    <2> DEFINE c == Cardinality(HeadsIn(file, line.name))
    <2>1. Cardinality(HeadsIn(file', line.name)) = c + 1 /\ c \in Nat
      BY <1>1, <1>4, HeadCounted
    <2>3. c + 1 <= CASE line.name \in Blocks   -> Limit[line.name]
                     [] line.name \in Sections -> 1
                     [] OTHER                  -> 0
      BY <1>2, <1>4, <1>a, <2>1 DEF Fits
    <2> HIDE DEF c
    <2>4. CASE line.name \in Blocks
      <3>1. ~(c < Limit[line.name])
        BY <1>1, <1>4, <2>4 DEF OpensBlock, Remembered, c
      <3>2. Limit[line.name] \in Nat
        BY <2>4, ConfigFileAssumption DEF Limit
      <3>3. line.name \notin Sections
        BY <2>4 DEF Blocks, Sections
      <3>4. c + 1 <= Limit[line.name]
        BY <2>3, <2>4, <3>3
      <3> QED BY <2>1, <3>1, <3>2, <3>4
    <2>5. CASE line.name \in Sections
      <3>1. HeadsIn(file, line.name) # {}
        BY <1>1, <1>4, <2>5 DEF OpensSection, Remembered
      <3>2. c # 0
        BY <1>1, <3>1, HeadsAreNumbers, FS_EmptySet DEF c
      <3>3. line.name \notin Blocks
        BY <2>5 DEF Blocks, Sections
      <3>4. c + 1 <= 1
        BY <2>3, <2>5, <3>3
      <3> QED BY <2>1, <3>2, <3>4
    <2>6. CASE line.name \notin Blocks \cup Sections
      <3>1. c + 1 <= 0
        BY <2>3, <2>6
      <3> QED BY <2>1, <3>1
    <2> QED BY <2>4, <2>5, <2>6
  <1>5. CASE line.is = "setting"
    <2>1. IdIn(file', n) = Id(line.name) /\ \A i \in DOMAIN file : IdIn(file', i) = IdIn(file, i)
      BY <1>1, <1>5, NextId, IdsAppended
    <2>2. SectionIn(file', n) = section
      BY <1>1, <1>5, HeadersAppended DEF Remembered
    <2>3. CASE ~Fresh(line.name)
      <3>1. PICK i \in SettingsIn(file) : IdIn(file, i) = Id(line.name)
        BY <1>1, <2>3 DEF Fresh, Remembered
      <3>2. i \in DOMAIN file /\ file[i].is = "setting"
        BY DEF SettingsIn
      <3>3. IdIn(file', i) = IdIn(file', n)
        BY <2>1, <3>1, <3>2
      <3>4. Headed(file')
        <4>1. \A name : HeadsIn(file', name) = HeadsIn(file, name)
          BY <1>2, <1>5 DEF HeadsIn
        <4> QED BY <1>1, <1>2, <1>5, <4>1 DEF Headed
      <3>5. HeaderIn(file', i) = HeaderIn(file', n) /\ file'[i].name = file'[n].name
        BY <1>2, <3>2, <3>3, <3>4, SameId
      <3>6. i \in LinesIn(file', HeaderIn(file', n), file'[n].name)
        BY <1>2, <3>2, <3>5 DEF LinesIn
      <3> QED BY <1>2, <1>5, <1>a, <3>2, <3>6 DEF Fits
    <2>4. CASE ~(Cardinality(DOMAIN given) < MaxKeys)
      <3>1. Cardinality(SettingsIn(file)) \in Nat /\ ~(Cardinality(SettingsIn(file)) < MaxKeys)
        BY <1>1, <2>4, AsManyKeys, SettingsAreNumbers, FS_CardinalityType
      <3>2. SettingsIn(file') = SettingsIn(file) \cup {n} /\ n \notin SettingsIn(file)
        BY <1>2, <1>5 DEF SettingsIn
      <3>3. Cardinality(SettingsIn(file')) = Cardinality(SettingsIn(file)) + 1
        BY <1>1, <3>2, SettingsAreNumbers, FS_AddElement
      <3>4. ~(Cardinality(SettingsIn(file')) <= MaxKeys)
        BY <3>1, <3>3, ConfigFileAssumption
      <3> QED BY <1>a, <3>4 DEF Fits
    <2>5. CASE line.value \notin Takes(section, line.name)
      BY <1>2, <1>5, <1>a, <2>2, <2>5 DEF Fits
    <2> QED BY <1>1, <1>5, <2>3, <2>4, <2>5 DEF Assigns
  <1>6. line.is \in {"header", "setting", "junk"}
    BY <1>1 DEF Line
  <1> QED BY <1>3, <1>4, <1>5, <1>6

\* The end of the file changes nothing.
LEMMA ReadingOn ==
    ASSUME ReadSoFar, [ConfigNext]_configVars
    PROVE  ReadSoFar'
  <1>1. CASE UNCHANGED configVars
    BY <1>1 DEF configVars, ReadSoFar, Remembered
  <1>2. CASE Eof
    BY <1>2 DEF Eof, ReadSoFar, Remembered
  <1>3. ASSUME NEW line \in Lines, OpenBlock(line) \/ OpenSection(line) \/ Assign(line) \/ Reject(line)
        PROVE  ReadSoFar'
    BY <1>3, OpenBlockReads, OpenSectionReads, AssignReadsOn, RejectReads
  <1> QED BY <1>1, <1>2, <1>3 DEF ConfigNext

LEMMA ReadingInductive == InputsSpec => []ReadSoFar
  <1>1. InputsInit => ReadSoFar
    <2> SUFFICES ASSUME InputsInit PROVE ReadSoFar
      OBVIOUS
    <2>1. origin \in Files /\ section = "" /\ blocks = [b \in Blocks |-> 0] /\ opened = {}
          /\ verdict = "reading"
      BY DEF InputsInit, ConfigInit
    <2>2. file \in Seq(Line) /\ DOMAIN file = {} /\ Len(file) = 0 /\ DOMAIN given = {}
      <3>1. file = <<>>
        BY DEF InputsInit, ConfigInit
      <3>2. file \in Seq(Line) /\ Len(file) = 0 /\ DOMAIN file = {}
        BY <3>1
      <3>3. given = <<>>
        BY DEF InputsInit, ConfigInit
      <3>4. DOMAIN given = {}
        BY <3>3
      <3> QED BY <3>2, <3>4
    <2>3. SettingsIn(file) = {} /\ \A name : HeadsIn(file, name) = {}
      BY <2>2 DEF SettingsIn, HeadsIn
    <2>4. Cardinality({}) = 0
      BY FS_EmptySet
    <2>5. Headed(file)
      <3>1. \A b \in Blocks : 0 <= Limit[b]
        BY ConfigFileAssumption DEF Limit
      <3> QED BY <2>2, <2>3, <2>4, <3>1 DEF Headed
    <2>6. Settled(file)
      BY <2>2, <2>3, <2>4, ConfigFileAssumption DEF Settled
    <2>7. SectionIn(file, Len(file)) = ""
      <3>1. HeaderIn(file, 0) \in 0 .. 0
        <4>1. 0 \in 0 .. Len(file)
          BY <2>2
        <4> QED BY <2>2, <4>1, LastHeader
      <3> QED BY <2>2, <3>1 DEF SectionIn
    <2>8. Remembered(file)
      BY <2>1, <2>2, <2>3, <2>4, <2>7 DEF Remembered
    <2> QED BY <2>1, <2>2, <2>5, <2>6, <2>8 DEF ReadSoFar
  <1>2. ReadSoFar /\ [InputsNext]_inputVars => ReadSoFar'
    BY ReadingOn DEF InputsNext, inputVars
  <1> QED BY <1>1, <1>2, PTL DEF InputsSpec

----------------------------------------------------------------------------
(* What the accepted file comes to.                                        *)

RuleHeads == HeadsIn(file, "tcp.rule")

\* What stands under the header of a rule is what has been kept for the rule.
LEMMA KeptAsWritten ==
    ASSUME ReadSoFar, verdict # "malformed", NEW h \in RuleHeads
    PROVE  \A key, default : Written(h, key, default) = Value("tcp.rule", Rank(RuleHeads, h), key, default)
  <1>1. /\ file \in Seq(Line) /\ Headed(file)
        /\ DOMAIN given = {IdIn(file, i) : i \in SettingsIn(file)}
        /\ \A i \in SettingsIn(file) : given[IdIn(file, i)] = file[i].value
    BY DEF ReadSoFar, Remembered
  <1>2. h \in 1 .. Len(file) /\ file[h].is = "header" /\ file[h].name = "tcp.rule"
    BY <1>1 DEF RuleHeads, HeadsIn
  <1>3. "tcp.rule" \in Blocks
    BY DEF Blocks
  <1> SUFFICES ASSUME NEW key, NEW default
               PROVE  Written(h, key, default) = Value("tcp.rule", Rank(RuleHeads, h), key, default)
    OBVIOUS
  <1> DEFINE id == <<"tcp.rule", Rank(RuleHeads, h), key>>
  <1>4. \A i : HeaderOf(i) = HeaderIn(file, i)
    BY DEF HeaderOf, HeaderIn
  <1>5. LinesOf(h, key) = LinesIn(file, h, key)
    BY <1>4 DEF LinesOf, LinesIn
  <1>6. ASSUME NEW i \in LinesIn(file, h, key)
        PROVE  i \in SettingsIn(file) /\ IdIn(file, i) = id
    <2>1. i \in SettingsIn(file) /\ HeaderIn(file, i) = h /\ file[i].name = key
      BY DEF LinesIn, SettingsIn
    <2>2. SectionIn(file, i) = "tcp.rule"
      BY <1>2, <2>1 DEF SectionIn
    <2> QED BY <1>3, <2>1, <2>2 DEF IdIn, RuleHeads
  <1>7. ASSUME NEW i \in SettingsIn(file), IdIn(file, i) = id
        PROVE  i \in LinesIn(file, h, key)
    <2>1. /\ i \in 1 .. Len(file) /\ i \in 0 .. Len(file) /\ file[i].is = "setting"
      BY <1>1 DEF SettingsIn
    <2>2. SectionIn(file, i) = "tcp.rule" /\ file[i].name = key
      BY <1>7 DEF IdIn
    <2>3. Rank(RuleHeads, HeaderIn(file, i)) = Rank(RuleHeads, h)
      BY <1>3, <1>7, <2>2 DEF IdIn, RuleHeads
    <2>4. HeaderIn(file, i) # 0
      BY <1>1, <1>3, <2>1, <2>2, NoHeaderNoSection
    <2>5. HeaderIn(file, i) \in RuleHeads
      BY <1>1, <2>1, <2>2, <2>4, UnderItsHeader DEF RuleHeads
    <2>6. RuleHeads \in SUBSET Int /\ IsFiniteSet(RuleHeads)
      BY <1>1, HeadsAreNumbers DEF RuleHeads
    <2>7. \A x, y \in RuleHeads : Rank(RuleHeads, x) = Rank(RuleHeads, y) => x = y
      BY <2>6, RankDistinguishes
    <2>8. HeaderIn(file, i) = h
      BY <2>3, <2>5, <2>7, Zenon
    <2> QED BY <1>1, <2>1, <2>2, <2>8 DEF LinesIn
  <1>8. CASE LinesOf(h, key) = {}
    <2>1. id \notin DOMAIN given
      BY <1>1, <1>5, <1>7, <1>8
    <2> QED BY <1>8, <2>1 DEF Written, Value
  <1>9. CASE LinesOf(h, key) # {}
    <2> DEFINE i == CHOOSE i \in LinesOf(h, key) : TRUE
    <2>1. i \in LinesIn(file, h, key)
      BY <1>5, <1>9
    <2> HIDE DEF i
    <2>2. id \in DOMAIN given /\ given[id] = file[i].value
      BY <1>1, <1>6, <2>1
    <2>3. Written(h, key, default) = file[i].value
      BY <1>9 DEF Written, i
    <2> QED BY <2>2, <2>3 DEF Value
  <1> QED BY <1>8, <1>9

\* The n-th in ascending order.
LEMMA NthOfAscending ==
    ASSUME NEW S \in SUBSET Int, IsFiniteSet(S), NEW n \in 1 .. Cardinality(S)
    PROVE  Ascending(S)[n] \in S /\ Rank(S, Ascending(S)[n]) = n
  <1>1. Ascending(S)[n] = CHOOSE x \in S : Rank(S, x) = n
    BY DEF Ascending
  <1>2. \E x \in S : Rank(S, x) = n
    BY RankReached
  <1> QED BY <1>1, <1>2

LEMMA RotatesAsWritten ==
    ASSUME ReadSoFar, verdict = "accepted", Occurrences("tcp.rule") # {}
    PROVE  RotationWritten = [n \in DOMAIN RuleMap |-> <<Rules[RuleMap[n]].type, Rules[RuleMap[n]].payload>>]
  <1> DEFINE H == RuleHeads
             m == Cardinality(H)
             r(h) == Rank(H, h)
             Heads == {h \in H : Written(h, "enabled", "true") = "true"}
             f == [h \in Heads |-> r(h)]
  <1>1. file \in Seq(Line) /\ blocks = [b \in Blocks |-> Cardinality(HeadsIn(file, b))]
    BY DEF ReadSoFar, Remembered
  <1>2. H = Occurrences("tcp.rule") /\ H \in SUBSET Int /\ IsFiniteSet(H)
    BY <1>1, HeadsAreNumbers DEF RuleHeads, HeadsIn, Occurrences
  <1>3. m \in Nat /\ m # 0 /\ blocks["tcp.rule"] = m
    BY <1>1, <1>2, FS_CardinalityType, FS_EmptySet DEF RuleHeads, Blocks
  <1>4. \A h \in H : \A key, default : Written(h, key, default) = Value("tcp.rule", r(h), key, default)
    BY KeptAsWritten
  <1>5. Rules = [i \in 1 .. m |-> Rule(Value("tcp.rule", i, "type", ""), Value("tcp.rule", i, "payload", ""),
                                       Value("tcp.rule", i, "enabled", "true"))]
    BY <1>3 DEF Rules
  <1>6. Enabled = {i \in 1 .. m : Value("tcp.rule", i, "enabled", "true") = "true"}
    BY <1>5 DEF Enabled, Rule
  <1> HIDE DEF H, m
  <1>7. \A h \in H : r(h) \in 1 .. m
    BY <1>2, RankInRange DEF m
  <1>8. \A i \in 1 .. m : \E h \in H : r(h) = i
    BY <1>2, RankReached DEF m
  <1>9. /\ Heads \in SUBSET Int /\ IsFiniteSet(Heads) /\ Enabled \in SUBSET Int
    BY <1>2, <1>3, <1>6, FS_Subset
  <1>10. f \in [Heads -> Enabled]
    BY <1>4, <1>6, <1>7
  <1>11. \A i \in Enabled : \E h \in Heads : f[h] = i
    BY <1>4, <1>6, <1>8
  <1>12. \A g, h \in Heads : g < h => f[g] < f[h]
    BY <1>2, RankIncreases
  <1>13. /\ IsFiniteSet(Enabled) /\ Cardinality(Enabled) = Cardinality(Heads)
         /\ \A h \in Heads : Rank(Enabled, f[h]) = Rank(Heads, h)
    BY <1>9, <1>10, <1>11, <1>12, RanksCarryOver
  <1>14. DOMAIN RuleMap = 1 .. Cardinality(Heads) /\ DOMAIN Ascending(Heads) = 1 .. Cardinality(Heads)
    BY <1>13 DEF RuleMap, Ascending
  <1>15. ASSUME NEW n \in 1 .. Cardinality(Heads)
         PROVE  RuleMap[n] = r(Ascending(Heads)[n]) /\ Ascending(Heads)[n] \in Heads
    <2>1. Ascending(Heads)[n] \in Heads /\ Rank(Heads, Ascending(Heads)[n]) = n
      BY <1>9, NthOfAscending
    <2>2. RuleMap[n] \in Enabled /\ Rank(Enabled, RuleMap[n]) = n
      BY <1>9, <1>13, NthOfAscending DEF RuleMap
    <2>3. f[Ascending(Heads)[n]] \in Enabled /\ Rank(Enabled, f[Ascending(Heads)[n]]) = n
      BY <1>10, <1>13, <2>1
    <2>4. \A x, y \in Enabled : Rank(Enabled, x) = Rank(Enabled, y) => x = y
      BY <1>9, <1>13, RankDistinguishes
    <2>5. RuleMap[n] = f[Ascending(Heads)[n]]
      BY <2>2, <2>3, <2>4, Zenon
    <2> QED BY <2>1, <2>5
  <1>16. ASSUME NEW n \in 1 .. Cardinality(Heads)
         PROVE  <<Written(Ascending(Heads)[n], "type", ""), Written(Ascending(Heads)[n], "payload", "")>>
                   = <<Rules[RuleMap[n]].type, Rules[RuleMap[n]].payload>>
    <2>1. Ascending(Heads)[n] \in H /\ RuleMap[n] = r(Ascending(Heads)[n])
      BY <1>15
    <2>2. RuleMap[n] \in 1 .. m
      BY <1>7, <2>1
    <2>3. /\ Rules[RuleMap[n]].type = Value("tcp.rule", RuleMap[n], "type", "")
          /\ Rules[RuleMap[n]].payload = Value("tcp.rule", RuleMap[n], "payload", "")
      BY <1>5, <2>2 DEF Rule
    <2> QED BY <1>4, <2>1, <2>3
  <1>17. RotationWritten = [n \in DOMAIN Ascending(Heads) |->
            <<Written(Ascending(Heads)[n], "type", ""), Written(Ascending(Heads)[n], "payload", "")>>]
    BY <1>2 DEF RotationWritten
  <1> QED BY <1>14, <1>16, <1>17

LEMMA AtMostMaxRules ==
    ASSUME ReadSoFar, verdict # "malformed"
    PROVE  blocks["tcp.rule"] \in 0 .. MaxRules
  <1>1. /\ file \in Seq(Line) /\ Cardinality(HeadsIn(file, "tcp.rule")) <= MaxRules
        /\ blocks["tcp.rule"] = Cardinality(HeadsIn(file, "tcp.rule"))
    BY DEF ReadSoFar, Remembered, Headed, Limit, Blocks
  <1>2. Cardinality(HeadsIn(file, "tcp.rule")) \in Nat
    BY <1>1, HeadsAreNumbers, FS_CardinalityType
  <1> QED BY <1>1, <1>2, ConfigFileAssumption

LEMMA EnabledAreRules ==
    ASSUME ReadSoFar, verdict # "malformed"
    PROVE  Enabled \in SUBSET (1 .. MaxRules) /\ IsFiniteSet(Enabled)
  <1>1. blocks["tcp.rule"] \in 0 .. MaxRules /\ MaxRules \in Nat \ {0, 1}
    BY AtMostMaxRules, ConfigFileAssumption
  <1>2. ASSUME blocks["tcp.rule"] # 0 PROVE Enabled \in SUBSET (1 .. MaxRules)
    <2>1. DOMAIN Rules = 1 .. blocks["tcp.rule"]
      BY <1>2 DEF Rules
    <2> QED BY <1>1, <2>1 DEF Enabled
  <1>3. ASSUME blocks["tcp.rule"] = 0 PROVE Enabled \in SUBSET (1 .. MaxRules)
    <2>1. Rules = Retired
      BY <1>3 DEF Rules
    <2>2. DOMAIN Retired \subseteq 1 .. 2
      <3> DEFINE S == {Primary, Https}
                 more == IF Tcp("https_hostname", "") # "" \/ Tcp("https_payload_file", "") # ""
                         THEN <<Https>> ELSE <<>>
      <3>1. <<Primary>> \in Seq(S) /\ Len(<<Primary>>) = 1
        OBVIOUS
      <3>2. more \in Seq(S) /\ Len(more) \in {0, 1}
        <4>1. <<Https>> \in Seq(S) /\ Len(<<Https>>) = 1 /\ <<>> \in Seq(S) /\ Len(<<>>) = 0
          OBVIOUS
        <4>2. more \in {<<>>, <<Https>>}
          BY Zenon
        <4> QED BY <4>1, <4>2, Zenon
      <3>3. Retired = <<Primary>> \o more
        BY DEF Retired
      <3> HIDE DEF more, S
      <3>4. Retired \in Seq(S) /\ Len(Retired) = 1 + Len(more)
        BY <3>1, <3>2, <3>3, ConcatProperties
      <3>5. DOMAIN Retired = 1 .. Len(Retired)
        BY <3>4
      <3>6. Len(Retired) = 1 \/ Len(Retired) = 2
        <4>1. \A k \in {0, 1} : 1 + k = 1 \/ 1 + k = 2
          OBVIOUS
        <4> QED BY <3>2, <3>4, <4>1, Zenon
      <3> QED BY <3>5, <3>6
    <2>3. DOMAIN Rules \subseteq 1 .. 2
      BY <2>1, <2>2
    <2> QED BY <1>1, <2>3 DEF Enabled
  <1>4. Enabled \in SUBSET (1 .. MaxRules)
    BY <1>2, <1>3
  <1>5. IsFiniteSet(1 .. MaxRules)
    BY <1>1, FS_Interval
  <1> QED BY <1>4, <1>5, FS_Subset

LEMMA PicksOfRendered ==
    ASSUME NEW plan \in 1 .. UdpPlan, Rendered(plan)
    PROVE  Asked(plan) \subseteq {plan} \X (0 .. VariantsOf(plan) - 1)
  <1> DEFINE v == VariantsOf(plan)
  <1>1. v \in Nat \ {0}
    BY ConfigFileAssumption DEF VariantsOf
  <1> HIDE DEF v
  <1>2. Max({v, 1}) = v
    <2>1. {v, 1} \in SUBSET Int /\ {v, 1} # {}
      BY <1>1
    <2>2. IsFiniteSet({v, 1})
      <3>1. {v, 1} = {v} \cup {1} /\ IsFiniteSet({v})
        BY FS_Singleton
      <3>2. IsFiniteSet({v} \cup {1})
        BY <3>1, FS_AddElement
      <3> QED BY <3>1, <3>2
    <2>3. Max({v, 1}) \in {v, 1} /\ \A y \in {v, 1} : y <= Max({v, 1})
      BY <2>1, <2>2, MaxOfFinite
    <2> QED BY <1>1, <2>3
  <1>3. \A n \in 0 .. Variants - 1 : n % v \in 0 .. v - 1
    BY <1>1
  <1> QED BY <1>2, <1>3 DEF Asked, v

LEMMA AsksForPublished ==
    ASSUME ReadSoFar, verdict = "accepted"
    PROVE  Picks \subseteq Published
  <1>1. Enabled \in SUBSET (1 .. MaxRules) /\ IsFiniteSet(Enabled) /\ Enabled \in SUBSET Int
    BY EnabledAreRules
  <1>2. UdpPlan \in 1 .. UdpPlan /\ 1 .. MaxRules \subseteq 1 .. UdpPlan
    BY ConfigFileAssumption DEF UdpPlan
  <1>3. Range(RuleMap) \subseteq Enabled
    <2>1. DOMAIN RuleMap = 1 .. Cardinality(Enabled)
      BY DEF RuleMap, Ascending
    <2>2. \A n \in DOMAIN RuleMap : RuleMap[n] \in Enabled
      BY <1>1, <2>1, NthOfAscending DEF RuleMap
    <2> QED BY <2>2 DEF Range
  <1>4. \A plan \in Range(RuleMap) \cup {UdpPlan} : plan \in 1 .. UdpPlan /\ Rendered(plan)
    BY <1>1, <1>2, <1>3 DEF Rendered
  <1>5. \A plan \in Range(RuleMap) \cup {UdpPlan} : Asked(plan) \subseteq {plan} \X (0 .. VariantsOf(plan) - 1)
    BY <1>4, PicksOfRendered
  <1>6. \A plan \in 1 .. UdpPlan : {plan} \X (0 .. VariantsOf(plan) - 1) \subseteq Published
    BY DEF Published
  <1> QED BY <1>4, <1>5, <1>6 DEF Picks

----------------------------------------------------------------------------
(* The option scan.                                                        *)

Bytes == 0 .. 255

\* The heads of a list are 1 and the bytes behind a whole option.
LEMMA HeadsAre ==
    ASSUME NEW list \in Seq(Bytes)
    PROVE  /\ Option!Heads(list) \subseteq 1 .. Len(list)
           /\ \A i \in 1 .. Len(list) :
                 i \in Option!Heads(list) <=>
                    \/ i = 1
                    \/ \E h \in Option!Heads(list) : /\ h < i /\ Option!Whole(list, h)
                                                     /\ h + Option!Size(list, h) = i
  <1> DEFINE n == Len(list)
             S == SUBSET (1 .. n)
             G == [i \in 1 .. n |-> [before \in S |-> Option!Joined(before, list, i)]]
             heads == CHOOSE f : f = [i \in 0 .. n |-> IF i = 0 THEN {} ELSE Option!Joined(f[i - 1], list, i)]
  <1>1. n \in Nat /\ {} \in S
    OBVIOUS
  <1>2. G \in [1 .. n -> [S -> S]]
    BY DEF Option!Joined
  <1>3. PICK f \in [0 .. n -> S] : f[0] = {} /\ \A i \in 1 .. n : f[i] = G[i][f[i - 1]]
    <2> DEFINE first == {}
    <2>1. first \in S
      OBVIOUS
    <2> HIDE DEF n, S, G, first
    <2>2. \E f \in [0 .. n -> S] : Runs(f, n, first, G)
      BY <1>1, <1>2, <2>1, Recursion
    <2> QED BY <2>2 DEF first, Runs
  <1>4. f = [i \in 0 .. n |-> IF i = 0 THEN {} ELSE Option!Joined(f[i - 1], list, i)]
    <2>1. ASSUME NEW i \in 0 .. n, i # 0 PROVE f[i] = Option!Joined(f[i - 1], list, i)
      <3>1. i \in 1 .. n /\ f[i - 1] \in S
        BY <1>1, <1>3, <2>1
      <3>2. G[i] = [before \in S |-> Option!Joined(before, list, i)]
        BY <3>1
      <3>3. G[i][f[i - 1]] = Option!Joined(f[i - 1], list, i)
        BY <3>1, <3>2
      <3> QED BY <1>3, <3>1, <3>3
    <2> QED BY <1>3, <2>1
  <1>5. heads = [i \in 0 .. n |-> IF i = 0 THEN {} ELSE Option!Joined(heads[i - 1], list, i)]
    BY <1>4
  <1>6. Option!Heads(list) = heads[n]
    BY DEF Option!Heads
  <1> HIDE DEF heads
  <1>7. heads[0] = {} /\ \A i \in 1 .. n : heads[i] = Option!Joined(heads[i - 1], list, i)
    BY <1>1, <1>5
  <1> DEFINE H == heads[n]
             sound == {i \in 0 .. n : /\ heads[i] \subseteq 1 .. i
                                      /\ \A k \in 1 .. i : heads[k - 1] = heads[i] \cap (1 .. k - 1)}
  <1>8. 0 \in sound
    BY <1>1, <1>7
  <1>9. ASSUME NEW i \in 0 .. n - 1, i \in sound PROVE i + 1 \in sound
    <2>1. heads[i + 1] = Option!Joined(heads[i], list, i + 1) /\ i + 1 \in 0 .. n
      BY <1>1, <1>7
    <2>2. heads[i + 1] \subseteq heads[i] \cup {i + 1} /\ heads[i] \subseteq heads[i + 1]
      BY <2>1 DEF Option!Joined
    <2>3. heads[i] \subseteq 1 .. i /\ \A k \in 1 .. i : heads[k - 1] = heads[i] \cap (1 .. k - 1)
      BY <1>9
    <2>4. heads[i + 1] \subseteq 1 .. i + 1
      BY <2>2, <2>3
    <2>5. heads[i] = heads[i + 1] \cap (1 .. i)
      BY <2>2, <2>3
    <2>6. ASSUME NEW k \in 1 .. i + 1 PROVE heads[k - 1] = heads[i + 1] \cap (1 .. k - 1)
      <3>1. CASE k = i + 1
        BY <2>5, <3>1
      <3>2. CASE k # i + 1
        BY <2>3, <2>5, <3>2
      <3> QED BY <3>1, <3>2
    <2> QED BY <2>1, <2>4, <2>6
  <1>10. n \in sound
    <2> HIDE DEF sound
    <2>1. 0 .. n \subseteq sound
      BY <1>1, <1>8, <1>9, Upwards
    <2> QED BY <1>1, <2>1
  <1>11. H \subseteq 1 .. n /\ \A k \in 1 .. n : heads[k - 1] = H \cap (1 .. k - 1)
    BY <1>10
  <1>12. \A k \in 1 .. n : k \in H <=> k \in heads[k]
    <2> SUFFICES ASSUME NEW k \in 1 .. n PROVE k \in H <=> k \in heads[k]
      OBVIOUS
    <2>1. CASE k = n
      BY <2>1
    <2>2. CASE k # n
      <3>1. k + 1 \in 1 .. n /\ (k + 1) - 1 = k
        BY <2>2
      <3>2. heads[k] = H \cap (1 .. k)
        BY <1>11, <3>1
      <3> QED BY <3>2
    <2> QED BY <2>1, <2>2
  <1>13. ASSUME NEW i \in 1 .. n
         PROVE  i \in H <=> \/ i = 1
                            \/ \E h \in H : h < i /\ Option!Whole(list, h) /\ h + Option!Size(list, h) = i
    <2>1. heads[i] = Option!Joined(heads[i - 1], list, i) /\ heads[i - 1] = H \cap (1 .. i - 1)
      BY <1>7, <1>11
    <2>2. i \notin heads[i - 1]
      BY <2>1
    <2>3. i \in heads[i] <=> (i = 1 \/ \E h \in heads[i - 1] : Option!Whole(list, h) /\ h + Option!Size(list, h) = i)
      BY <2>1, <2>2 DEF Option!Joined
    <2>4. \A h \in H : h \in heads[i - 1] <=> h < i
      BY <1>11, <2>1
    <2> QED BY <1>12, <2>1, <2>3, <2>4
  <1> QED BY <1>6, <1>11, <1>13

\* A whole option has a size, and the next one begins behind it.
LEMMA WholeOptions ==
    ASSUME NEW list \in Seq(Bytes), NEW h \in Option!Heads(list), Option!Whole(list, h)
    PROVE  /\ Option!Size(list, h) \in Nat \ {0}
           /\ h + Option!Size(list, h) <= Len(list) + 1
           /\ h + Option!Size(list, h) <= Len(list) => h + Option!Size(list, h) \in Option!Heads(list)
  <1>1. h \in 1 .. Len(list) /\ Len(list) \in Nat
    BY HeadsAre
  <1>2. Option!Size(list, h) \in Nat \ {0} /\ h + Option!Size(list, h) <= Len(list) + 1
    <2>1. CASE list[h] = Option!Nop
      BY <1>1, <2>1 DEF Option!Size
    <2>2. CASE list[h] # Option!Nop
      <3>1. ~Option!Malformed(list, h)
        BY <2>2 DEF Option!Whole
      <3>2. h + 1 \in 1 .. Len(list)
        BY <1>1, <3>1 DEF Option!Malformed
      <3>3. list[h + 1] \in Nat
        <4>1. list[h + 1] \in Bytes
          BY <3>2
        <4>2. \A byte \in Bytes : byte \in Nat
          BY DEF Bytes
        <4> QED BY <4>1, <4>2, Zenon
      <3>4. list[h + 1] >= 2 /\ h + list[h + 1] <= Len(list) + 1
        BY <1>1, <3>1, <3>3 DEF Option!Malformed
      <3> QED BY <1>1, <2>2, <3>3, <3>4 DEF Option!Size
    <2> QED BY <2>1, <2>2
  <1> DEFINE k == h + Option!Size(list, h)
  <1>3. ASSUME k <= Len(list) PROVE k \in Option!Heads(list)
    <2>1. k \in 1 .. Len(list) /\ h < k
      BY <1>1, <1>2, <1>3
    <2> QED BY <2>1, HeadsAre
  <1> QED BY <1>2, <1>3

\* Options do not overlap.
LEMMA OptionsApart ==
    ASSUME NEW list \in Seq(Bytes)
    PROVE  \A h, k \in Option!Heads(list) :
              h < k => Option!Whole(list, h) /\ h + Option!Size(list, h) <= k
  <1> DEFINE H == Option!Heads(list)
             n == Len(list)
             Behind(h, k) == h < k => Option!Whole(list, h) /\ h + Option!Size(list, h) <= k
             apart == {i \in 0 .. n : \A h, k \in H : k <= i => Behind(h, k)}
  <1>1. H \subseteq 1 .. n /\ n \in Nat
    BY HeadsAre
  <1>2. 0 \in apart
    BY <1>1
  <1>3. ASSUME NEW i \in 0 .. n - 1, i \in apart PROVE i + 1 \in apart
    <2> SUFFICES ASSUME NEW h \in H, i + 1 \in H, h < i + 1 PROVE Behind(h, i + 1)
      <3>1. \A x, k \in H : k <= i + 1 => k <= i \/ k = i + 1
        BY <1>1
      <3> QED BY <1>1, <1>3, <3>1
    <2>1. PICK g \in H : g < i + 1 /\ Option!Whole(list, g) /\ g + Option!Size(list, g) = i + 1
      <3>1. i + 1 \in 1 .. n /\ i + 1 # 1
        BY <1>1
      <3> QED BY <3>1, HeadsAre
    <2>2. Option!Size(list, g) \in Nat \ {0}
      BY <2>1, WholeOptions
    <2>3. CASE h = g
      BY <2>1, <2>3
    <2>4. CASE h < g
      <3>1. Behind(h, g)
        BY <1>1, <1>3, <2>1
      <3>2. Option!Size(list, h) \in Nat
        BY <2>4, <3>1, WholeOptions
      <3> QED BY <1>1, <2>1, <2>4, <3>1, <3>2
    <2>5. CASE g < h
      <3>1. Behind(g, h)
        BY <1>1, <1>3
      <3> QED BY <1>1, <2>1, <2>2, <2>5, <3>1
    <2> QED BY <1>1, <2>3, <2>4, <2>5
  <1>4. n \in apart
    <2> HIDE DEF apart
    <2>1. 0 .. n \subseteq apart
      BY <1>1, <1>2, <1>3, Upwards
    <2> QED BY <1>1, <2>1
  <1> QED BY <1>1, <1>4

\* What the scan makes of byte b.
Covered(list, b) ==
    \E h \in Option!Heads(list) :
        list[h] = Option!FastOpen /\ b \in h .. h + Option!Size(list, h) - 1
Final(list, strip, b) == IF strip /\ Covered(list, b) THEN Option!Nop ELSE list[b]

Good(list, h) ==
    list[h] = Option!EndOfList \/ (Option!Whole(list, h) /\ list[h] \notin Option!Auth)

ScanStates(list) ==
    [next : Int, nopUntil : Int, replacement : [1 .. Len(list) -> Bytes],
     changed : BOOLEAN, rejected : BOOLEAN, over : BOOLEAN]

\* The scan has come to byte i, somewhere in an option that ends before next.
UnderWay(s, list, i, strip) ==
    /\ ~s.rejected
    /\ s.next \in i .. Len(list) + 1 /\ s.nopUntil <= s.next
    /\ s.next <= Len(list) => s.next \in Option!Heads(list)
    /\ \A h \in Option!Heads(list) : (h < i => Good(list, h)) /\ (h >= i => h >= s.next)
    /\ \A b \in 1 .. Len(list) : s.replacement[b] = IF b < i THEN Final(list, strip, b) ELSE list[b]
    /\ \A b \in i .. s.next - 1 : (strip /\ Covered(list, b)) <=> b < s.nopUntil

\* The scan knows what to do.
Decided(s, list, strip) ==
    IF s.rejected THEN ~Option!Sane(list)
    ELSE /\ Option!Sane(list)
         /\ \A b \in 1 .. Len(list) : s.replacement[b] = Final(list, strip, b)

ScannedTo(s, list, i, strip) ==
    /\ s \in ScanStates(list)
    /\ ~s.changed => s.nopUntil = 1 /\ s.replacement = list
    /\ ~strip => ~s.changed
    /\ IF s.over THEN Decided(s, list, strip) ELSE UnderWay(s, list, i, strip)

LEMMA InsideScans ==
    ASSUME NEW list \in Seq(Bytes), NEW strip \in BOOLEAN, NEW i \in 1 .. Len(list), NEW s,
           ScannedTo(s, list, i, strip), ~s.over, i < s.next
    PROVE  ScannedTo(Option!Inside(s, i), list, i + 1, strip)
  <1> DEFINE t == Option!Inside(s, i)
  <1> SUFFICES ScannedTo(t, list, i + 1, strip)
    OBVIOUS
  <1>1. s \in ScanStates(list) /\ UnderWay(s, list, i, strip) /\ Len(list) \in Nat
    BY DEF ScannedTo
  <1>2. CASE i < s.nopUntil
    <2> DEFINE r == [s.replacement EXCEPT ![i] = 1]
    <2>1. t = [s EXCEPT !.replacement = r]
      BY <1>2 DEF Option!Inside, Option!Nop
    <2>2. s.changed /\ strip
      BY <1>2 DEF ScannedTo
    <2>3. r \in [1 .. Len(list) -> Bytes] /\ \A b \in 1 .. Len(list) : r[b] = IF b = i THEN 1 ELSE s.replacement[b]
      BY <1>1 DEF ScanStates, Bytes
    <2> HIDE DEF r, t
    <2>4. /\ t \in ScanStates(list) /\ t.changed = s.changed /\ t.over = s.over /\ t.rejected = s.rejected
          /\ t.next = s.next /\ t.nopUntil = s.nopUntil /\ t.replacement = r
      BY <1>1, <2>1, <2>3 DEF ScanStates
    <2>5. Final(list, strip, i) = 1
      BY <1>1, <1>2, <2>2 DEF UnderWay, Final, Option!Nop
    <2>6. UnderWay(t, list, i + 1, strip)
      <3>1. s.next \in Int /\ s.nopUntil \in Int
        BY <1>1 DEF ScanStates
      <3>2. t.next \in i + 1 .. Len(list) + 1 /\ t.nopUntil <= t.next /\ ~t.rejected
        BY <1>1, <2>4, <3>1 DEF UnderWay
      <3>3. \A h \in Option!Heads(list) : (h < i + 1 => Good(list, h)) /\ (h >= i + 1 => h >= t.next)
        BY <1>1, <2>4, <3>1, HeadsAre DEF UnderWay
      <3>4. \A b \in 1 .. Len(list) : t.replacement[b] = IF b < i + 1 THEN Final(list, strip, b) ELSE list[b]
        BY <1>1, <2>3, <2>4, <2>5 DEF UnderWay
      <3>5. \A b \in i + 1 .. t.next - 1 : (strip /\ Covered(list, b)) <=> b < t.nopUntil
        BY <1>1, <2>4, <3>1 DEF UnderWay
      <3> QED BY <1>1, <2>4, <3>2, <3>3, <3>4, <3>5 DEF UnderWay
    <2> QED BY <2>2, <2>4, <2>6 DEF ScannedTo
  <1>3. CASE ~(i < s.nopUntil)
    <2>1. t = s
      BY <1>3 DEF Option!Inside
    <2>4. Final(list, strip, i) = list[i]
      BY <1>1, <1>3 DEF UnderWay, Final
    <2>5. UnderWay(s, list, i + 1, strip)
      BY <1>1, <2>4, HeadsAre DEF UnderWay, ScanStates
    <2> HIDE DEF t
    <2> QED BY <1>1, <2>1, <2>5 DEF ScannedTo
  <1> QED BY <1>2, <1>3

\* The first byte of an option that begins after all whole options before it:
\* nothing before covers it, and nothing begins before it ends.
LEMMA AtNextHead ==
    ASSUME NEW list \in Seq(Bytes), NEW i \in Option!Heads(list)
    PROVE  /\ list[i] # Option!FastOpen => \A b \in i .. Len(list) :
                 Covered(list, b) => /\ Option!Whole(list, i)
                                     /\ b >= i + Option!Size(list, i)
           /\ list[i] = Option!FastOpen /\ Option!Whole(list, i) =>
                 \A b \in i .. i + Option!Size(list, i) - 1 : Covered(list, b)
           /\ ~Option!Whole(list, i) => \A h \in Option!Heads(list) : h <= i
  <1> DEFINE H == Option!Heads(list)
  <1>1. H \subseteq 1 .. Len(list) /\ Len(list) \in Nat
    BY HeadsAre
  <1>2. ASSUME list[i] # Option!FastOpen, NEW b \in i .. Len(list), Covered(list, b)
        PROVE  Option!Whole(list, i) /\ b >= i + Option!Size(list, i)
    <2>1. PICK h \in H : list[h] = Option!FastOpen /\ b \in h .. h + Option!Size(list, h) - 1
      BY <1>2 DEF Covered
    <2>2. h # i
      BY <1>2, <2>1
    <2>3. CASE h < i
      <3>1. Option!Whole(list, h) /\ h + Option!Size(list, h) <= i
        BY <2>3, OptionsApart
      <3>2. Option!Size(list, h) \in Nat
        BY <3>1, WholeOptions
      <3> QED BY <1>1, <2>1, <3>1, <3>2
    <2>4. CASE i < h
      <3>1. Option!Whole(list, i) /\ i + Option!Size(list, i) <= h
        BY <2>4, OptionsApart
      <3>2. Option!Size(list, i) \in Nat
        BY <3>1, WholeOptions
      <3> QED BY <1>1, <2>1, <3>1, <3>2
    <2> QED BY <1>1, <2>2, <2>3, <2>4
  <1>3. ~Option!Whole(list, i) => \A h \in H : h <= i
    BY <1>1, OptionsApart
  <1> QED BY <1>2, <1>3 DEF Covered

Strips(list, strip, i) == strip /\ list[i] = Option!FastOpen

\* A whole option is taken in at its first byte.
LEMMA Onwards ==
    ASSUME NEW list \in Seq(Bytes), NEW strip \in BOOLEAN, NEW i \in Option!Heads(list),
           NEW s \in ScanStates(list), UnderWay(s, list, i, strip), s.next = i,
           Option!Whole(list, i), Good(list, i),
           NEW t \in ScanStates(list), ~t.rejected, t.next = i + Option!Size(list, i),
           t.nopUntil = IF Strips(list, strip, i) THEN t.next ELSE s.nopUntil,
           \A b \in 1 .. Len(list) :
               t.replacement[b] = IF b = i /\ Strips(list, strip, i) THEN Option!Nop ELSE s.replacement[b]
    PROVE  UnderWay(t, list, i + 1, strip)
  <1> DEFINE H == Option!Heads(list)
             size == Option!Size(list, i)
             stripped == Strips(list, strip, i)
  <1>1. H \subseteq 1 .. Len(list) /\ i \in 1 .. Len(list) /\ Len(list) \in Nat
    BY HeadsAre
  <1>2. size \in Nat \ {0} /\ i + size <= Len(list) + 1 /\ (i + size <= Len(list) => i + size \in H)
    BY WholeOptions
  <1>3. s.nopUntil \in Int /\ s.nopUntil <= i
    BY DEF UnderWay, ScanStates
  <1>4. \A b \in 1 .. Len(list) : s.replacement[b] = IF b < i THEN Final(list, strip, b) ELSE list[b]
    BY DEF UnderWay
  <1> HIDE DEF size
  <1>5. t.next = i + size
    BY DEF size
  <1>6. t.next \in i + 1 .. Len(list) + 1 /\ t.nopUntil <= t.next /\ (t.next <= Len(list) => t.next \in H)
    BY <1>1, <1>2, <1>3, <1>5
  <1>7. \A h \in H : (h < i + 1 => Good(list, h)) /\ (h >= i + 1 => h >= t.next)
    <2> SUFFICES ASSUME NEW h \in H PROVE (h < i + 1 => Good(list, h)) /\ (h >= i + 1 => h >= t.next)
      OBVIOUS
    <2>1. h < i => Good(list, h)
      BY DEF UnderWay
    <2>2. i < h => i + size <= h
      BY OptionsApart DEF size
    <2> QED BY <1>1, <1>5, <2>1, <2>2
  <1>8. ASSUME Final(list, strip, i) = t.replacement[i]
        PROVE  \A b \in 1 .. Len(list) : t.replacement[b] = IF b < i + 1 THEN Final(list, strip, b) ELSE list[b]
    <2> SUFFICES ASSUME NEW b \in 1 .. Len(list)
                 PROVE  t.replacement[b] = IF b < i + 1 THEN Final(list, strip, b) ELSE list[b]
      OBVIOUS
    <2>1. CASE b = i
      BY <1>1, <1>8, <2>1
    <2>2. CASE b # i
      <3>1. t.replacement[b] = IF b < i THEN Final(list, strip, b) ELSE list[b]
        BY <1>4, <2>2
      <3>2. b < i + 1 <=> b < i
        BY <1>1, <2>2
      <3> QED BY <3>1, <3>2
    <2> QED BY <2>1, <2>2
  <1>9. CASE stripped
    <2>1. \A b \in i .. i + size - 1 : Covered(list, b)
      BY <1>9, AtNextHead DEF size, Strips
    <2>2. i \in i .. i + size - 1
      BY <1>1, <1>2
    <2>3. Final(list, strip, i) = t.replacement[i]
      BY <1>1, <1>9, <2>1, <2>2 DEF Final, Strips
    <2>4. \A b \in i + 1 .. t.next - 1 : (strip /\ Covered(list, b)) <=> b < t.nopUntil
      <3>1. \A b \in i + 1 .. t.next - 1 : b < t.nopUntil /\ b \in i .. i + size - 1
        BY <1>1, <1>2, <1>5, <1>9
      <3> QED BY <1>9, <2>1, <3>1 DEF Strips
    <2> QED BY <1>6, <1>7, <1>8, <2>3, <2>4 DEF UnderWay
  <1>10. CASE ~stripped
    <2>1. ASSUME NEW b \in i .. i + size - 1 PROVE ~(strip /\ Covered(list, b))
      <3>1. b \in i .. Len(list) /\ ~(b >= i + size)
        <4>1. i \in Int /\ size \in Int /\ Len(list) \in Int /\ i + size <= Len(list) + 1
          BY <1>1, <1>2
        <4>2. \A x, y, z \in Int : x + y <= z + 1 =>
                 \A c \in x .. x + y - 1 : c \in x .. z /\ ~(c >= x + y)
          OBVIOUS
        <4> QED BY <4>1, <4>2, Zenon
      <3> QED BY <1>10, <3>1, AtNextHead DEF size, Strips
    <2>2. i \in i .. i + size - 1
      BY <1>1, <1>2
    <2>3. Final(list, strip, i) = t.replacement[i]
      <3>1. Final(list, strip, i) = list[i]
        BY <2>1, <2>2 DEF Final
      <3>2. ~(i < i)
        BY <1>1
      <3> QED BY <1>1, <1>4, <1>10, <3>1, <3>2
    <2>4. \A b \in i + 1 .. t.next - 1 : (strip /\ Covered(list, b)) <=> b < t.nopUntil
      <3>1. \A b \in i + 1 .. t.next - 1 : ~(b < t.nopUntil) /\ b \in i .. i + size - 1
        BY <1>1, <1>2, <1>3, <1>5, <1>10
      <3> QED BY <2>1, <3>1
    <2> QED BY <1>6, <1>7, <1>8, <2>3, <2>4 DEF UnderWay
  <1> QED BY <1>9, <1>10

LEMMA HeadScans ==
    ASSUME NEW list \in Seq(Bytes), NEW strip \in BOOLEAN, NEW i \in 1 .. Len(list), NEW s,
           ScannedTo(s, list, i, strip), ~s.over, ~(i < s.next)
    PROVE  ScannedTo(Option!AtHead(s, list, i, strip), list, i + 1, strip)
  <1> DEFINE t == Option!AtHead(s, list, i, strip)
             H == Option!Heads(list)
  <1> SUFFICES ScannedTo(t, list, i + 1, strip)
    OBVIOUS
  <1>1. /\ s \in ScanStates(list) /\ UnderWay(s, list, i, strip) /\ Len(list) \in Nat
        /\ H \subseteq 1 .. Len(list)
    BY HeadsAre DEF ScannedTo
  <1>2. s.next = i /\ i \in H /\ s.nopUntil \in Int /\ s.nopUntil <= i
    BY <1>1 DEF UnderWay, ScanStates
  <1>3. /\ \A h \in H : h < i => Good(list, h)
        /\ \A b \in 1 .. Len(list) : s.replacement[b] = IF b < i THEN Final(list, strip, b) ELSE list[b]
    BY <1>1 DEF UnderWay
  \* The end of the list.
  <1>4. CASE list[i] = Option!EndOfList
    <2>1. t = [s EXCEPT !.over = TRUE]
      BY <1>4 DEF Option!AtHead, Option!EndOfList, Option!Nop
    <2>2. ~Option!Whole(list, i) /\ list[i] # Option!FastOpen
      BY <1>4 DEF Option!Whole, Option!EndOfList, Option!FastOpen
    <2>3. Good(list, i) /\ \A h \in H : h <= i
      BY <1>2, <1>4, <2>2, AtNextHead DEF Good
    <2>4. \A h \in H : Good(list, h)
      BY <1>1, <1>3, <2>3
    <2>5. Option!Sane(list)
      BY <2>4 DEF Option!Sane, Good
    <2>6. \A b \in i .. Len(list) : ~Covered(list, b)
      BY <1>2, <2>2, AtNextHead
    <2>7. \A b \in 1 .. Len(list) : s.replacement[b] = Final(list, strip, b)
      BY <1>3, <2>6 DEF Final
    <2> HIDE DEF t
    <2>8. /\ t \in ScanStates(list) /\ t.changed = s.changed /\ t.over = TRUE /\ t.rejected = s.rejected
          /\ t.nopUntil = s.nopUntil /\ t.replacement = s.replacement
      BY <1>1, <2>1 DEF ScanStates
    <2>9. Decided(t, list, strip)
      BY <1>1, <2>5, <2>7, <2>8 DEF Decided, UnderWay
    <2> QED BY <2>8, <2>9 DEF ScannedTo
  \* An option that does not fit, or authenticates.
  <1>5. CASE /\ list[i] \notin {Option!EndOfList, Option!Nop}
             /\ Option!Malformed(list, i) \/ list[i] \in Option!Auth
    <2>1. t = [s EXCEPT !.over = TRUE, !.rejected = TRUE]
      <3>1. t = Option!Sized(s, list, i, strip)
        BY <1>5 DEF Option!AtHead
      <3> QED BY <1>5, <3>1 DEF Option!Sized
    <2>2. ~Good(list, i)
      BY <1>5 DEF Good, Option!Whole
    <2>3. ~Option!Sane(list)
      BY <1>2, <2>2 DEF Option!Sane, Good
    <2> HIDE DEF t
    <2>4. /\ t \in ScanStates(list) /\ t.changed = s.changed /\ t.over = TRUE /\ t.rejected = TRUE
          /\ t.nopUntil = s.nopUntil /\ t.replacement = s.replacement
      BY <1>1, <2>1 DEF ScanStates
    <2> QED BY <2>3, <2>4 DEF ScannedTo, Decided
  \* One NOP.
  <1>6. CASE list[i] = Option!Nop
    <2>1. t = [s EXCEPT !.next = i + 1]
      BY <1>6 DEF Option!AtHead, Option!EndOfList, Option!Nop
    <2>2. /\ Option!Whole(list, i) /\ Option!Size(list, i) = 1 /\ Good(list, i)
          /\ list[i] # Option!FastOpen
      BY <1>6 DEF Option!Whole, Option!Size, Good, Option!EndOfList, Option!Nop, Option!FastOpen, Option!Auth
    <2> HIDE DEF t
    <2>3. /\ t \in ScanStates(list) /\ t.changed = s.changed /\ t.over = s.over /\ t.rejected = s.rejected
          /\ t.next = i + 1 /\ t.nopUntil = s.nopUntil /\ t.replacement = s.replacement
      BY <1>1, <2>1 DEF ScanStates
    <2>4. UnderWay(t, list, i + 1, strip)
      <3>1. ~Strips(list, strip, i)
        BY <2>2 DEF Strips
      <3>2. ~t.rejected /\ t.next = i + Option!Size(list, i)
        BY <1>1, <2>2, <2>3 DEF UnderWay
      <3> QED BY <1>1, <1>2, <2>2, <2>3, <3>1, <3>2, Onwards
    <2> QED BY <2>3, <2>4 DEF ScannedTo
  \* An option with a length.
  <1>7. CASE /\ list[i] \notin {Option!EndOfList, Option!Nop} \cup Option!Auth
             /\ ~Option!Malformed(list, i)
    <2>1. t = Option!Sized(s, list, i, strip)
      BY <1>7 DEF Option!AtHead
    <2>2. Option!Whole(list, i) /\ Option!Size(list, i) = list[i + 1] /\ Good(list, i)
      BY <1>7 DEF Option!Whole, Option!Size, Good
    <2> DEFINE next == i + list[i + 1]
    <2>3. next \in Int
      <3>1. Option!Size(list, i) \in Nat
        BY <1>2, <2>2, WholeOptions
      <3> QED BY <1>1, <1>2, <2>2, <3>1
    <2>4. CASE ~(list[i] = Option!FastOpen /\ strip)
      <3>1. t = [s EXCEPT !.next = next]
        BY <1>7, <2>1, <2>4 DEF Option!Sized
      <3> HIDE DEF t, next
      <3>2. /\ t \in ScanStates(list) /\ t.changed = s.changed /\ t.over = s.over /\ t.rejected = s.rejected
            /\ t.next = next /\ t.nopUntil = s.nopUntil /\ t.replacement = s.replacement
        BY <1>1, <2>3, <3>1 DEF ScanStates
      <3>3. UnderWay(t, list, i + 1, strip)
        <4>1. ~Strips(list, strip, i)
          BY <2>4 DEF Strips
        <4>2. ~t.rejected /\ t.next = i + Option!Size(list, i)
          BY <1>1, <2>2, <3>2 DEF UnderWay, next
        <4> QED BY <1>1, <1>2, <2>2, <3>2, <4>1, <4>2, Onwards
      <3> QED BY <3>2, <3>3 DEF ScannedTo
    <2>5. CASE list[i] = Option!FastOpen /\ strip
      <3> DEFINE r == [s.replacement EXCEPT ![i] = 1]
      <3>1. t = [s EXCEPT !.next = next, !.nopUntil = next, !.replacement = r, !.changed = TRUE]
        BY <1>7, <2>1, <2>5 DEF Option!Sized, Option!Nop
      <3>2. r \in [1 .. Len(list) -> Bytes] /\ \A b \in 1 .. Len(list) : r[b] = IF b = i THEN 1 ELSE s.replacement[b]
        BY <1>1 DEF ScanStates, Bytes
      <3> HIDE DEF t, next, r
      <3>3. /\ t \in ScanStates(list) /\ t.changed = TRUE /\ t.over = s.over /\ t.rejected = s.rejected
            /\ t.next = next /\ t.nopUntil = next /\ t.replacement = r
        BY <1>1, <2>3, <3>1, <3>2 DEF ScanStates
      <3>4. UnderWay(t, list, i + 1, strip)
        <4>1. Strips(list, strip, i)
          BY <2>5 DEF Strips
        <4>2. ~t.rejected /\ t.next = i + Option!Size(list, i) /\ t.nopUntil = t.next
          BY <1>1, <2>2, <3>3 DEF UnderWay, next
        <4>3. \A b \in 1 .. Len(list) :
                 t.replacement[b] = IF b = i /\ Strips(list, strip, i) THEN Option!Nop ELSE s.replacement[b]
          BY <3>2, <3>3, <4>1 DEF Option!Nop
        <4> QED BY <1>1, <1>2, <2>2, <3>3, <4>1, <4>2, <4>3, Onwards
      <3> QED BY <2>5, <3>3, <3>4 DEF ScannedTo
    <2> QED BY <2>4, <2>5
  <1> QED BY <1>4, <1>5, <1>6, <1>7

\* Every step keeps the kinds of a state, also one the scan never comes to.
LEMMA StepsTyped ==
    ASSUME NEW list \in Seq(Bytes), NEW strip \in BOOLEAN, NEW i \in 1 .. Len(list),
           NEW s \in ScanStates(list)
    PROVE  Option!Step(s, list, i, strip) \in ScanStates(list)
  <1> DEFINE r == [s.replacement EXCEPT ![i] = 1]
  <1>1. Len(list) \in Nat /\ r \in [1 .. Len(list) -> Bytes]
    BY DEF ScanStates, Bytes
  <1>2. Option!Inside(s, i) \in ScanStates(list)
    <2>1. Option!Inside(s, i) = IF i < s.nopUntil THEN [s EXCEPT !.replacement = r] ELSE s
      BY DEF Option!Inside, Option!Nop
    <2> HIDE DEF r
    <2> QED BY <1>1, <2>1 DEF ScanStates
  <1>3. Option!Sized(s, list, i, strip) \in ScanStates(list)
    <2> DEFINE next == i + list[i + 1]
    <2>1. CASE Option!Malformed(list, i) \/ list[i] \in Option!Auth
      <3>1. Option!Sized(s, list, i, strip) = [s EXCEPT !.over = TRUE, !.rejected = TRUE]
        BY <2>1 DEF Option!Sized
      <3> QED BY <3>1 DEF ScanStates
    <2>2. CASE ~(Option!Malformed(list, i) \/ list[i] \in Option!Auth)
      <3>1. i + 1 \in 1 .. Len(list)
        BY <2>2 DEF Option!Malformed
      <3>2. list[i + 1] \in Bytes
        BY <3>1
      <3>3. \A byte \in Bytes : i + byte \in Int
        BY DEF Bytes
      <3>4. next \in Int
        BY <3>2, <3>3
      <3>5. Option!Sized(s, list, i, strip) =
               IF list[i] = Option!FastOpen /\ strip
               THEN [s EXCEPT !.next = next, !.nopUntil = next, !.replacement = r, !.changed = TRUE]
               ELSE [s EXCEPT !.next = next]
        BY <2>2 DEF Option!Sized, Option!Nop
      <3> HIDE DEF next, r
      <3> QED BY <1>1, <3>4, <3>5 DEF ScanStates
    <2> QED BY <2>1, <2>2
  <1>4. Option!AtHead(s, list, i, strip) \in ScanStates(list)
    <2>1. CASE list[i] = Option!EndOfList
      <3>1. Option!AtHead(s, list, i, strip) = [s EXCEPT !.over = TRUE]
        BY <2>1 DEF Option!AtHead, Option!EndOfList, Option!Nop
      <3> QED BY <3>1 DEF ScanStates
    <2>2. CASE list[i] = Option!Nop
      <3>1. Option!AtHead(s, list, i, strip) = [s EXCEPT !.next = i + 1]
        BY <2>2 DEF Option!AtHead, Option!EndOfList, Option!Nop
      <3> QED BY <3>1 DEF ScanStates
    <2>3. CASE list[i] \notin {Option!EndOfList, Option!Nop}
      BY <1>3, <2>3 DEF Option!AtHead
    <2> QED BY <2>1, <2>2, <2>3
  <1> QED BY <1>2, <1>4 DEF Option!Step

LEMMA StepScans ==
    ASSUME NEW list \in Seq(Bytes), NEW strip \in BOOLEAN, NEW i \in 1 .. Len(list), NEW s,
           ScannedTo(s, list, i, strip)
    PROVE  ScannedTo(Option!Step(s, list, i, strip), list, i + 1, strip)
  <1>1. CASE s.over
    BY <1>1 DEF Option!Step, ScannedTo
  <1>2. CASE ~s.over /\ i < s.next
    BY <1>2, InsideScans DEF Option!Step
  <1>3. CASE ~s.over /\ ~(i < s.next)
    BY <1>3, HeadScans DEF Option!Step
  <1> QED BY <1>1, <1>2, <1>3

\* The scan decides as the list reads.
LEMMA ScanDecides ==
    ASSUME NEW list \in Seq(Bytes), NEW strip \in BOOLEAN
    PROVE  LET s == Option!Scanned(list, strip) IN
           /\ s.replacement \in [1 .. Len(list) -> Bytes]
           /\ ~s.changed => s.replacement = list
           /\ ~strip => ~s.changed
           /\ Decided(s, list, strip)
  <1> DEFINE n == Len(list)
             S == ScanStates(list)
             first == Option!Begin(list)
             G == [i \in 1 .. n |-> [s \in S |-> Option!Step(s, list, i, strip)]]
             state == CHOOSE f : f = [i \in 0 .. n |->
                         IF i = 0 THEN Option!Begin(list) ELSE Option!Step(f[i - 1], list, i, strip)]
  <1>1. n \in Nat /\ G \in [1 .. n -> [S -> S]]
    BY StepsTyped
  <1>2. /\ first \in S /\ ~first.over /\ ~first.changed /\ ~first.rejected
        /\ first.next = 1 /\ first.nopUntil = 1 /\ first.replacement = list
    <2>1. list \in [1 .. n -> Bytes]
      OBVIOUS
    <2> QED BY <2>1 DEF Option!Begin, ScanStates
  <1>3. PICK f \in [0 .. n -> S] : Runs(f, n, first, G)
    <2> HIDE DEF n, S, G, first
    <2> QED BY <1>1, <1>2, Recursion
  <1>4. f = [i \in 0 .. n |-> IF i = 0 THEN Option!Begin(list) ELSE Option!Step(f[i - 1], list, i, strip)]
    <2> HIDE DEF S
    <2>1. ASSUME NEW i \in 0 .. n, i # 0 PROVE f[i] = Option!Step(f[i - 1], list, i, strip)
      <3>1. i \in 1 .. n /\ f[i - 1] \in S
        BY <1>1, <1>3, <2>1
      <3>2. G[i] = [s \in S |-> Option!Step(s, list, i, strip)]
        BY <3>1
      <3>3. G[i][f[i - 1]] = Option!Step(f[i - 1], list, i, strip)
        BY <3>1, <3>2
      <3> QED BY <1>3, <3>1, <3>3 DEF Runs
    <2> QED BY <1>3, <2>1 DEF Runs
  <1>5. state = [i \in 0 .. n |->
                   IF i = 0 THEN Option!Begin(list) ELSE Option!Step(state[i - 1], list, i, strip)]
    BY <1>4
  <1>6. Option!Scanned(list, strip) = state[n]
    BY DEF Option!Scanned
  <1> HIDE DEF state
  <1>7. state[0] = first /\ \A i \in 1 .. n : state[i] = Option!Step(state[i - 1], list, i, strip)
    BY <1>1, <1>5
  <1> DEFINE done == {i \in 0 .. n : ScannedTo(state[i], list, i + 1, strip)}
  <1>8. 0 \in done
    <2>1. UnderWay(first, list, 1, strip)
      BY <1>1, <1>2, HeadsAre DEF UnderWay
    <2>2. ScannedTo(first, list, 0 + 1, strip)
      BY <1>2, <2>1 DEF ScannedTo
    <2> QED BY <1>1, <1>7, <2>2
  <1>9. ASSUME NEW i \in 0 .. n - 1, i \in done PROVE i + 1 \in done
    <2>1. i + 1 \in 1 .. n /\ (i + 1) - 1 = i
      BY <1>1
    <2>2. state[i + 1] = Option!Step(state[i], list, i + 1, strip)
      BY <1>7, <2>1
    <2> QED BY <1>9, <2>1, <2>2, StepScans
  <1>10. ScannedTo(state[n], list, n + 1, strip)
    <2> HIDE DEF done
    <2>1. 0 .. n \subseteq done
      BY <1>1, <1>8, <1>9, Upwards
    <2> QED BY <1>1, <2>1 DEF done
  <1> DEFINE s == state[n]
  <1> HIDE DEF s
  <1>11. ASSUME ~s.over PROVE Decided(s, list, strip)
    <2>1. UnderWay(s, list, n + 1, strip)
      BY <1>10, <1>11 DEF ScannedTo, s
    <2>2. Option!Sane(list)
      BY <1>1, <2>1, HeadsAre DEF UnderWay, Option!Sane, Good
    <2> QED BY <1>1, <2>1, <2>2 DEF UnderWay, Decided
  <1>12. Decided(s, list, strip)
    BY <1>10, <1>11 DEF ScannedTo, s
  <1>13. /\ s.replacement \in [1 .. Len(list) -> Bytes]
         /\ ~s.changed => s.replacement = list
         /\ ~strip => ~s.changed
    BY <1>10 DEF ScannedTo, ScanStates, s
  <1> QED BY <1>6, <1>12, <1>13 DEF s

\* A scan that rejects nothing leaves the list with its Fast Open options replaced.
LEMMA ScanReplaces ==
    ASSUME NEW list \in Seq(Bytes), NEW strip \in BOOLEAN
    PROVE  LET s == Option!Scanned(list, strip) IN
           /\ s.rejected <=> ~Option!Sane(list)
           /\ ~s.rejected => (IF s.changed THEN s.replacement ELSE list) =
                             (IF strip THEN Option!Stripped(list) ELSE list)
  <1> DEFINE s == Option!Scanned(list, strip)
  <1>1. /\ s.replacement \in [1 .. Len(list) -> Bytes] /\ Decided(s, list, strip)
        /\ ~s.changed => s.replacement = list
        /\ ~strip => ~s.changed
    BY ScanDecides
  <1> HIDE DEF s
  <1>2. s.rejected <=> ~Option!Sane(list)
    BY <1>1 DEF Decided
  <1>3. ASSUME ~s.rejected PROVE s.replacement = IF strip THEN Option!Stripped(list) ELSE list
    <2>1. \A b \in 1 .. Len(list) : s.replacement[b] = Final(list, strip, b)
      BY <1>1, <1>3 DEF Decided
    <2>2. CASE strip
      <3>1. Option!Stripped(list) = [b \in 1 .. Len(list) |-> Final(list, strip, b)]
        BY <2>2 DEF Option!Stripped, Final, Covered
      <3> QED BY <1>1, <2>1, <2>2, <3>1
    <2>3. CASE ~strip
      BY <1>1, <2>3
    <2> QED BY <2>2, <2>3
  <1>4. ~s.rejected => (IF s.changed THEN s.replacement ELSE list) =
                       (IF strip THEN Option!Stripped(list) ELSE list)
    BY <1>1, <1>3
  <1> QED BY <1>2, <1>4 DEF s

----------------------------------------------------------------------------
(* The invariant.                                                          *)

\* The scan decides whether the options are replaced, and by what.
Scanning ==
    /\ stage \in {"rewriting", "stored", "eligible"} => ~Scanned.rejected
    /\ stage \in {"rewriting", "stored"} => Scanned.changed
    /\ stage = "stored" => content = Scanned.replacement
    /\ stage = "eligible" => content = IF Scanned.changed THEN Scanned.replacement ELSE frame.options

InputsInv == InOrder /\ Accepted /\ Rewriting /\ Scanning /\ Read /\ Estimated

\* Reading the file happens before everything else.
LEMMA ReadingInv ==
    ASSUME InputsInv, ConfigNext, UNCHANGED packet
    PROVE  InputsInv'
  <1>1. verdict = "reading"
    BY DEF ConfigNext, OpenBlock, OpenSection, Assign, Reject, Take, Eof
  <1>2. stage = "none" /\ sent = 0
    BY <1>1 DEF InputsInv, InOrder, Estimated
  <1>3. stage' = "none" /\ sent' = 0 /\ inbound' \in BOOLEAN
    BY <1>2 DEF packet, InputsInv, InOrder
  <1>4. Read'
    <2>1. CASE UNCHANGED given
      BY <2>1 DEF InputsInv, Read
    <2>2. ASSUME NEW line, Assign(line) PROVE Read'
      BY <2>2, AssignReads DEF InputsInv
    <2> QED BY <2>1, <2>2 DEF ConfigNext, OpenBlock, OpenSection, Reject, Eof
  <1> QED BY <1>3, <1>4 DEF InputsInv, InOrder, Accepted, Looked, Rewriting, Scanning, Estimated

LEMMA HookInv ==
    ASSUME InputsInv, Hook, UNCHANGED configVars
    PROVE  InputsInv'
  <1>1. UNCHANGED <<given, verdict>> /\ Read'
    BY DEF configVars, InputsInv, Read
  <1>2. Mode' = Mode /\ EstimateHops' = EstimateHops
        /\ \A key, default : Amount(key, default)' = Amount(key, default)
    BY <1>1 DEF Mode, EstimateHops, Amount, Value
  <1>3. CASE Observe
    <2>1. stage = "none" /\ verdict = "accepted" /\ sent' = sent
      BY <1>3 DEF Observe
    <2>2. sent' = 0
      BY <2>1 DEF InputsInv, Estimated
    <2>3. PICK f \in Frames, in \in BOOLEAN :
              /\ frame' = f /\ inbound' = in /\ content' = f.options /\ summed' = f.options
              /\ stage' = IF Frame!Parsed(f, Mode) /\ Frame!RemoteAllowed(f, in, AllowPrivate)
                          THEN "parsed" ELSE "passed"
      BY <1>3 DEF Observe, Goto
    <2>4. InOrder' /\ Rewriting' /\ Scanning'
      BY <1>1, <2>1, <2>3 DEF InOrder, Rewriting, Scanning
    <2>5. Accepted'
      BY <1>2, <2>3 DEF Accepted, Looked
    <2> QED BY <1>1, <2>2, <2>4, <2>5 DEF InputsInv, Estimated
  <1>4. ASSUME UNCHANGED <<frame, inbound>>, stage # "none", Looked' => Looked
        PROVE  InOrder' /\ Accepted'
    BY <1>1, <1>2, <1>4 DEF InputsInv, InOrder, Accepted
  <1>5. CASE Emit
    <2>1. stage = "parsed" /\ stage' = "passed" /\ UNCHANGED <<frame, inbound, content, summed>>
      BY <1>5 DEF Emit, Goto
    <2>2. InOrder' /\ Accepted'
      BY <1>4, <2>1 DEF Looked
    <2>3. Rewriting' /\ Scanning'
      BY <2>1 DEF InputsInv, Rewriting, Scanning
    <2>4. Estimated'
      BY <1>2, <1>5, <2>1 DEF Emit, Estimated
    <2> QED BY <1>1, <2>2, <2>3, <2>4 DEF InputsInv
  <1>6. CASE Scan \/ Fail \/ StoreOptions \/ ReplaceSum \/ Restore
    <2>1. UNCHANGED <<frame, inbound, sent>> /\ stage \notin {"none", "passed"} /\ sent = 0
      BY <1>6 DEF Scan, Fail, StoreOptions, ReplaceSum, Restore, InputsInv, Estimated
    <2>2. InOrder' /\ Accepted'
      BY <1>4, <2>1 DEF Looked
    <2>3. Rewriting'
      BY <1>6 DEF Scan, Fail, StoreOptions, ReplaceSum, Restore, Backup, Goto, InputsInv, Rewriting
    <2>4. Scanned' = Scanned
      BY <1>1, <2>1 DEF Scanned, StripTfo, Tcp, Value
    <2>5. Scanning'
      <3>1. CASE Scan
        BY <2>4, <3>1 DEF Scan, Goto, InputsInv, Rewriting, Scanning
      <3>2. CASE Fail \/ Restore
        BY <3>2 DEF Fail, Restore, Goto, Scanning
      <3>3. CASE StoreOptions
        BY <2>4, <3>3 DEF StoreOptions, Goto, InputsInv, Scanning
      <3>4. CASE ReplaceSum
        BY <2>4, <3>4 DEF ReplaceSum, Goto, InputsInv, Scanning
      <3> QED BY <1>6, <3>1, <3>2, <3>3, <3>4
    <2> QED BY <1>1, <2>1, <2>2, <2>3, <2>5 DEF InputsInv, Estimated
  <1> QED BY <1>3, <1>5, <1>6 DEF Hook

LEMMA InputsInductive == InputsSpec => []InputsInv
  <1>1. InputsInit => InputsInv
    <2> SUFFICES ASSUME InputsInit PROVE InputsInv
      OBVIOUS
    <2>1. stage = "none" /\ inbound = FALSE /\ sent = 0 /\ given = <<>>
      BY DEF InputsInit, ConfigInit
    <2>2. DOMAIN given = {}
      BY <2>1
    <2>3. InOrder /\ Accepted /\ Rewriting /\ Scanning /\ Estimated
      BY <2>1 DEF InOrder, Accepted, Looked, Rewriting, Scanning, Estimated
    <2> QED BY <2>2, <2>3 DEF InputsInv, Read
  <1>2. InputsInv /\ [InputsNext]_inputVars => InputsInv'
    <2> SUFFICES ASSUME InputsInv, [InputsNext]_inputVars PROVE InputsInv'
      OBVIOUS
    <2>1. CASE InputsNext
      BY <2>1, ReadingInv, HookInv DEF InputsNext
    <2>2. CASE UNCHANGED inputVars
      BY <2>2 DEF inputVars, configVars, packet, InputsInv, InOrder, Accepted, Looked, Rewriting,
                  Scanning, Scanned, StripTfo, Tcp, Read, Estimated, Mode, EstimateHops, Amount, Value
    <2> QED BY <2>1, <2>2
  <1> QED BY <1>1, <1>2, PTL DEF InputsSpec

----------------------------------------------------------------------------
\* Whatever lengths its headers claim, an accepted packet lies inside its
\* frame and its headers inside the packet.
THEOREM NothingOutsideIsRead == InputsSpec => []LooksInside
  <1>1. InputsInv => LooksInside
    <2> SUFFICES ASSUME InputsInv, Looked PROVE LooksInside
      BY DEF LooksInside
    <2>1. frame \in Frames /\ Frame!Parsed(frame, Mode)
      BY DEF InputsInv, InOrder, Accepted, Looked
    <2> QED BY <2>1, ParsedFits DEF LooksInside
  <1> QED BY <1>1, InputsInductive, PTL

\* Both directions of a flow, with their VLAN tags where they may be, have one
\* key, and the answer passes the parser unless the tags make it too long.
THEOREM SidesAgree == InputsSpec => []KeysAgree
  <1>1. InputsInv => KeysAgree
    <2> SUFFICES ASSUME InputsInv, Looked, NEW g \in Placements(Reply(frame))
                 PROVE  /\ g.len <= 4096 => Frame!Parsed(g, Mode)
                        /\ Frame!Key(g, Mode, ~inbound) = Frame!Key(frame, Mode, inbound)
      BY DEF KeysAgree
    <2>1. frame \in Frame!Headers /\ inbound \in BOOLEAN /\ Frame!Parsed(frame, Mode)
      BY InputsAssumption DEF InputsInv, InOrder, Accepted, Looked
    <2>2. /\ g.macs = Reply(frame).macs /\ g.ip = Reply(frame).ip /\ g.tp = Reply(frame).tp
          /\ Moved(Reply(frame), frame, 0, Mode)
      BY <2>1, PlacementsMove, ReplySwaps
    <2>3. PICK d \in Int : Moved(g, Reply(frame), d, Mode)
      BY <2>1, PlacementsMove
    <2>4. Moved(g, frame, d, Mode)
      BY <2>1, <2>2, <2>3, MovedTwice
    <2>5. g.len <= 4096 => Frame!Parsed(g, Mode)
      BY <2>1, <2>4, MovedParses
    <2>6. Frame!Key(g, Mode, ~inbound) = Frame!Key(frame, Mode, inbound)
      BY <2>1, <2>2, <2>4, ReplySwaps, MovedKeys
    <2> QED BY <2>5, <2>6
  <1> QED BY <1>1, InputsInductive, PTL

\* A SYN is rewritten with its checksum or not at all.
THEOREM RewritesWholly == InputsSpec => []NoPartialRewrite
  <1>1. InputsInv => NoPartialRewrite
    BY DEF InputsInv, Rewriting, NoPartialRewrite
  <1> QED BY <1>1, InputsInductive, PTL

\* The scan rejects exactly the lists that do not read well, and a SYN goes on
\* with its Fast Open options replaced, if that is configured, and nothing else.
THEOREM ScansAsRead == InputsSpec => []OptionsAsRead
  <1>1. InputsInv => OptionsAsRead
    <2> SUFFICES ASSUME InputsInv, stage \in {"parsed", "eligible"} PROVE OptionsAsRead
      BY DEF OptionsAsRead
    <2>1. frame.options \in Seq(Bytes)
      BY InputsAssumption DEF InputsInv, InOrder, Frame!Headers, Bytes
    <2>2. StripTfo \in BOOLEAN
      BY DEF StripTfo
    <2>3. /\ Scanned.rejected <=> ~Option!Sane(frame.options)
          /\ ~Scanned.rejected => (IF Scanned.changed THEN Scanned.replacement ELSE frame.options) =
                                  (IF StripTfo THEN Option!Stripped(frame.options) ELSE frame.options)
      BY <2>1, <2>2, ScanReplaces DEF Scanned
    <2> QED BY <2>3 DEF InputsInv, Scanning, OptionsAsRead
  <1> QED BY <1>1, InputsInductive, PTL

\* No decoy reaches a peer whose TTL is known.
THEOREM DecoysFallShort == InputsSpec => []DecoyFallsShort
  <1>1. InputsInv => DecoyFallsShort
    <2> SUFFICES ASSUME InputsInv, sent # 0, inbound, EstimateHops, frame.ip.ttl # 0,
                        NEW initial \in InitialTtls, frame.ip.ttl <= initial
                 PROVE  sent < initial - frame.ip.ttl
      BY DEF DecoyFallsShort, InitialTtls
    <2>1. frame \in Frames
      BY DEF InputsInv, InOrder, Estimated
    <2> DEFINE remote  == frame.ip.ttl
               percent == Amount("dynamic_percent", 0)
               ttl     == Amount("ttl", 3)
               best    == Best(remote, percent, ttl)
    <2>2. remote \in 1 .. 255 /\ remote <= initial
      BY <2>1, InputsAssumption DEF Frame!Headers
    <2>3. percent \in Int /\ ttl \in Int
      BY AmountsAreNumbers DEF InputsInv, Amounts
    <2>4. sent = Hop!DecoyTtl(remote, EstimateHops, percent, ttl)
      BY DEF InputsInv, Estimated
    <2>5. sent = IF Hop!Near(remote, best) THEN 0 ELSE best
      BY <2>4 DEF Hop!DecoyTtl, Best
    <2>6. sent = best /\ ~Hop!Near(remote, best)
      BY <2>5
    <2> HIDE DEF remote, percent, ttl
    <2>7. best < initial - remote
      BY <2>2, <2>3, <2>6, DecoyNearer, Zenon
    <2> QED BY <2>6, <2>7, Zenon DEF remote
  <1> QED BY <1>1, InputsInductive, PTL

\* A file is refused at the first line after which it is ill-formed, and of an
\* accepted one every enabled rule is rotated over as it is written.
THEOREM ReadsAsWritten == InputsSpec => []ReadAsWritten
  <1>1. ReadSoFar => ReadAsWritten
    <2> SUFFICES ASSUME ReadSoFar PROVE ReadAsWritten
      OBVIOUS
    <2>1. verdict = "malformed" <=> ~WellFormed
      BY FitsIsWellFormed, InOrderFits DEF ReadSoFar
    <2> QED BY <2>1, RotatesAsWritten DEF ReadAsWritten
  <1> QED BY <1>1, ReadingInductive, PTL

\* The datapath asks for no template that is not published.
THEOREM AsksOnlyForPublished == InputsSpec => []PicksArePublished
  <1>1. ReadSoFar => PicksArePublished
    BY AsksForPublished DEF PicksArePublished
  <1> QED BY <1>1, ReadingInductive, PTL
=============================================================================
