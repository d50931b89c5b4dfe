------------------------------- MODULE Parser -------------------------------
(***************************************************************************)
(* parse() and remote_allowed() of parse.h: what a frame must be for the   *)
(* datapath to look at it, and the flow it belongs to.                     *)
(*                                                                         *)
(* A frame is a record of header fields and of len, the bytes there are.   *)
(* The fields claim lengths of their own, which need not fit.  Ethertypes  *)
(* and protocols go by name; addresses by what remote_allowed() tells      *)
(* apart.                                                                  *)
(***************************************************************************)
EXTENDS Integers, Sequences

\* The header fields of a frame:
\*   gso, len         gso_segs or gso_size is set, skb->len
\*   group, macs      a multicast bit is set; the addresses
\*   offload, tags    VLAN tags in the skb's metadata (at most one), in the frame
\*   ether            "ip4", "ip6", "pppoe" or another ethertype
\*   ppp              the PPPoE header, fit if its version, type and code are
\*   ip               plain without options
\*   frag             of either fragment header; strange: a bit is set that ought not to
\*   tp               the TCP or UDP header
Headers ==
    [gso : BOOLEAN, len : Int, group : BOOLEAN, macs : [src : STRING, dst : STRING],
     offload : Seq(STRING), tags : Seq(STRING), ether : STRING,
     ppp : [fit : BOOLEAN, session : Int, length : Int, proto : STRING],
     ip : [version : {4, 6}, plain : BOOLEAN, proto : STRING, total : Int, ttl : 0 .. 255,
           src : STRING, dst : STRING],
     frag : [offset : Int, more : BOOLEAN, strange : BOOLEAN, next : STRING],
     tp : [hlen : Int, ulen : Int, zero : BOOLEAN, sport : Int, dport : Int],
     options : Seq(0 .. 255)]

Loadable(f, offset, bytes) == offset + bytes <= f.len

LinkBytes(f) == 14 + 4 * Len(f.tags)
InPppoe(f, mode) == mode # "l3" /\ f.ether = "pppoe"

\* p->l3, and how far the packet may reach from there.
L3(f, mode) == IF mode = "l3" THEN 0 ELSE LinkBytes(f) + (IF InPppoe(f, mode) THEN 8 ELSE 0)
Envelope(f, mode) == IF InPppoe(f, mode) THEN LinkBytes(f) + 6 + f.ppp.length ELSE f.len
Proto(f, mode) == IF InPppoe(f, mode) THEN f.ppp.proto ELSE f.ether

\* VLAN tags, outermost first, wherever the device has put them.
Stack(f) == f.offload \o f.tags

LinkFits(f, mode) ==
    /\ ~f.gso /\ f.len <= 4096
    /\ mode # "l3" =>
          /\ ~f.group
          /\ Len(Stack(f)) <= 2 /\ Loadable(f, 0, LinkBytes(f))
          /\ (mode = "pppoe") = (f.ether = "pppoe")
    /\ InPppoe(f, mode) =>
          /\ Loadable(f, LinkBytes(f), 8)
          /\ f.ppp.fit /\ f.ppp.session # 0 /\ f.ppp.length >= 2
          /\ Envelope(f, mode) <= f.len

----------------------------------------------------------------------------
IsV4(f, mode) == f.ip.version = 4 /\ (mode = "l3" \/ Proto(f, mode) = "ip4")
IsV6(f, mode) == f.ip.version = 6 /\ (mode = "l3" \/ Proto(f, mode) = "ip6")

IpBytes(f) == IF f.ip.version = 4 THEN 20 ELSE 40
Extended(f) == f.ip.version = 6 /\ f.ip.proto = "fragment"

\* p->end, p->l4 and p->key.protocol.  A v6 header counts what follows it.
End(f, mode) == L3(f, mode) + f.ip.total + (IF f.ip.version = 6 THEN 40 ELSE 0)
L4(f, mode) == L3(f, mode) + IpBytes(f) + (IF Extended(f) THEN 8 ELSE 0)
Protocol(f) == IF Extended(f) THEN f.frag.next ELSE f.ip.proto

FirstFragment(f) == f.frag.more /\ (f.ip.version = 4 \/ Extended(f))

\* A later fragment has no ports, a first one only of UDP, and of full length.
V4Fits(f) ==
    /\ f.ip.plain
    /\ f.frag.offset = 0
    /\ f.frag.more => /\ f.ip.proto = "udp" /\ ~f.frag.strange
                      /\ f.ip.total >= 28 /\ (f.ip.total - 20) % 8 = 0

V6Fits(f, mode) ==
    Extended(f) =>
        /\ End(f, mode) <= Envelope(f, mode) /\ End(f, mode) >= L4(f, mode)
        /\ Loadable(f, L4(f, mode) - 8, 8)
        /\ f.frag.offset = 0 /\ f.frag.next = "udp" /\ ~f.frag.strange
        /\ f.frag.more => (End(f, mode) - L4(f, mode)) % 8 = 0

\* A mutant that trusts the packet's own length.
WithinItself(f, mode) == L4(f, mode) <= End(f, mode)

WithinEnvelope(f, mode) == End(f, mode) <= Envelope(f, mode) /\ L4(f, mode) <= End(f, mode)

NetworkFits(f, mode) ==
    /\ Loadable(f, L3(f, mode), 20)
    /\ \/ IsV4(f, mode) /\ V4Fits(f)
       \/ IsV6(f, mode) /\ Loadable(f, L3(f, mode), 40) /\ V6Fits(f, mode)
    /\ WithinEnvelope(f, mode)

----------------------------------------------------------------------------
Room(f, mode) == End(f, mode) - L4(f, mode)

TcpFits(f, mode) ==
    /\ Room(f, mode) >= 20 /\ Loadable(f, L4(f, mode), 20)
    /\ f.tp.hlen \in 20 .. 60 /\ f.tp.hlen <= Room(f, mode)

UdpFits(f, mode) ==
    /\ Room(f, mode) >= 8 /\ Loadable(f, L4(f, mode), 8)
    /\ IF FirstFragment(f)
       THEN f.tp.ulen > Room(f, mode) /\ (f.ip.version = 4 => f.tp.ulen <= 65515)
       ELSE f.tp.ulen = Room(f, mode)
    /\ f.ip.version = 6 => ~f.tp.zero

Parsed(f, mode) ==
    /\ LinkFits(f, mode) /\ NetworkFits(f, mode)
    /\ \/ Protocol(f) = "tcp" /\ TcpFits(f, mode)
       \/ Protocol(f) = "udp" /\ UdpFits(f, mode)

HeaderBytes(f) == IF Protocol(f) = "udp" THEN 8 ELSE f.tp.hlen

\* p->bytes, which is unsigned: less than zero would be gigabytes.
Bytes(f, mode) == Room(f, mode) - HeaderBytes(f)

\* A mutant that files a packet under its sender.
PeerIsSender(f, in) == f.macs.src

Peer(f, in) == IF in THEN f.macs.src ELSE f.macs.dst

\* struct ff_key but for the interface.
Key(f, mode, in) ==
    LET to   == <<f.ip.dst, f.tp.dport>>
        from == <<f.ip.src, f.tp.sport>>
    IN  [ends    |-> IF in THEN <<to, from>> ELSE <<from, to>>,
         kind    |-> <<f.ip.version, Protocol(f)>>,
         vlan    |-> IF mode = "l3" THEN <<>> ELSE Stack(f),
         session |-> IF InPppoe(f, mode) THEN <<f.ppp.session, Peer(f, in)>> ELSE <<>>]

\* Addresses by class: "never" is multicast, loopback and the like.
RemoteAllowed(f, in, allowPrivate) ==
    LET remote == IF in THEN f.ip.src ELSE f.ip.dst
    IN  remote # "never" /\ (remote = "private" => allowPrivate)
=============================================================================
