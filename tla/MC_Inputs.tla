----------------------------- MODULE MC_Inputs ------------------------------
(* Small instances of Inputs: files read line by line, and files under      *)
(* which frames arrive.                                                     *)
EXTENDS Inputs

Top == <<Setting("version", "1"), Header("interfaces"), Setting("name", "wan0")>>
Read(head, length, lines) == [head |-> head, length |-> length, lines |-> lines]

\* Interfaces and what stands before and between them.
Interfaces == Read(<<>>, 5,
    {Setting("version", "1"), Setting("version", "2"), Header("interfaces"), Setting("name", "wan0"),
     Setting("name", "wan1"), Setting("name", ""), Setting("mode", "l3"), Setting("mode", "other"),
     Header("runtime"), Setting("lease_seconds", "9"), Junk})

\* Rules in any order, complete and not, enabled and not.
RuleTable == Read(Top, 6,
    {Header("tcp.rule"), Setting("type", "tls"), Setting("type", "custom"), Setting("payload", "host"),
     Setting("payload", "/good"), Setting("payload", "/large"), Setting("enabled", "false"), Header("tcp")})

\* The retired keys, with and without rules.
RetiredKeys == Read(Top \o <<Header("tcp")>>, 5,
    {Setting("payload", "tls"), Setting("payload", "custom"), Setting("payload", "other"),
     Setting("hostname", "tab"), Setting("payload_file", "/good"), Setting("https_hostname", "host"),
     Setting("https_payload_file", "/empty"), Setting("https_payload_file", "/good"),
     Setting("https_ports", "443"), Header("tcp.rule"), Header("tcp")})

\* UDP and the limits of injection.
SipAndLimits == Read(Top \o <<Header("udp")>>, 5,
    {Setting("payload", "sip"), Setting("payload", "custom"), Setting("sip_uri", "sip:a@b"),
     Setting("sip_uri", "tel:1"), Setting("payload_file", "/good"), Header("injection"),
     Setting("repeat", "8"), Setting("repeat", "9"), Setting("burst", "2"), Setting("burst", "8"),
     Header("other")})

\* Files to serve under.
Served ==
    {Read(Top \o rest, 0, {}) : rest \in
        {<<>>, <<Setting("mode", "pppoe")>>, <<Setting("mode", "l3"), Header("tcp"), Setting("tfo", "preserve")>>,
         <<Header("injection"), Setting("ttl", "8"), Setting("dynamic_percent", "99"), Setting("allow_private", "true")>>,
         <<Header("injection"), Setting("estimate_hops", "false")>>}}

AllFiles == {Interfaces, RuleTable, RetiredKeys, SipAndLimits} \cup Served

----------------------------------------------------------------------------
NoFragment == [offset |-> 0, more |-> FALSE, strange |-> FALSE, next |-> "udp"]
NoPpp == [fit |-> FALSE, session |-> 0, length |-> 0, proto |-> "ip4"]

\* A sound UDP datagram of 8 bytes over v4.
Datagram ==
    [gso |-> FALSE, len |-> 50, group |-> FALSE, macs |-> [src |-> "m1", dst |-> "m2"],
     offload |-> <<>>, tags |-> <<>>, ether |-> "ip4", ppp |-> NoPpp,
     ip |-> [version |-> 4, plain |-> TRUE, proto |-> "udp", total |-> 36, ttl |-> 60,
             src |-> "public", dst |-> "wan"],
     frag |-> NoFragment,
     tp |-> [hlen |-> 20, ulen |-> 16, zero |-> FALSE, sport |-> 1, dport |-> 2],
     options |-> <<>>]

Syn(list) == [Datagram EXCEPT !.ip.proto = "tcp", !.ip.total = 40 + Len(list), !.len = 54 + Len(list),
                              !.tp.hlen = 20 + Len(list), !.options = list]

\* The same over v6, behind a fragment header, and in a PPPoE session.
OverV6(f) == [f EXCEPT !.ether = "ip6", !.ip.version = 6, !.ip.total = @ - 20, !.len = @ + 20]
Extended(f) == [OverV6(f) EXCEPT !.ip.proto = "fragment", !.ip.total = @ + 8, !.len = @ + 8]
InSession(f) == [f EXCEPT !.ether = "pppoe", !.len = @ + 8,
                          !.ppp = [fit |-> TRUE, session |-> 1, length |-> f.len - 12, proto |-> f.ether]]
InL3(f) == [f EXCEPT !.len = @ - 14]
Tagged(f, offload, tags) == [f EXCEPT !.offload = offload, !.tags = tags, !.len = @ + 4 * Len(tags)]

Whole == LET plain == {Datagram, Syn(<<>>), Syn(<<1, 1, 1, 1>>)}
             v6    == {OverV6(f) : f \in plain} \cup {Extended(Datagram)}
         IN  plain \cup v6

Linked == Whole \cup {InSession(f) : f \in Whole} \cup {InL3(f) : f \in Whole}
          \cup {Tagged(InSession(f), offload, tags) : f \in Whole, offload \in {<<>>, <<"v1">>},
                    tags \in {<<>>, <<"v2">>, <<"v2", "v3">>, <<"v1", "v2", "v3">>}}

\* One thing wrong with a frame, or unusual.
Damaged(f) ==
    {[f EXCEPT !.gso = TRUE], [f EXCEPT !.group = TRUE], [f EXCEPT !.ip.plain = FALSE],
     [f EXCEPT !.len = 4096], [f EXCEPT !.len = 4097], [f EXCEPT !.ether = "other"], [f EXCEPT !.ppp.fit = FALSE],
     [f EXCEPT !.ppp.session = 0], [f EXCEPT !.ppp.proto = "other"], [f EXCEPT !.tp.zero = TRUE],
     [f EXCEPT !.ip.src = "private"], [f EXCEPT !.ip.src = "never"], [f EXCEPT !.ip.proto = "other"]}
    \cup {[f EXCEPT !.len = @ + d] : d \in {-30, -9, -1, 4}}
    \cup {[f EXCEPT !.ip.total = @ + d] : d \in {-17, -1, 1, 60}}
    \cup {[f EXCEPT !.ppp.length = @ + d] : d \in {-3, -1, 1}}
    \cup {[f EXCEPT !.tp.ulen = @ + d] : d \in {-9, -1, 8}}
    \cup {[f EXCEPT !.tp.hlen = h] : h \in {16, 24, 64}}
    \cup {[f EXCEPT !.frag.more = TRUE, !.frag.strange = s, !.tp.ulen = @ + 8] : s \in BOOLEAN}
    \cup {[f EXCEPT !.frag.offset = 8], [f EXCEPT !.frag.next = "tcp"]}

Odd == Linked \cup UNION {Damaged(f) : f \in Linked}
TwiceOdd == Odd \cup UNION {Damaged(f) : f \in UNION {Damaged(g) : g \in {Datagram, InSession(Extended(Datagram)), InSession(Syn(<<1, 1, 1, 1>>))}}}

Optioned == {Syn(list) : list \in [1 .. 4 -> {0, 1, 2, 3, 19, 34}] \cup [1 .. 8 -> {1, 3, 34}]}
Aged == {[Datagram EXCEPT !.ip.ttl = ttl] : ttl \in {0, 1, 40, 61, 62, 63, 64, 65, 120, 128, 129, 200, 254, 255}}

AllFrames == TwiceOdd \cup Optioned \cup Aged
=============================================================================
