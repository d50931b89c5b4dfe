------------------------------- MODULE Inputs -------------------------------
(***************************************************************************)
(* What comes in from outside: a configuration file, and then one frame on *)
(* its way through observe() under that configuration.  ConfigFile reads   *)
(* the file; Parser, OptionScan and HopEstimate are the pure parts of the  *)
(* hook; options() of tcp.h, which writes into the packet that it lets     *)
(* pass, is here step by step with every helper that may fail.             *)
(***************************************************************************)
EXTENDS ConfigFile

Frame == INSTANCE Parser
Option == INSTANCE OptionScan
Hop == INSTANCE HopEstimate

CONSTANTS
    Frames,     \* the frames that may arrive
    Serving     \* bound of this model: the files under which they do

ASSUME InputsAssumption ==
    /\ Serving \subseteq Files
    /\ Frames \subseteq Frame!Headers

VARIABLES
    frame,      \* the frame at the hook
    inbound,    \* it comes in at ff_ingress
    stage,      \* where it is
    content,    \* the TCP options in the frame as they are now
    summed,     \* the options that the frame's checksum is right for
    sent        \* the TTL of the decoys it triggers, 0 without any

packet == <<frame, inbound, stage, content, summed, sent>>
inputVars == <<configVars, packet>>

NoFrame == [len |-> 0]

InputsInit ==
    /\ ConfigInit
    /\ frame = NoFrame
    /\ inbound = FALSE
    /\ stage = "none"
    /\ content = <<>>
    /\ summed = <<>>
    /\ sent = 0

\* The settings the hooks read from the accepted file.
Mode == Value("interfaces", 1, "mode", "ethernet")
StripTfo == Tcp("tfo", "strip-syn") = "strip-syn"
AllowPrivate == Value("injection", 0, "allow_private", "false") = "true"
EstimateHops == Value("injection", 0, "estimate_hops", "true") = "true"

----------------------------------------------------------------------------
Goto(place) == stage' = place

\* parse() and remote_allowed().
Observe ==
    /\ verdict = "accepted" /\ origin \in Serving /\ stage = "none"
    /\ \E f \in Frames, in \in BOOLEAN :
          /\ frame' = f
          /\ inbound' = in
          /\ content' = f.options
          /\ summed' = f.options
          /\ Goto(IF Frame!Parsed(f, Mode) /\ Frame!RemoteAllowed(f, in, AllowPrivate)
                  THEN "parsed" ELSE "passed")
    /\ UNCHANGED sent

\* A packet that triggers.  What a flow keeps of the peer's TTL is the TTL of
\* an earlier inbound packet, so an outbound one stands for a flow without it.
Emit ==
    /\ stage = "parsed"
    /\ sent' = Hop!DecoyTtl(IF inbound THEN frame.ip.ttl ELSE 0, EstimateHops,
                            Amount("dynamic_percent", 0), Amount("ttl", 3))
    /\ Goto("passed")
    /\ UNCHANGED <<frame, inbound, content, summed>>

Scanned == Option!Scanned(frame.options, StripTfo)

\* options() on a SYN, up to the end of the scan.
Scan ==
    /\ stage = "parsed" /\ Frame!Protocol(frame) = "tcp"
    /\ Goto(IF Scanned.rejected THEN "vetoed" ELSE IF Scanned.changed THEN "rewriting" ELSE "eligible")
    /\ UNCHANGED <<frame, inbound, content, summed, sent>>

\* load_options(), bpf_skb_pull_data(), bpf_csum_diff() or store_options() fails.
Fail ==
    /\ stage \in {"parsed", "rewriting"} /\ Frame!Protocol(frame) = "tcp"
    /\ Goto("vetoed")
    /\ UNCHANGED <<frame, inbound, content, summed, sent>>

StoreOptions ==
    /\ stage = "rewriting"
    /\ content' = Scanned.replacement
    /\ Goto("stored")
    /\ UNCHANGED <<frame, inbound, summed, sent>>

\* bpf_l4_csum_replace() with the difference.
ReplaceSum ==
    /\ stage = "stored"
    /\ summed' = content
    /\ Goto("eligible")
    /\ UNCHANGED <<frame, inbound, content, sent>>

\* A mutant that leaves the stripped options in place.
NotRestored == content

Backup == frame.options

\* It fails, and the backups go back: the bytes were writable a moment ago.
Restore ==
    /\ stage = "stored"
    /\ content' = Backup
    /\ summed' = frame.options
    /\ Goto("vetoed")
    /\ UNCHANGED <<frame, inbound, sent>>

Hook == Observe \/ Emit \/ Scan \/ Fail \/ StoreOptions \/ ReplaceSum \/ Restore

InputsNext ==
    \/ ConfigNext /\ UNCHANGED packet
    \/ Hook /\ UNCHANGED configVars

InputsSpec == InputsInit /\ [][InputsNext]_inputVars

----------------------------------------------------------------------------
Looked == stage \notin {"none", "passed"}

\* Whatever lengths the headers claim, an accepted packet and its transport
\* header lie inside the frame and inside the PPPoE envelope, without the
\* padding behind it; its payload is not less than nothing; and a fragment
\* without ports is not looked at (parse.h:36-38, :51-53, :77-95).
LooksInside ==
    Looked =>
        /\ Frame!L4(frame, Mode) + Frame!HeaderBytes(frame) <= Frame!End(frame, Mode)
        /\ Frame!End(frame, Mode) <= frame.len
        /\ Frame!InPppoe(frame, Mode) =>
              Frame!End(frame, Mode) <= 14 + 4 * Len(frame.tags) + 6 + frame.ppp.length
        /\ Frame!Bytes(frame, Mode) >= 0
        /\ frame.frag.offset # 0 => frame.ip.version = 6 /\ ~Frame!Extended(frame)

\* The answer to a frame, with its VLAN tags in the frame or the outermost in
\* the metadata, as another device or driver may have it.
Swapped(pair) == [pair EXCEPT !.src = pair.dst, !.dst = pair.src]
Reply(f) == [f EXCEPT !.macs = Swapped(@), !.ip = Swapped(@),
                      !.tp = [@ EXCEPT !.sport = f.tp.dport, !.dport = f.tp.sport]]
Placements(f) ==
    LET stack == Frame!Stack(f)
        split(n) == [f EXCEPT !.offload = SubSeq(stack, 1, n), !.tags = SubSeq(stack, n + 1, Len(stack)),
                              !.len = @ + 4 * (Len(stack) - n - Len(f.tags))]
    IN  IF Mode = "l3" THEN {f} ELSE {split(n) : n \in {0, 1} \cap (0 .. Len(stack))}

\* Both directions of a flow, and all ways a driver hands over a tag, come to
\* one key, unless the tag makes the frame longer than parse() takes: otherwise
\* the SYN-ACK would not find the SYN, nor the answer of a PPPoE session its
\* request (parse.h:25-41, :56-57, :62-63, :93-94;
\* docs/ebpf-implementation-spec.md:226, :242, :245).
KeysAgree ==
    Looked => \A g \in Placements(Reply(frame)) :
        /\ g.len <= 4096 => Frame!Parsed(g, Mode)
        /\ Frame!Key(g, Mode, ~inbound) = Frame!Key(frame, Mode, inbound)

\* The byte-wise scan takes the options as the list reads: it refuses exactly
\* those that do not fit or authenticate the segment, and a SYN goes on with
\* every Fast Open option and nothing else replaced (tcp.h:29-43;
\* docs/ebpf-implementation-spec.md:141).
OptionsAsRead ==
    /\ (stage = "parsed" /\ Frame!Protocol(frame) = "tcp") =>
          (Scanned.rejected <=> ~Option!Sane(frame.options))
    /\ stage = "eligible" =>
          content = IF StripTfo THEN Option!Stripped(frame.options) ELSE frame.options

\* No failure leaves a SYN half rewritten or with a checksum of other options:
\* a vetoed one is as it came (tcp.h:56-68;
\* docs/ebpf-implementation-spec.md:156).
NoPartialRewrite ==
    /\ stage = "vetoed" => content = frame.options
    /\ stage \in {"vetoed", "eligible", "passed"} => summed = content

\* With the TTL of a peer's packet at hand, no decoy gets as far as the peer,
\* whichever of the usual initial values the peer uses (observer.bpf.c:29-34;
\* docs/ebpf-implementation-spec.md:260).
DecoyFallsShort ==
    (sent # 0 /\ inbound /\ EstimateHops /\ frame.ip.ttl # 0) =>
        \A initial \in {64, 128, 255} : frame.ip.ttl <= initial => sent < initial - frame.ip.ttl
=============================================================================
