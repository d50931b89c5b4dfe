----------------------------- MODULE ConfigFile -----------------------------
(***************************************************************************)
(* ff_config_read() in config.c, with ff_templates() and the keys that     *)
(* publish() writes for what it has read.                                  *)
(*                                                                         *)
(* The reader takes the file line by line and stops at the first bad one.  *)
(* What belongs together is only known at the end: TOML promises no order, *)
(* and a file without [[tcp.rule]] is read through the retired keys.       *)
(***************************************************************************)
EXTENDS Integers, Sequences, SequencesExt, FiniteSetsExt, TLC

CONSTANTS
    Files,          \* what may be read: the first lines, further lines, how many of those
    MaxInterfaces,  \* FF_INTERFACES
    MaxRules,       \* FF_TCP_RULES_MAX
    MaxKeys,        \* the size of seen
    Variants        \* FF_TEMPLATE_VARIANTS

\* A line by what the reader makes of it.
Line == [is : {"header", "setting", "junk"}, name : STRING, value : STRING]

ASSUME ConfigFileAssumption ==
    /\ MaxInterfaces \in Nat \ {0}
    /\ MaxRules \in Nat \ {0, 1}
    /\ MaxKeys \in Nat \ {0}
    /\ Variants \in Nat \ {0}
    /\ \A o \in Files : o.head \in Seq(Line) /\ o.lines \subseteq Line /\ o.length \in Nat

VARIABLES
    origin,     \* the member of Files that is read
    file,       \* history: the lines read
    section,    \* the section of the last header
    blocks,     \* device_count and rule_count
    opened,     \* sections_seen
    given,      \* per id in seen: its value
    verdict     \* "reading", "malformed" at a line, "refused" at the end, "accepted"

configVars == <<origin, file, section, blocks, opened, given, verdict>>

----------------------------------------------------------------------------
(* Lines and values.                                                       *)

Header(name) == [is |-> "header", name |-> name, value |-> ""]
Setting(key, value) == [is |-> "setting", name |-> key, value |-> value]
Junk == [is |-> "junk", name |-> "", value |-> ""]   \* overlong, or neither of the others

Blocks == {"interfaces", "tcp.rule"}
Sections == {"tcp", "udp", "injection", "runtime"}
Limit == [b \in Blocks |-> IF b = "interfaces" THEN MaxInterfaces ELSE MaxRules]

\* The values, by what the code tells apart.
Number == [v \in {"0", "1", "2", "8", "9", "99"} |->
    CASE v = "0" -> 0 [] v = "1" -> 1 [] v = "2" -> 2 [] v = "8" -> 8 [] v = "9" -> 9 [] OTHER -> 99]
Disk == "/good" :> 40 @@ "/empty" :> 0 @@ "/large" :> 1201     \* the files and their lengths
Bare == {"host", "tab"}                     \* without / : and blank
Printable == {"host", "sip:a@b", "tel:1"}
SipUris == {"sip:a@b"}
InterfaceNames == {"wan0", "wan1"}
Texts == {"", "http", "tls", "custom", "sip", "other", "host:1", "sp ace"}
         \cup DOMAIN Disk \cup Bare \cup Printable \cup InterfaceNames

Within(lo, hi) == {v \in DOMAIN Number : Number[v] \in lo .. hi}
Booleans == {"true", "false"}

\* The values that number(), string() and the others take for a key of a section.
Takes(sec, key) ==
    CASE sec = "" /\ key = "version"             -> Within(1, 1)
      [] sec = "interfaces" /\ key = "name"      -> Texts
      [] sec = "interfaces" /\ key = "mode"      -> {"ethernet", "l3", "pppoe"}
      [] sec = "tcp.rule" /\ key = "type"        -> {"http", "tls", "custom"}
      [] sec = "tcp.rule" /\ key \in {"payload", "comment"} -> Texts
      [] sec \in {"tcp.rule", "tcp", "udp"} /\ key = "enabled" -> Booleans
      [] sec = "tcp" /\ key \in {"payload", "hostname", "payload_file",
                                 "https_hostname", "https_payload_file"} -> Texts
      [] sec = "tcp" /\ key = "directions"       -> {"active", "passive", "active,passive"}
      [] sec = "tcp" /\ key = "tfo"              -> {"strip-syn", "preserve"}
      [] sec = "tcp" /\ key = "https_ports"      -> {"443"}
      [] sec = "tcp" /\ key = "max_batches"      -> Within(1, 32)
      [] sec = "udp" /\ key \in {"payload", "sip_uri", "payload_file"} -> Texts
      [] sec = "udp" /\ key = "trigger"          -> {"egress", "both"}
      [] sec = "udp" /\ key = "initial_packets"  -> Within(1, 32)
      [] sec = "udp" /\ key = "idle_timeout_seconds" -> Within(1, 3600)
      [] sec = "injection" /\ key = "ttl"        -> Within(1, 255)
      [] sec = "injection" /\ key = "repeat"     -> Within(1, 8)
      [] sec = "injection" /\ key = "dynamic_percent" -> Within(0, 99)
      [] sec = "injection" /\ key \in {"max_packets_per_second", "burst"} -> Within(1, 1000000)
      [] sec = "injection" /\ key \in {"estimate_hops", "allow_private"} -> Booleans
      [] sec = "runtime" /\ key \in {"tcp_entries", "udp_entries"} -> Within(64, 1048576)
      [] sec = "runtime" /\ key = "lease_seconds" -> Within(4, 60)
      [] OTHER -> {}

----------------------------------------------------------------------------
(* The loop over the lines.                                                *)

ConfigInit ==
    /\ origin \in Files
    /\ file = <<>>
    /\ section = ""
    /\ blocks = [b \in Blocks |-> 0]
    /\ opened = {}
    /\ given = <<>>
    /\ verdict = "reading"

\* What may follow in the file.
Lines ==
    IF Len(file) < Len(origin.head) THEN {origin.head[Len(file) + 1]}
    ELSE {line \in origin.lines : Len(file) < Len(origin.head) + origin.length}

Id(key) == <<section, IF section \in Blocks THEN blocks[section] ELSE 0, key>>

\* A mutant that only remembers the key.
FreshBlindly(key) == TRUE

Fresh(key) == Id(key) \notin DOMAIN given

\* [[interfaces]] or [[tcp.rule]]: a further entry.
OpensBlock(line) == line.is = "header" /\ line.name \in Blocks /\ blocks[line.name] < Limit[line.name]

\* One of the sections, once.
OpensSection(line) == line.is = "header" /\ line.name \in Sections \ opened

Assigns(line) ==
    /\ line.is = "setting"
    /\ Fresh(line.name) /\ Cardinality(DOMAIN given) < MaxKeys
    /\ line.value \in Takes(section, line.name)

Take(line) == verdict = "reading" /\ file' = Append(file, line) /\ UNCHANGED origin

OpenBlock(line) ==
    /\ OpensBlock(line) /\ Take(line)
    /\ blocks' = [blocks EXCEPT ![line.name] = @ + 1]
    /\ section' = line.name
    /\ UNCHANGED <<opened, given, verdict>>

OpenSection(line) ==
    /\ OpensSection(line) /\ Take(line)
    /\ opened' = opened \cup {line.name}
    /\ section' = line.name
    /\ UNCHANGED <<blocks, given, verdict>>

Assign(line) ==
    /\ Assigns(line) /\ Take(line)
    /\ given' = [id \in DOMAIN given \cup {Id(line.name)} |->
                    IF id = Id(line.name) THEN line.value ELSE given[id]]
    /\ UNCHANGED <<section, blocks, opened, verdict>>

\* "invalid, duplicate or unsupported setting".
Reject(line) ==
    /\ ~OpensBlock(line) /\ ~OpensSection(line) /\ ~Assigns(line)
    /\ Take(line)
    /\ verdict' = "malformed"
    /\ UNCHANGED <<section, blocks, opened, given>>

----------------------------------------------------------------------------
(* After the last line.                                                    *)

Value(sec, index, key, default) ==
    IF <<sec, index, key>> \in DOMAIN given THEN given[sec, index, key] ELSE default
Tcp(key, default) == Value("tcp", 0, key, default)
Udp(key, default) == Value("udp", 0, key, default)
Amount(key, default) ==
    IF <<"injection", 0, key>> \in DOMAIN given THEN Number[given["injection", 0, key]] ELSE default

Named(i) == Value("interfaces", i, "name", "")
NamesFit ==
    \A i \in 1 .. blocks["interfaces"] :
        Named(i) \in InterfaceNames /\ \A j \in 1 .. i - 1 : Named(j) # Named(i)

Rule(type, payload, enabled) == [type |-> type, payload |-> payload, enabled |-> enabled]

\* The retired keys as rules.
Primary ==
    LET payload == Tcp("payload", "http") IN
    IF payload = "custom" THEN Rule(payload, Tcp("payload_file", ""), "true")
    ELSE Rule(IF payload = "tls" THEN "tls" ELSE "http", Tcp("hostname", "host"), "true")
Https ==
    IF Tcp("https_payload_file", "") # "" THEN Rule("custom", Tcp("https_payload_file", ""), "true")
                                          ELSE Rule("tls", Tcp("https_hostname", ""), "true")
Retired ==
    <<Primary>> \o IF Tcp("https_hostname", "") # "" \/ Tcp("https_payload_file", "") # ""
                   THEN <<Https>> ELSE <<>>

Rules ==
    IF blocks["tcp.rule"] = 0 THEN Retired
    ELSE [i \in 1 .. blocks["tcp.rule"] |->
             Rule(Value("tcp.rule", i, "type", ""), Value("tcp.rule", i, "payload", ""),
                  Value("tcp.rule", i, "enabled", "true"))]

Enabled == {i \in DOMAIN Rules : Rules[i].enabled = "true"}

\* custom(): a readable file of 1 to FF_PAYLOAD_MAX bytes.
Loads(path) == path \in DOMAIN Disk /\ Disk[path] \in 1 .. 1200

\* A rule that can be sent: the checks of ff_config_read() and rule_template().
Renders(r) ==
    /\ r.type # "" /\ r.payload # ""
    /\ IF r.type = "custom" THEN Loads(r.payload) ELSE r.payload \in Bare \cap Printable

\* A mutant that rotates over every rule.
WholeRotation == [i \in DOMAIN Rules |-> i]

\* As a loop over numbers meets the members of S: the n-th has n up to itself.
Rank(S, x) == Cardinality({y \in S : y <= x})
Ascending(S) == [n \in 1 .. Cardinality(S) |-> CHOOSE x \in S : Rank(S, x) = n]

\* rule_map.
RuleMap == Ascending(Enabled)

UdpRenders ==
    IF Udp("payload", "sip") = "custom"
    THEN Loads(Udp("payload_file", "")) /\ <<"udp", 0, "sip_uri">> \notin DOMAIN given
    ELSE /\ Udp("payload", "sip") = "sip" /\ Udp("payload_file", "") = ""
         /\ Udp("sip_uri", "sip:a@b") \in Printable \cap SipUris

Sound ==
    /\ Value("", 0, "version", "") # "" /\ blocks["interfaces"] > 0
    /\ NamesFit
    /\ Amount("burst", 2000) >= Amount("repeat", 2)
    /\ \A i \in Enabled : Renders(Rules[i])
    /\ RuleMap # <<>>
    /\ UdpRenders

Eof ==
    /\ verdict = "reading" /\ Len(file) >= Len(origin.head)
    /\ verdict' = IF Sound THEN "accepted" ELSE "refused"
    /\ UNCHANGED <<origin, file, section, blocks, opened, given>>

----------------------------------------------------------------------------
(* The templates of the accepted file.                                     *)

UdpPlan == MaxRules + 1

Rendered(plan) == plan \in Enabled \cup {UdpPlan}

\* ff_plan.variants: what carries random bytes is rendered again for each.
Rerenders(plan) ==
    IF plan = UdpPlan THEN Udp("payload", "sip") = "sip" ELSE Rules[plan].type = "tls"

\* kernel.variants as publish() sets it, and the keys it writes.
VariantsOf(plan) == IF Rendered(plan) THEN (IF Rerenders(plan) THEN Variants ELSE 1) ELSE 0
Published == UNION {{plan} \X (0 .. VariantsOf(plan) - 1) : plan \in 1 .. UdpPlan}

\* What emit() may ask for: a power of two, so its mask is a remainder.
Asked(plan) == {<<plan, n % Max({VariantsOf(plan), 1})>> : n \in 0 .. Variants - 1}
Picks == UNION {Asked(plan) : plan \in Range(RuleMap) \cup {UdpPlan}}

ConfigNext ==
    \/ \E line \in Lines : OpenBlock(line) \/ OpenSection(line) \/ Assign(line) \/ Reject(line)
    \/ Eof

----------------------------------------------------------------------------
(* The file as a reader of TOML sees it, whole.                            *)

HeaderOf(i) == Max({h \in 1 .. i : file[h].is = "header"} \cup {0})
SectionOf(i) == IF HeaderOf(i) = 0 THEN "" ELSE file[HeaderOf(i)].name
Occurrences(name) == {h \in DOMAIN file : file[h].is = "header" /\ file[h].name = name}
LinesOf(h, key) == {i \in DOMAIN file : file[i].is = "setting" /\ file[i].name = key /\ HeaderOf(i) = h}
Written(h, key, default) ==
    IF LinesOf(h, key) = {} THEN default ELSE file[CHOOSE i \in LinesOf(h, key) : TRUE].value

WellFormed ==
    /\ \A i \in DOMAIN file :
          /\ file[i].is # "junk"
          /\ file[i].is = "setting" =>
                /\ LinesOf(HeaderOf(i), file[i].name) = {i}
                /\ file[i].value \in Takes(SectionOf(i), file[i].name)
          /\ file[i].is = "header" =>
                Cardinality(Occurrences(file[i].name)) <=
                    CASE file[i].name \in Blocks   -> Limit[file[i].name]
                      [] file[i].name \in Sections -> 1
                      [] OTHER                     -> 0
    /\ Cardinality({i \in DOMAIN file : file[i].is = "setting"}) <= MaxKeys

\* The enabled [[tcp.rule]] blocks from top to bottom.
RotationWritten ==
    LET heads == {h \in Occurrences("tcp.rule") : Written(h, "enabled", "true") = "true"} IN
    [n \in DOMAIN Ascending(heads) |->
        LET h == Ascending(heads)[n] IN <<Written(h, "type", ""), Written(h, "payload", "")>>]

\* The reader stops at the first line after which the file is ill-formed as a
\* whole and at no other, and of an accepted file every enabled rule is rotated
\* over with its own type and payload, in the order of the file, wherever the
\* keys stand in their blocks (config.c:79-197, :243-259, templates.c:156-166).
ReadAsWritten ==
    /\ verdict = "malformed" <=> ~WellFormed
    /\ (verdict = "accepted" /\ Occurrences("tcp.rule") # {}) =>
          RotationWritten = [n \in DOMAIN RuleMap |->
              <<Rules[RuleMap[n]].type, Rules[RuleMap[n]].payload>>]

\* Whatever the configuration enables, disables or leaves to the retired keys,
\* the datapath only asks for templates that its generation publishes, and what
\* it asks for has bytes (abi.h:53-60, lifecycle.c:180-189).
PicksArePublished == verdict = "accepted" => Picks \subseteq Published
=============================================================================
