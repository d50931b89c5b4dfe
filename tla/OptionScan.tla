----------------------------- MODULE OptionScan -----------------------------
(***************************************************************************)
(* scan_option() of tcp.h, as options() has bpf_loop() call it: one step   *)
(* per byte of the TCP options, in one pass that may not jump.  Bytes are  *)
(* counted from 1.                                                         *)
(***************************************************************************)
EXTENDS Integers, Sequences

EndOfList == 0    \* option kinds
Nop == 1
Auth == {19, 29}  \* MD5 and AO
FastOpen == 34

Begin(list) ==
    [next |-> 1, nopUntil |-> 1, replacement |-> list,
     changed |-> FALSE, rejected |-> FALSE, over |-> FALSE]

\* The kind, the length and the data do not all fit.
Malformed(list, i) ==
    i = Len(list) \/ list[i + 1] < 2 \/ i + list[i + 1] > Len(list) + 1

\* A mutant that replaces the kind and the length only.
InsideKept(s, i) == s

\* A byte of the option that began before.
Inside(s, i) == IF i < s.nopUntil THEN [s EXCEPT !.replacement[i] = Nop] ELSE s

\* An option with a length: it is skipped, or replaced, or the scan gives up.
Sized(s, list, i, strip) ==
    IF Malformed(list, i) \/ list[i] \in Auth
    THEN [s EXCEPT !.over = TRUE, !.rejected = TRUE]
    ELSE LET skipped == [s EXCEPT !.next = i + list[i + 1]] IN
         IF list[i] = FastOpen /\ strip
         THEN [skipped EXCEPT !.nopUntil = i + list[i + 1],
                              !.replacement[i] = Nop, !.changed = TRUE]
         ELSE skipped

\* The first byte of an option.
AtHead(s, list, i, strip) ==
    CASE list[i] = EndOfList             -> [s EXCEPT !.over = TRUE]
      [] list[i] = Nop                   -> [s EXCEPT !.next = i + 1]
      [] list[i] \notin {EndOfList, Nop} -> Sized(s, list, i, strip)

\* scan_option() at byte i.
Step(s, list, i, strip) ==
    IF s.over THEN s
    ELSE IF i < s.next THEN Inside(s, i)
    ELSE AtHead(s, list, i, strip)

Scanned(list, strip) ==
    LET state[i \in 0 .. Len(list)] ==
            IF i = 0 THEN Begin(list) ELSE Step(state[i - 1], list, i, strip)
    IN  state[Len(list)]

----------------------------------------------------------------------------
(* The same list read option by option.                                    *)

\* An option behind which the list goes on.
Whole(list, i) == list[i] # EndOfList /\ (list[i] = Nop \/ ~Malformed(list, i))
Size(list, i) == IF list[i] = Nop THEN 1 ELSE list[i + 1]

\* Byte i beside the first bytes of the options before it, if it is one, too.
Joined(before, list, i) ==
    IF i = 1 \/ \E h \in before : Whole(list, h) /\ h + Size(list, h) = i
    THEN before \cup {i} ELSE before

\* The first bytes of the options.
Heads(list) ==
    LET heads[i \in 0 .. Len(list)] ==
            IF i = 0 THEN {} ELSE Joined(heads[i - 1], list, i)
    IN  heads[Len(list)]

\* All options fit, and none authenticates the segment.
Sane(list) ==
    \A h \in Heads(list) : list[h] = EndOfList \/ (Whole(list, h) /\ list[h] \notin Auth)

\* Every Fast Open option replaced by NOPs.
Stripped(list) ==
    [i \in DOMAIN list |->
        IF \E h \in Heads(list) : list[h] = FastOpen /\ i \in h .. h + Size(list, h) - 1
        THEN Nop ELSE list[i]]
=============================================================================
