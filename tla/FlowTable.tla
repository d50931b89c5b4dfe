----------------------------- MODULE FlowTable -----------------------------
(***************************************************************************)
(* The LRU hash maps tcp_flows and udp_flows as the observer sees them.    *)
(* A lookup returns a pointer to an element, which the program keeps while *)
(* other CPUs go on inserting.  A full map makes room by evicting a key;   *)
(* the elements are preallocated, so the evicted one is reused at once.    *)
(***************************************************************************)
EXTENDS Integers

CONSTANTS
    Cpus,       \* the CPUs that run the observer
    Keys,       \* struct ff_key: the flows that send packets
    Slots,      \* the elements of the map
    Recycle,    \* an element may be evicted while some CPU points at it
    Nobody,     \* the owner of an element not in use
    NoSlot      \* a null pointer

ASSUME TableAssumption ==
    /\ Recycle \in BOOLEAN
    /\ Nobody \notin Keys
    /\ NoSlot \notin Slots

VARIABLES
    owner,      \* per element: the key it is filed under
    ptr         \* per CPU: the element its pointer f points to

TableType ==
    /\ owner \in [Slots -> Keys \cup {Nobody}]
    /\ ptr \in [Cpus -> Slots \cup {NoSlot}]

TableInit ==
    /\ owner = [s \in Slots |-> Nobody]
    /\ ptr = [p \in Cpus |-> NoSlot]

\* bpf_map_lookup_elem(): the elements filed under a key, at most one.
Found(k) == {s \in Slots : owner[s] = k}

Held(s) == \E p \in Cpus : ptr[p] = s

\* The elements an insertion may take: a free one, else a victim.
Free == {s \in Slots : owner[s] = Nobody /\ (Recycle \/ ~Held(s))}
Victims == IF Free # {} THEN Free ELSE {s \in Slots : Recycle \/ ~Held(s)}

\* bpf_map_update_elem(BPF_NOEXIST) of an absent key.
File(s, k) == owner' = [owner EXCEPT ![s] = k]

Point(p, s) == ptr' = [ptr EXCEPT ![p] = s]
=============================================================================
