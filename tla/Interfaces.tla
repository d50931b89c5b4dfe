----------------------------- MODULE Interfaces -----------------------------
(***************************************************************************)
(* The daemon and the devices: ff_run(), refresh(), forget_index(),        *)
(* link_events(), save_state() and stale_filters() in                      *)
(* ebpf/user/lifecycle.c, ff_attach(), ff_detach(), ff_priority_available()*)
(* and ff_check() in attach.c.                                             *)
(*                                                                         *)
(* A WAN is a name.  The device that bears it comes and goes, with a new   *)
(* ifindex or the old one; the filter on it goes with it, an ingress link  *)
(* goes with the daemon too.  The daemon learns of this from a queue of    *)
(* link events that can overflow and by looking every two seconds.  It may *)
(* be killed at any step, and what it leaves is cleaned up by the next one *)
(* from the file it kept.  A filter is queried and detached in two calls,  *)
(* and either may fail.                                                    *)
(***************************************************************************)
EXTENDS Integers, FiniteSets

CONSTANTS
    Count,       \* ff_options.device_count
    Indices,     \* the ifindexes the WANs get
    MaxBirth,    \* bound of this model on the devices that ever bear a name
    MaxRun,      \* bound of this model on the daemons started
    MaxEpoch     \* bound of this model on runtime.epoch

Slots == 1 .. Count
Births == 1 .. MaxBirth
Runs == 1 .. MaxRun

Steps == {"down", "recover", "stale", "check", "dummy", "alias", "private", "look", "priority",
          "ingress", "egress", "save", "enable", "publish", "serve", "poll",
          "forget", "query", "detach", "record", "out", "delete", "unlink"}

\* Who waits for ff_detach(): stale_filters(), forget_index() after a look, a
\* failed attach_one() or a link event, the label out.
Forgetting == {"change", "failure", "event"}
Callers == {"nobody", "stale", "out"} \cup Forgetting

ASSUME InterfacesAssumption ==
    /\ Count \in Nat \ {0}
    /\ Indices \subseteq Nat \ {0}
    /\ MaxBirth \in Nat
    /\ MaxRun \in Nat
    /\ MaxEpoch \in Nat

VARIABLES
    device,      \* per WAN: the device that bears its name
    filter,      \* per WAN: whose egress filter of priority 1 is on that device
    births,      \* history: the devices that have been created
    lost,        \* history: the WANs with a filter that could not be detached or recorded
    dummies,     \* the private devices that exist, by the run that made them
    strays,      \* history: those that could not be deleted or recorded
    events,      \* the ifindexes in the RTM_DELLINK messages of the socket's queue
    overflow,    \* the queue has overflowed
    file,        \* the state file
    run,         \* the present daemon, and the program id of its filters
    pc,          \* its step
    initial,     \* the argument of refresh()
    slot,        \* the loop variable of refresh()
    found,       \* idx of refresh()
    caller,      \* who waits for ff_detach()
    doomed,      \* the ifindexes still to be forgotten
    todo,        \* the records still to be detached
    target,      \* what bpf_tc_query() has found: a filter of ours, and on which device
    index,       \* runtime.index
    link,        \* runtime.ingress: the device the link was attached to
    attached,    \* runtime.attached: the ifindexes of the WAN filters
    private,     \* runtime.attached has the private device's filters
    generation,  \* runtime.generation
    epoch,       \* runtime.epoch
    entries,     \* the map interfaces: ifindex to generation
    origin       \* history: the device a generation was made for

devices == <<device, filter, births, lost>>
privates == <<dummies, strays>>
queue == <<events, overflow>>
looking == <<initial, slot, found>>
calls == <<caller, doomed, todo, target>>
hooks == <<index, link, attached, entries>>
numbers == <<generation, epoch, origin>>
vars == <<devices, privates, queue, file, run, pc, looking, calls, hooks, private, numbers>>

NoDevice == [index |-> 0, birth |-> 0]
Device == [index : Indices, birth : Births] \cup {NoDevice}

Free == 0              \* no filter of priority 1
Foreign == -1          \* somebody else's

NoFile == [filters |-> {}, dummy |-> 0]
NoTarget == [index |-> 0, id |-> 0, birth |-> 0]

Exists(i) == device[i] # NoDevice

TypeOK ==
    /\ device \in [Slots -> Device]
    /\ filter \in [Slots -> Runs \cup {Free, Foreign}]
    /\ births \in 0 .. MaxBirth
    /\ lost \subseteq Slots
    /\ dummies \subseteq Runs
    /\ strays \subseteq Runs
    /\ events \subseteq Indices
    /\ overflow \in BOOLEAN
    /\ file \in [filters : SUBSET (Indices \X Runs), dummy : 0 .. MaxRun]
    /\ run \in 0 .. MaxRun
    /\ pc \in Steps
    /\ initial \in BOOLEAN
    /\ slot \in Slots
    /\ found \in Indices \cup {0}
    /\ caller \in Callers
    /\ doomed \subseteq Indices
    /\ todo \subseteq Indices \X Runs
    /\ target \in [index : Indices \cup {0}, id : 0 .. MaxRun, birth : 0 .. MaxBirth]
    /\ index \in [Slots -> Indices \cup {0}]
    /\ link \in [Slots -> 0 .. MaxBirth]
    /\ attached \subseteq Indices
    /\ private \in BOOLEAN
    /\ generation \in [Slots -> 0 .. MaxEpoch]
    /\ epoch \in 0 .. MaxEpoch
    /\ entries \in [Indices -> 0 .. MaxEpoch]
    /\ origin \in [1 .. MaxEpoch -> 0 .. MaxBirth]

\* The memory of a daemon that has just been started, or that is gone.
Fresh ==
    /\ events' = {} /\ overflow' = FALSE
    /\ initial' = TRUE /\ slot' = 1 /\ found' = 0
    /\ caller' = "nobody" /\ doomed' = {} /\ todo' = {} /\ target' = NoTarget
    /\ index' = [i \in Slots |-> 0]
    /\ link' = [i \in Slots |-> 0]
    /\ attached' = {} /\ private' = FALSE
    /\ generation' = [i \in Slots |-> 0]
    /\ epoch' = 0
    /\ entries' = [idx \in Indices |-> 0]
    /\ origin' = [g \in 1 .. MaxEpoch |-> 0]

Init ==
    /\ device = [i \in Slots |-> NoDevice]
    /\ filter = [i \in Slots |-> Free]
    /\ births = 0 /\ lost = {}
    /\ dummies = {} /\ strays = {}
    /\ file = NoFile
    /\ run = 0
    /\ pc = "down"
    /\ events = {} /\ overflow = FALSE
    /\ initial = TRUE /\ slot = 1 /\ found = 0
    /\ caller = "nobody" /\ doomed = {} /\ todo = {} /\ target = NoTarget
    /\ index = [i \in Slots |-> 0]
    /\ link = [i \in Slots |-> 0]
    /\ attached = {} /\ private = FALSE
    /\ generation = [i \in Slots |-> 0]
    /\ epoch = 0
    /\ entries = [idx \in Indices |-> 0]
    /\ origin = [g \in 1 .. MaxEpoch |-> 0]

----------------------------------------------------------------------------
(* The world: devices come and go, and others use priority 1.              *)

daemon == <<privates, file, run, pc, looking, calls, hooks, private, numbers>>

\* The route socket is open.
Listening == pc \notin {"down", "recover", "stale", "check", "dummy", "alias", "private"} /\ caller # "stale"

Create(i, idx) ==
    /\ births < MaxBirth /\ ~Exists(i)
    /\ \A j \in Slots : device[j].index # idx
    /\ births' = births + 1
    /\ device' = [device EXCEPT ![i] = [index |-> idx, birth |-> births + 1]]
    /\ UNCHANGED <<filter, lost, daemon, queue>>

\* The message is queued, or lost with an overflow the daemon will notice.
Remove(i) ==
    /\ Exists(i)
    /\ device' = [device EXCEPT ![i] = NoDevice]
    /\ filter' = [filter EXCEPT ![i] = Free]
    /\ lost' = lost \ {i}
    /\ \/ /\ events' = IF Listening THEN events \cup {device[i].index} ELSE events
          /\ UNCHANGED overflow
       \/ /\ Listening
          /\ overflow' = TRUE
          /\ UNCHANGED events
    /\ UNCHANGED <<births, daemon>>

\* Another program installs a filter of priority 1, or removes its own.
Occupy(i) ==
    /\ Exists(i)
    /\ \/ filter[i] = Free /\ filter' = [filter EXCEPT ![i] = Foreign]
       \/ filter[i] = Foreign /\ filter' = [filter EXCEPT ![i] = Free]
    /\ UNCHANGED <<device, births, lost, daemon, queue>>

----------------------------------------------------------------------------
(* Filters, links and the state file.                                      *)

Goto(step) == pc' = step

Records(indices) == indices \X {run}

\* save_state().
Saved(indices) == [filters |-> Records(indices), dummy |-> run]

\* A mutant of ff_detach() that does not compare the program id.
OwnsAny(f, id) == f # Free

\* ff_detach() compares it.
Owns(f, id) == f = id

\* The WANs whose filter is that of a record.
Bearers(r) == {i \in Slots : device[i].index = r[1] /\ filter[i] = r[2]}

\* ff_detach() of these records, one after the other.
Call(who, records) ==
    /\ caller' = who /\ todo' = records
    /\ Goto("query")
    /\ UNCHANGED target

\* The record is dropped, whatever has become of its filter.
Drop(r) ==
    /\ todo' = todo \ {r}
    /\ attached' = attached \ {r[1]}

\* bpf_tc_query(): no filter of ours there any more, or it fails.
QueryMisses ==
    /\ pc = "query"
    /\ \E r \in todo : Drop(r) /\ lost' = lost \cup Bearers(r)
    /\ UNCHANGED <<device, filter, births, privates, queue, file, run, pc, looking, caller, doomed, target,
                   index, link, entries, private, numbers>>

QueryFinds ==
    /\ pc = "query"
    /\ \E r \in todo, i \in Slots :
          /\ device[i].index = r[1] /\ Owns(filter[i], r[2])
          /\ target' = [index |-> r[1], id |-> r[2], birth |-> device[i].birth]
    /\ Goto("detach")
    /\ UNCHANGED <<devices, privates, queue, file, run, looking, caller, doomed, todo, hooks, private, numbers>>

\* bpf_tc_detach() removes what is on the ifindex by now, or fails with a warning.
Detach ==
    /\ pc = "detach"
    /\ LET r == <<target.index, target.id>> IN
          /\ \/ \E i \in Slots :
                   /\ device[i].index = target.index /\ filter[i] # Free
                   /\ filter' = [filter EXCEPT ![i] = Free]
                   /\ lost' = lost \ {i}
             \/ UNCHANGED filter /\ lost' = lost \cup Bearers(r)
          /\ Drop(r)
    /\ target' = NoTarget
    /\ Goto("query")
    /\ UNCHANGED <<device, births, privates, queue, file, run, looking, caller, doomed, index, link, entries,
                   private, numbers>>

Detached ==
    /\ pc = "query" /\ todo = {}
    /\ \/ caller = "stale" /\ caller' = "nobody" /\ Goto("stale")
       \/ caller = "out" /\ caller' = "nobody" /\ Goto("delete")
       \/ caller \in Forgetting /\ UNCHANGED caller /\ Goto("record")
    /\ UNCHANGED <<devices, privates, queue, file, run, looking, doomed, todo, target, hooks, private, numbers>>

\* A mutant of forget_index() that leaves the map alone.
KeepsEntry(idx) == entries

Disabled(idx) == [entries EXCEPT ![idx] = 0]

\* forget_index(): the map, the links by the ifindex their WAN had, then the
\* filter and the file.  The callers reset runtime.index; after a failure nobody
\* reads it any more.
ForgetIndex ==
    /\ pc = "forget"
    /\ \E idx \in doomed :
          /\ doomed' = doomed \ {idx}
          /\ entries' = Disabled(idx)
          /\ link' = [i \in Slots |-> IF index[i] = idx THEN 0 ELSE link[i]]
          /\ index' = [i \in Slots |-> IF index[i] = idx THEN 0 ELSE index[i]]
          /\ Call(caller, Records(attached \cap {idx}))
    /\ UNCHANGED <<devices, privates, queue, file, run, looking, attached, private, numbers>>

\* forget_index() of every ifindex in the set.
Forget(who, indices) == caller' = who /\ doomed' = indices /\ Goto("forget") /\ UNCHANGED <<todo, target>>

Hooked(i) == filter[i] = run /\ \E j \in Slots : link[j] = device[i].birth

----------------------------------------------------------------------------
(* The start of ff_run().                                                  *)

Start ==
    /\ pc = "down" /\ run < MaxRun
    /\ run' = run + 1
    /\ Goto("recover")
    /\ UNCHANGED <<devices, privates, queue, file, looking, calls, hooks, private, numbers>>

\* A mutant that goes by the new daemon's id.
OwnRecords(records) == {r \in records : r[2] = run}

StaleRecords(records) == records

\* stale_filters(): the filters on record, then the private device.
Recover ==
    /\ pc = "recover"
    /\ Call("stale", StaleRecords(file.filters))
    /\ UNCHANGED <<devices, privates, queue, file, run, looking, doomed, hooks, private, numbers>>

\* ip link delete, which may fail.
Delete(r) ==
    \/ dummies' = dummies \ {r} /\ strays' = strays \ {r}
    \/ UNCHANGED dummies /\ strays' = strays \cup (dummies \cap {r})

RecoverDummy ==
    /\ pc = "stale"
    /\ Delete(file.dummy)
    /\ Goto("check")
    /\ UNCHANGED <<devices, queue, file, run, looking, calls, hooks, private, numbers>>

\* ff_check().
Check ==
    /\ pc = "check"
    /\ \A i \in Slots : Exists(i) /\ filter[i] = Free
    /\ Goto("dummy")
    /\ UNCHANGED <<devices, privates, queue, file, run, looking, calls, hooks, private, numbers>>

\* ff_dummy().
MakeDummy ==
    /\ pc = "dummy"
    /\ dummies' = dummies \cup {run}
    /\ Goto("alias")
    /\ UNCHANGED <<devices, strays, queue, file, run, looking, calls, hooks, private, numbers>>

\* The alias is set and the file written.
SaveDummy ==
    /\ pc = "alias"
    /\ file' = Saved({})
    /\ Goto("private")
    /\ UNCHANGED <<devices, privates, queue, run, looking, calls, hooks, private, numbers>>

\* ff_drop and ff_builder are attached and the route socket is opened.
MakePrivate ==
    /\ pc = "private"
    /\ private' = TRUE
    /\ Goto("look")
    /\ UNCHANGED <<devices, privates, queue, file, run, looking, calls, hooks, numbers>>

\* publish(), control_socket() and lease() after the first refresh().
Ready ==
    /\ pc = "publish"
    /\ initial' = FALSE
    /\ Goto("serve")
    /\ UNCHANGED <<devices, privates, queue, file, run, slot, found, calls, hooks, private, numbers>>

\* Any of the calls of the start fails; the private filters may be there by then.
StartFails ==
    /\ pc \in {"check", "dummy", "alias", "private", "publish"}
    /\ private' \in IF pc = "private" THEN BOOLEAN ELSE {private}
    /\ Goto("out")
    /\ UNCHANGED <<devices, privates, queue, file, run, looking, calls, hooks, numbers>>

----------------------------------------------------------------------------
(* refresh(), one WAN after the other.                                     *)

\* A mutant off by one.
OneMoreSlot(i) == i > Count

LastSlot(i) == i >= Count

NextSlot ==
    /\ found' = 0
    /\ IF LastSlot(slot) THEN slot' = 1 /\ Goto(IF initial THEN "publish" ELSE "poll")
                         ELSE slot' = slot + 1 /\ Goto("look")
    /\ UNCHANGED initial

Changed(i, idx) == idx # index[i]

\* ff_link().
Look ==
    /\ pc = "look"
    /\ found' = device[slot].index
    /\ found' # 0 \/ index[slot] # 0
    /\ IF Changed(slot, found') /\ index[slot] # 0 THEN Forget("change", {index[slot]})
       ELSE Goto(IF Changed(slot, found') THEN "priority" ELSE "enable") /\ UNCHANGED calls
    /\ UNCHANGED <<devices, privates, queue, file, run, initial, slot, hooks, private, numbers>>

\* The WAN was not there and still is not.
StillAbsent ==
    /\ pc = "look" /\ ~initial
    /\ ~Exists(slot) /\ index[slot] = 0
    /\ NextSlot
    /\ UNCHANGED <<devices, privates, queue, file, run, calls, hooks, private, numbers>>

\* The end of forget_index(); whether the file was written is ignored.
Record ==
    /\ pc = "record"
    /\ \/ file' = Saved(attached)
       \/ UNCHANGED file
    /\ caller' = IF doomed = {} THEN "nobody" ELSE caller
    /\ \/ doomed # {} /\ Goto("forget") /\ UNCHANGED looking
       \/ doomed = {} /\ caller = "change" /\ found = 0 /\ NextSlot
       \/ doomed = {} /\ caller = "change" /\ found # 0 /\ Goto("priority") /\ UNCHANGED looking
       \/ doomed = {} /\ caller = "failure" /\ Goto("out") /\ UNCHANGED looking
       \/ doomed = {} /\ caller = "event" /\ Goto("serve") /\ UNCHANGED looking
    /\ UNCHANGED <<devices, privates, queue, run, doomed, todo, target, hooks, private, numbers>>

\* ff_priority_available(), by name.
Priority ==
    /\ pc = "priority"
    /\ Exists(slot) /\ filter[slot] = Free
    /\ Goto("ingress")
    /\ UNCHANGED <<devices, privates, queue, file, run, looking, calls, hooks, private, numbers>>

\* bpf_program__attach_tcx() on whatever device has the ifindex by now.
AttachIngress ==
    /\ pc = "ingress"
    /\ \E i \in Slots :
          /\ device[i].index = found
          /\ link' = [link EXCEPT ![slot] = device[i].birth]
    /\ index' = [index EXCEPT ![slot] = found]
    /\ Goto("egress")
    /\ UNCHANGED <<devices, privates, queue, file, run, looking, calls, attached, entries, private, numbers>>

\* ff_attach(); the priority must still be free.
AttachEgress ==
    /\ pc = "egress"
    /\ \E i \in Slots :
          /\ device[i].index = found /\ filter[i] = Free
          /\ filter' = [filter EXCEPT ![i] = run]
    /\ attached' = attached \cup {found}
    /\ Goto("save")
    /\ UNCHANGED <<device, births, lost, privates, queue, file, run, looking, calls, index, link, entries,
                   private, numbers>>

\* A mutant that saves before it counts the new filter.
TooEarly(indices) == indices \ {found}

InTable(indices) == indices

\* save_state() in attach_one(), then the WAN gets a new generation.
SaveAttached ==
    /\ pc = "save" /\ epoch < MaxEpoch
    /\ file' = Saved(InTable(attached))
    /\ epoch' = epoch + 1
    /\ generation' = [generation EXCEPT ![slot] = epoch + 1]
    /\ origin' = [origin EXCEPT ![epoch + 1] = link[slot]]
    /\ Goto("enable")
    /\ UNCHANGED <<devices, privates, queue, run, looking, calls, hooks, private>>

\* The entry in the map interfaces.
Enable ==
    /\ pc = "enable"
    /\ entries' = [entries EXCEPT ![found] = generation[slot]]
    /\ NextSlot
    /\ UNCHANGED <<devices, privates, queue, file, run, calls, index, link, attached, private, numbers>>

\* attach_one() fails: somebody took the priority, the device has gone, the
\* file cannot be written.
AttachFails ==
    /\ pc \in {"egress", "save"}
    /\ Forget("failure", {found})
    /\ UNCHANGED <<devices, privates, queue, file, run, looking, hooks, private, numbers>>

\* Another call of refresh() fails, or a WAN is missing at the start.
RefreshFails ==
    /\ \/ pc = "look" /\ initial /\ ~Exists(slot)
       \/ pc \in {"priority", "ingress", "enable"}
    /\ Goto("out")
    /\ UNCHANGED <<devices, privates, queue, file, run, looking, calls, hooks, private, numbers>>

----------------------------------------------------------------------------
(* The loop of ff_run().                                                   *)

\* Every two seconds.
BeginRefresh ==
    /\ pc = "serve"
    /\ Goto("look")
    /\ UNCHANGED <<devices, privates, queue, file, run, looking, calls, hooks, private, numbers>>

NotDue ==
    /\ pc = "serve"
    /\ Goto("poll")
    /\ UNCHANGED <<devices, privates, queue, file, run, looking, calls, hooks, private, numbers>>

\* Mutant: an overflow is not noticed.
NothingLost == {}

\* A lost event could hide the reuse of an ifindex: nothing is certain any more.
AllAfterLoss == {index[i] : i \in Slots} \ {0}

\* link_events(): an error comes before the messages that are still queued.
LinkEvents ==
    /\ pc = "poll"
    /\ LET gone == IF overflow THEN AllAfterLoss ELSE events \cap {index[i] : i \in Slots} IN
          IF gone # {} THEN Forget("event", gone) ELSE Goto("serve") /\ UNCHANGED calls
    /\ overflow' = FALSE
    /\ events' = IF overflow THEN events ELSE {}
    /\ UNCHANGED <<devices, privates, file, run, looking, hooks, private, numbers>>

\* A signal or the command stop.
Quit ==
    /\ pc = "serve"
    /\ Goto("out")
    /\ UNCHANGED <<devices, privates, queue, file, run, looking, calls, hooks, private, numbers>>

----------------------------------------------------------------------------
(* The label out, and the end without it.                                  *)

\* The links, then ff_detach() of what is left in the table.
ReleaseLinks ==
    /\ pc = "out"
    /\ link' = [i \in Slots |-> 0]
    /\ Call("out", Records(attached))
    /\ UNCHANGED <<devices, privates, queue, file, run, looking, doomed, index, attached, entries, private, numbers>>

DeleteDummy ==
    /\ pc = "delete"
    /\ Delete(run)
    /\ Goto("unlink")
    /\ UNCHANGED <<devices, queue, file, run, looking, calls, hooks, private, numbers>>

\* The file goes if anything was ever attached.
Unlink ==
    /\ pc = "unlink"
    /\ file' = IF private THEN NoFile ELSE file
    /\ Goto("down")
    /\ Fresh
    /\ UNCHANGED <<devices, privates, run>>

\* The file lacks the filter or the private device that has just been made, or
\* could not be written.
FilterUnsaved == pc = "save" \/ caller = "failure"
DummyUnsaved == pc = "alias" \/ (~private /\ (pc \in {"out", "delete"} \/ caller = "out"))

\* SIGKILL.
Kill ==
    /\ pc # "down"
    /\ lost' = IF FilterUnsaved THEN lost \cup Bearers(<<found, run>>) ELSE lost
    /\ strays' = IF DummyUnsaved THEN strays \cup (dummies \cap {run}) ELSE strays
    /\ Goto("down")
    /\ Fresh
    /\ UNCHANGED <<device, filter, births, dummies, file, run>>

----------------------------------------------------------------------------
Refresh ==
    \/ Look \/ StillAbsent \/ Priority \/ AttachIngress \/ AttachEgress
    \/ SaveAttached \/ Enable \/ AttachFails \/ RefreshFails

Forgets == ForgetIndex \/ QueryMisses \/ QueryFinds \/ Detach \/ Detached \/ Record

Working ==
    \/ Recover \/ RecoverDummy \/ Forgets \/ Check \/ MakeDummy \/ SaveDummy \/ MakePrivate \/ Ready \/ StartFails
    \/ Refresh \/ BeginRefresh \/ NotDue \/ LinkEvents \/ Quit
    \/ ReleaseLinks \/ DeleteDummy \/ Unlink

World == \E i \in Slots : Remove(i) \/ Occupy(i) \/ \E idx \in Indices : Create(i, idx)

Next == World \/ Start \/ Working \/ Kill

Spec == Init /\ [][Next]_vars

\* The daemon goes on working, and its clock makes a refresh due again and
\* again; nothing is promised of the devices or of a restart.
Fairness == WF_vars(Working) /\ SF_vars(BeginRefresh)

FairSpec == Spec /\ Fairness

----------------------------------------------------------------------------
\* A filter or private device of the daemon that is not in the table of the
\* daemon that runs is in the state file, so that a later one can remove it; an
\* exit that is not a kill leaves nothing (lifecycle.c:448-454).  But for what
\* could not be detached or deleted, and what a kill kept from being recorded.
Accounted ==
    /\ \A i \in Slots : filter[i] \in Runs =>
          \/ filter[i] = run /\ pc # "down" /\ device[i].index \in attached
          \/ <<device[i].index, filter[i]>> \in file.filters
          \/ i \in lost
    /\ \A r \in dummies : (r = run /\ pc # "down") \/ r = file.dummy \/ r \in strays

\* stale_filters() has not been called yet, or is at work.
Recovering == pc \in {"down", "recover", "stale"} \/ caller = "stale"

\* A daemon that has been through stale_filters() finds no filter of an earlier
\* one on a WAN, or ff_check() would refuse to start (docs/validation.md:18),
\* and no private device (docs/validation.md:97): whenever the earlier ones
\* were killed, but for the same.
StartsClean ==
    ~Recovering =>
        /\ \A i \in Slots : filter[i] \in Runs => filter[i] = run \/ i \in lost
        /\ dummies \subseteq {run} \cup strays

\* The filter goes that bpf_tc_detach() finds on the ifindex, on another device
\* than bpf_tc_query() has found it on.
Reused(i) == pc = "detach" /\ device[i].index = target.index /\ device[i].birth # target.birth

\* Nobody else's filter is removed or replaced, also when an ifindex recorded
\* as the daemon's own belongs to another device by now; unless that other
\* device comes between the query and the detaching (attach.c:46-48).
ForeignStays ==
    [][\A i \in Slots : filter[i] = Foreign /\ device'[i] = device[i]
          => filter'[i] = Foreign \/ UNCHANGED daemon \/ Reused(i)]_vars

\* An ifindex that is enabled has both hooks on the very device its generation
\* was made for, or the daemon has yet to deal with the news that this device
\* is gone (docs/ebpf-implementation-spec.md:256, 290).
EnabledMeansHooked ==
    \A i \in Slots : LET idx == device[i].index IN
        Exists(i) /\ pc # "down" /\ entries[idx] # 0 =>
            \/ Hooked(i) /\ origin[entries[idx]] = device[i].birth
            \/ idx \in events \cup doomed \/ overflow
            \/ pc \in {"out", "delete", "unlink"} \/ caller = "out"

\* Every WAN that is there is hooked again and again, whatever events are lost
\* and ifindexes reused, unless the daemon ends (lifecycle.c:263).
Rehooked == []<>(pc = "down" \/ \A i \in Slots : Exists(i) => Hooked(i))
=============================================================================
