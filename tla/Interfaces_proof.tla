-------------------------- MODULE Interfaces_proof --------------------------
(***************************************************************************)
(* Proofs about Interfaces, for any number of WANs, devices, ifindexes and *)
(* daemons: the filters and private devices a daemon leaves are on record, *)
(* the next one removes all of them, an enabled ifindex is hooked and a    *)
(* filter of somebody else stays; with the exceptions the code has.        *)
(***************************************************************************)
EXTENDS Interfaces, TLAPS

USE InterfacesAssumption

----------------------------------------------------------------------------
(* The inductive invariants.                                               *)

\* A daemon that runs has a number, and a WAN that refresh() attaches an
\* ifindex.
Numbered == pc # "down" => run \in Runs
WithDevice == {"priority", "ingress", "egress", "save", "enable"}
Found == pc \in WithDevice => found # 0

\* Somebody waits while there is something to detach or to forget.
Calls == {"forget", "query", "detach", "record"}
Called ==
    /\ pc \in Calls => caller # "nobody"
    /\ pc \in {"forget", "record"} => caller \in Forgetting
    /\ pc \notin Calls => caller = "nobody"
    /\ pc \notin {"query", "detach"} => todo = {}
    /\ caller \notin Forgetting => doomed = {}
    /\ pc = "detach" => <<target.index, target.id>> \in todo
    /\ caller \in Forgetting \cup {"out"} => todo \subseteq Records(attached)
TypeInv == TypeOK /\ Numbered /\ Found /\ Called

\* A filter goes with its device, no two devices have the same ifindex or were
\* created at the same time, and a device that bpf_tc_query() has found a filter
\* on still has it.
OnDevices == \A i \in Slots : ~Exists(i) => filter[i] = Free
Distinct == \A i, j \in Slots : device[i].index = device[j].index /\ device[i].index # 0 => i = j
Born == \A i, j \in Slots :
    /\ device[i].birth <= births
    /\ device[i].birth = device[j].birth /\ device[i].birth # 0 => i = j
Aimed == pc = "detach" =>
    /\ target.birth <= births
    /\ \A i \in Slots : Exists(i) /\ device[i].birth = target.birth => filter[i] = target.id
Kept == OnDevices /\ Distinct /\ Born /\ Aimed

\* Between two daemons everything is in the state file; what stale_filters()
\* has been through is gone; a daemon that has been through it has everything
\* in its table, and in its file but for the filter it has just attached.
LeftOver == Recovering =>
    /\ \A i \in Slots : filter[i] \in Runs => <<device[i].index, filter[i]>> \in file.filters \/ i \in lost
    /\ dummies \subseteq {file.dummy} \cup strays
ToDo == caller = "stale" \/ pc = "stale" =>
    \A i \in Slots : filter[i] \in Runs => <<device[i].index, filter[i]>> \in todo \/ i \in lost
InTheTable == ~Recovering =>
    /\ \A i \in Slots : filter[i] \in Runs => (filter[i] = run /\ device[i].index \in attached) \/ i \in lost
    /\ dummies \subseteq {run} \cup strays
    /\ pc \in {"check", "dummy", "unlink"} => dummies \subseteq strays
InTheFile ==
    /\ \A idx \in attached : <<idx, run>> \in file.filters \/ (FilterUnsaved /\ idx = found)
    /\ ~Recovering /\ pc \notin {"check", "dummy", "unlink"} /\ ~DummyUnsaved => file.dummy = run
NothingYet == ~Listening => attached = {} /\ ~private
NothingLeft ==
    /\ caller = "out" => Records(attached) \subseteq todo
    /\ pc \in {"delete", "unlink"} => attached = {}
    /\ caller = "failure" /\ found \in attached => found \in doomed \/ <<found, run>> \in todo
AccountInv == LeftOver /\ ToDo /\ InTheTable /\ InTheFile /\ NothingYet /\ NothingLeft

\* The daemon may not know yet who has this ifindex, or is about to forget it.
Unread(idx) == idx \in events \/ overflow
Doubtful(idx) == Unread(idx) \/ idx \in doomed

Ending == pc \in {"out", "delete", "unlink"} \/ caller = "out"

\* A daemon that has no route socket yet has hooked nothing.
Unhooked == ~Listening =>
    /\ index = [i \in Slots |-> 0]
    /\ entries = [idx \in Indices |-> 0]

\* Unless it is in doubt, the ifindex recorded for a WAN is its device's, and
\* so is the one refresh() is busy with; what forget_index() detaches is not
\* recorded any more.
Known == \A j \in Slots : index[j] # 0 /\ ~Doubtful(index[j]) => device[j].index = index[j]
Busy ==
    /\ (pc \in WithDevice \/ caller = "change") /\ found # 0 => device[slot].index = found \/ Unread(found)
    /\ pc \in {"priority", "ingress"} => index[slot] = 0
    /\ caller = "change" => index[slot] = 0 \/ index[slot] \in doomed
    /\ pc \in {"egress", "save", "enable"} => index[slot] = found
Retired == caller \in Forgetting => \A r \in todo, j \in Slots : index[j] # r[1]

\* How far attach_one() has come with a WAN.
NoFilterYet(j) == j = slot /\ pc = "egress"
NoGenerationYet(j) == j = slot /\ pc \in {"egress", "save"}

\* A recorded WAN that is not in doubt has its link, its filter and a
\* generation made for its device.
Epochs == \A j \in Slots : generation[j] \in 0 .. epoch
Whole(j) ==
    /\ link[j] = device[j].birth
    /\ ~NoFilterYet(j) => filter[j] = run
    /\ ~NoGenerationYet(j) => generation[j] \in 1 .. epoch /\ origin[generation[j]] = device[j].birth
Attached == ~Ending => \A j \in Slots : index[j] # 0 /\ ~Doubtful(index[j]) => Whole(j)

\* An entry of the map is a recorded WAN's, with its present generation.
Entered == ~Ending =>
    /\ \A idx \in Indices : entries[idx] # 0 => \E j \in Slots : index[j] = idx
    /\ \A j \in Slots : index[j] # 0 /\ ~Doubtful(index[j]) /\ entries[index[j]] # 0 =>
          entries[index[j]] = generation[j] /\ ~NoGenerationYet(j)

HookInv == Unhooked /\ Known /\ Busy /\ Retired /\ Epochs /\ Attached /\ Entered

----------------------------------------------------------------------------
(* Devices, filters and records.                                           *)

LEMMA Numbers ==
    /\ Free = 0 /\ Foreign = -1 /\ Free \notin Runs /\ Foreign \notin Runs
    /\ 0 \notin Indices /\ Indices \subseteq Nat
    /\ 1 \in Slots
    /\ \A r \in Runs : r \in 0 .. MaxRun /\ r # 0
  BY DEF Free, Foreign, Runs, Slots

LEMMA DeviceTypes ==
    ASSUME TypeOK, NEW i \in Slots
    PROVE  /\ device[i].index \in Indices \cup {0}
           /\ device[i].birth \in 0 .. MaxBirth
           /\ Exists(i) <=> device[i].index # 0
           /\ Exists(i) => device[i].birth # 0
  <1>1. device[i] \in Device
    BY DEF TypeOK
  <1>2. CASE device[i] = NoDevice
    BY <1>2 DEF NoDevice, Exists
  <1>3. CASE device[i] \in [index : Indices, birth : Births]
    <2>1. device[i].index \in Indices /\ device[i].birth \in Births
      BY <1>3
    <2>2. device[i].index # 0
      BY <2>1, Numbers
    <2>3. device[i] # NoDevice
      BY <2>2 DEF NoDevice
    <2> QED BY <2>1, <2>2, <2>3 DEF Exists, Births
  <1> QED BY <1>1, <1>2, <1>3 DEF Device

\* The record taken off todo is no longer in the table, and the others are.
LEMMA DropTypes ==
    ASSUME TypeInv, NEW r \in todo, Drop(r), UNCHANGED <<caller, run>>
    PROVE  /\ r = <<r[1], r[2]>> /\ r[1] \in Indices /\ r[2] \in Runs
           /\ todo' \subseteq Indices \X Runs /\ todo' \subseteq todo
           /\ attached' \subseteq Indices /\ attached' \subseteq attached
           /\ caller \in Forgetting \cup {"out"} => todo' \subseteq Records(attached')
  <1>1. todo \subseteq Indices \X Runs /\ attached \subseteq Indices
    BY DEF TypeInv, TypeOK
  <1>2. r = <<r[1], r[2]>> /\ r[1] \in Indices /\ r[2] \in Runs
    BY <1>1
  <1>3. todo' = todo \ {r} /\ attached' = attached \ {r[1]}
    BY DEF Drop
  <1>4. ASSUME caller \in Forgetting \cup {"out"}, NEW q \in todo' PROVE q \in Records(attached')
    <2>1. todo \subseteq Records(attached)
      BY <1>4 DEF TypeInv, Called
    <2>2. q \in attached \X {run} /\ r \in attached \X {run} /\ q # r
      BY <1>3, <1>4, <2>1 DEF Records
    <2>3. q[1] # r[1]
      BY <2>2
    <2> QED BY <1>3, <2>2, <2>3 DEF Records
  <1> QED BY <1>1, <1>2, <1>3, <1>4

LEMMA Blank ==
    /\ [i \in Slots |-> 0] \in [Slots -> Indices \cup {0}]
    /\ [i \in Slots |-> 0] \in [Slots -> 0 .. MaxBirth]
    /\ [i \in Slots |-> 0] \in [Slots -> 0 .. MaxEpoch]
    /\ [idx \in Indices |-> 0] \in [Indices -> 0 .. MaxEpoch]
    /\ [g \in 1 .. MaxEpoch |-> 0] \in [1 .. MaxEpoch -> 0 .. MaxBirth]
    /\ 0 \in 0 .. MaxEpoch /\ 0 \in 0 .. MaxBirth /\ 0 \in 0 .. MaxRun
    /\ NoTarget \in [index : Indices \cup {0}, id : 0 .. MaxRun, birth : 0 .. MaxBirth]
  BY DEF NoTarget

LEMMA FreshTypes ==
    ASSUME Fresh
    PROVE  /\ events' \subseteq Indices /\ overflow' \in BOOLEAN /\ initial' \in BOOLEAN
           /\ slot' \in Slots /\ found' \in Indices \cup {0}
           /\ caller' = "nobody" /\ doomed' = {} /\ todo' = {}
           /\ target' \in [index : Indices \cup {0}, id : 0 .. MaxRun, birth : 0 .. MaxBirth]
           /\ index' \in [Slots -> Indices \cup {0}] /\ link' \in [Slots -> 0 .. MaxBirth]
           /\ attached' \subseteq Indices /\ private' \in BOOLEAN
           /\ generation' \in [Slots -> 0 .. MaxEpoch] /\ epoch' \in 0 .. MaxEpoch
           /\ entries' \in [Indices -> 0 .. MaxEpoch]
           /\ origin' \in [1 .. MaxEpoch -> 0 .. MaxBirth]
  BY Blank, Numbers, Zenon DEF Fresh

LEMMA NextSlotTypes ==
    ASSUME TypeOK, NextSlot
    PROVE  /\ slot' \in Slots /\ found' = 0 /\ initial' \in BOOLEAN
           /\ pc' \in {"publish", "poll", "look"}
  BY DEF TypeOK, NextSlot, LastSlot, Goto, Slots

----------------------------------------------------------------------------
(* Type correctness.                                                       *)

LEMMA WorldTypes == ASSUME TypeInv, World PROVE TypeInv'
  <1> USE DEF TypeInv
  <1>1. UNCHANGED daemon
    BY DEF World, Remove, Occupy, Create
  <1>2. PICK i \in Slots : Remove(i) \/ Occupy(i) \/ \E idx \in Indices : Create(i, idx)
    BY DEF World
  <1>3. NoDevice \in Device /\ Free \in Runs \cup {Free, Foreign} /\ Foreign \in Runs \cup {Free, Foreign}
    BY DEF Device
  <1>4. /\ device' \in [Slots -> Device]
        /\ filter' \in [Slots -> Runs \cup {Free, Foreign}]
        /\ births' \in 0 .. MaxBirth
        /\ lost' \subseteq Slots
        /\ events' \subseteq Indices
        /\ overflow' \in BOOLEAN
    <2>1. CASE Remove(i)
      <3>1. device[i].index \in Indices
        BY <2>1, DeviceTypes, Numbers DEF Remove
      <3> QED BY <2>1, <3>1, <1>3, Zenon DEF Remove, TypeOK
    <2>2. CASE Occupy(i)
      BY <2>2, <1>3, Zenon DEF Occupy, TypeOK, queue
    <2>3. ASSUME NEW idx \in Indices, Create(i, idx)
          PROVE  /\ device' \in [Slots -> Device]
                 /\ births' \in 0 .. MaxBirth
                 /\ UNCHANGED <<filter, lost, events, overflow>>
      <3>1. births' \in Births /\ births' = births + 1
        BY <2>3 DEF Create, TypeOK, Births
      <3>2. [index |-> idx, birth |-> births'] \in Device
        BY <3>1 DEF Device
      <3>3. device' \in [Slots -> Device]
        BY <2>3, <3>1, <3>2, Zenon DEF Create, TypeOK
      <3>4. births' \in 0 .. MaxBirth
        BY <3>1 DEF Births
      <3> QED BY <2>3, <3>3, <3>4 DEF Create, queue
    <2> QED BY <1>2, <2>1, <2>2, <2>3, Zenon DEF TypeOK
  <1>5. UNCHANGED <<pc, run, found, caller, doomed, todo, target, attached>>
    BY <1>1 DEF daemon, looking, calls, hooks
  <1>6. Numbered' /\ Found' /\ Called'
    BY <1>5 DEF Numbered, Found, Called, Records
  <1> QED BY <1>1, <1>4, <1>6, Zenon DEF TypeOK, daemon, privates, looking, calls, hooks, numbers

\* Nobody waits for ff_detach().
LEMMA QuietCalls ==
    ASSUME Called, UNCHANGED calls, pc \notin Calls, pc' \notin Calls
    PROVE  Called'
  BY DEF Called, Calls, calls, Forgetting

\* The steps of forget_index() and ff_detach().
LEMMA ForgetsTypes == ASSUME TypeInv, Forgets PROVE TypeInv'
  <1> USE DEF Goto, devices, privates, queue, looking, calls, hooks, numbers, Steps
  <1>0. TypeOK /\ Numbered /\ Found /\ Called
    BY DEF TypeInv
  <1>1. CASE ForgetIndex
    <2>1. PICK idx \in doomed :
             /\ doomed' = doomed \ {idx}
             /\ entries' = Disabled(idx)
             /\ link' = [i \in Slots |-> IF index[i] = idx THEN 0 ELSE link[i]]
             /\ index' = [i \in Slots |-> IF index[i] = idx THEN 0 ELSE index[i]]
             /\ Call(caller, Records(attached \cap {idx}))
      BY <1>1 DEF ForgetIndex
    <2>2. run \in Runs /\ caller \in Forgetting /\ idx \in Indices
      BY <1>0, <1>1, <2>1 DEF ForgetIndex, Numbered, Called, TypeOK
    <2>3. entries' \in [Indices -> 0 .. MaxEpoch]
      BY <1>0, <2>1, <2>2 DEF TypeOK, Disabled
    <2>4. link' \in [Slots -> 0 .. MaxBirth] /\ index' \in [Slots -> Indices \cup {0}]
      <3>1. \A i \in Slots : link[i] \in 0 .. MaxBirth /\ index[i] \in Indices \cup {0} /\ 0 \in 0 .. MaxBirth
        BY <1>0 DEF TypeOK
      <3> QED BY <2>1, <3>1
    <2>5. todo' \subseteq Indices \X Runs /\ todo' \subseteq Records(attached) /\ caller' = caller /\ pc' = "query"
          /\ target' = target
      BY <1>0, <2>1, <2>2 DEF Call, Records, TypeOK
    <2>6. Called'
      BY <1>0, <1>1, <2>2, <2>5 DEF ForgetIndex, Called, Calls, Records, Forgetting
    <2>7. TypeOK'
      BY <1>0, <1>1, <2>1, <2>3, <2>4, <2>5 DEF ForgetIndex, TypeOK
    <2> QED BY <1>0, <1>1, <2>5, <2>6, <2>7 DEF TypeInv, ForgetIndex, Numbered, Found, WithDevice
  <1>2. CASE QueryMisses
    <2>1. PICK r \in todo : Drop(r) /\ lost' = lost \cup Bearers(r)
      BY <1>2 DEF QueryMisses
    <2>2. lost' \subseteq Slots
      BY <1>0, <2>1 DEF TypeOK, Bearers
    <2>3. UNCHANGED <<caller, run>>
      BY <1>2 DEF QueryMisses
    <2>4. /\ todo' \subseteq Indices \X Runs /\ attached' \subseteq Indices
          /\ caller \in Forgetting \cup {"out"} => todo' \subseteq Records(attached')
      BY <2>1, <2>3, DropTypes
    <2>5. Called'
      BY <1>0, <1>2, <2>4 DEF QueryMisses, Called, Calls, Records
    <2>6. TypeOK'
      BY <1>0, <1>2, <2>2, <2>4 DEF QueryMisses, TypeOK
    <2> QED BY <1>0, <1>2, <2>5, <2>6 DEF TypeInv, QueryMisses, Numbered, Found, WithDevice
  <1>3. CASE QueryFinds
    <2>1. PICK r \in todo, i \in Slots : target' = [index |-> r[1], id |-> r[2], birth |-> device[i].birth]
      BY <1>3 DEF QueryFinds
    <2>2. r \in Indices \X Runs
      BY <1>0, <2>1 DEF TypeOK
    <2>3. target' \in [index : Indices \cup {0}, id : 0 .. MaxRun, birth : 0 .. MaxBirth]
      BY <1>0, <2>1, <2>2, DeviceTypes, Numbers
    <2>4. <<target'.index, target'.id>> = r
      BY <2>1, <2>2
    <2>5. Called'
      BY <1>0, <1>3, <2>4 DEF QueryFinds, Called, Calls, Records
    <2>6. TypeOK'
      BY <1>0, <1>3, <2>3 DEF QueryFinds, TypeOK
    <2> QED BY <1>0, <1>3, <2>5, <2>6 DEF TypeInv, QueryFinds, Numbered, Found, WithDevice
  <1>4. CASE Detach
    <2> DEFINE r == <<target.index, target.id>>
    <2>1. r \in todo /\ Drop(r) /\ UNCHANGED <<caller, run>>
      BY <1>0, <1>4 DEF Detach, Called
    <2>2. lost' \subseteq Slots
      BY <1>0, <1>4 DEF Detach, TypeOK, Bearers
    <2>3. filter' \in [Slots -> Runs \cup {Free, Foreign}]
      BY <1>0, <1>4 DEF Detach, TypeOK
    <2> HIDE DEF r
    <2>4. /\ todo' \subseteq Indices \X Runs /\ attached' \subseteq Indices
          /\ caller \in Forgetting \cup {"out"} => todo' \subseteq Records(attached')
      BY <2>1, DropTypes
    <2>5. Called'
      BY <1>0, <1>4, <2>4 DEF Detach, Called, Calls, Records
    <2>6. TypeOK'
      BY <1>0, <1>4, <2>2, <2>3, <2>4, Blank DEF Detach, TypeOK
    <2> QED BY <1>0, <1>4, <2>5, <2>6 DEF TypeInv, Detach, Numbered, Found, WithDevice
  <1>5. CASE Detached
    <2>1. Called'
      BY <1>0, <1>5 DEF Detached, Called, Calls, Forgetting
    <2>2. TypeOK'
      BY <1>0, <1>5 DEF Detached, TypeOK, Callers
    <2> QED BY <1>0, <1>5, <2>1, <2>2 DEF TypeInv, Detached, Numbered, Found, WithDevice
  <1>6. CASE Record
    <2>1. run \in Runs /\ todo = {} /\ caller \in Forgetting
      BY <1>0, <1>6 DEF Record, Numbered, Called
    <2>2. file' \in [filters : SUBSET (Indices \X Runs), dummy : 0 .. MaxRun]
      <3>1. Saved(attached) \in [filters : SUBSET (Indices \X Runs), dummy : 0 .. MaxRun]
        BY <1>0, <2>1, Numbers DEF Saved, Records, TypeOK
      <3> QED BY <1>0, <1>6, <3>1 DEF Record, TypeOK
    <2>3. /\ slot' \in Slots /\ found' \in Indices \cup {0} /\ initial' \in BOOLEAN
          /\ pc' \in {"forget", "publish", "poll", "look", "priority", "out", "serve"}
          /\ pc' = "priority" => found' # 0
          /\ pc' = "forget" <=> doomed # {}
      BY <1>0, <1>6, NextSlotTypes DEF Record, TypeOK
    <2>4. Called'
      BY <1>0, <1>6, <2>1, <2>3 DEF Record, Called, Calls, Forgetting
    <2>5. caller' \in Callers
      BY <1>0, <1>6 DEF Record, TypeOK, Callers
    <2>6. TypeOK'
      BY <1>0, <1>6, <2>2, <2>3, <2>5 DEF Record, TypeOK
    <2> QED BY <1>6, <2>1, <2>3, <2>4, <2>6 DEF TypeInv, Record, Numbered, Found, WithDevice
  <1> QED BY <1>1, <1>2, <1>3, <1>4, <1>5, <1>6 DEF Forgets

\* The steps of the start and of the end.
LEMMA StartTypes ==
    ASSUME TypeInv,
           \/ Start \/ Recover \/ RecoverDummy \/ Check \/ MakeDummy \/ SaveDummy \/ MakePrivate \/ Ready
           \/ StartFails \/ ReleaseLinks \/ DeleteDummy \/ Unlink
    PROVE  TypeInv'
  <1> USE Numbers DEF Goto, devices, privates, queue, looking, hooks, numbers, Steps, WithDevice
  <1>0. TypeOK /\ Numbered /\ Found /\ Called /\ (pc # "down" => run \in Runs)
    BY DEF TypeInv, Numbered
  <1>1. CASE Start
    <2>1. Called'
      BY <1>0, <1>1, QuietCalls DEF Start, Calls
    <2> QED BY <1>0, <1>1, <2>1 DEF TypeInv, Start, TypeOK, Numbered, Found, Runs, calls
  <1>2. CASE Recover
    <2>1. caller = "nobody" /\ doomed = {}
      BY <1>0, <1>2 DEF Recover, Called, Calls, Forgetting
    <2>2. Called'
      BY <1>2, <2>1 DEF Recover, Call, Called, Calls, Forgetting
    <2>3. todo' \subseteq Indices \X Runs
      <3>1. file.filters \subseteq Indices \X Runs
        BY <1>0 DEF TypeOK
      <3> QED BY <1>2, <3>1 DEF Recover, Call, StaleRecords
    <2> QED BY <1>0, <1>2, <2>2, <2>3 DEF TypeInv, Recover, Call, TypeOK, Callers, Numbered, Found
  <1>3. CASE RecoverDummy \/ DeleteDummy
    <2>1. Called'
      BY <1>0, <1>3, QuietCalls DEF RecoverDummy, DeleteDummy, Calls
    <2>2. dummies' \subseteq Runs /\ strays' \subseteq Runs
      BY <1>0, <1>3 DEF RecoverDummy, DeleteDummy, Delete, TypeOK
    <2> QED BY <1>0, <1>3, <2>1, <2>2 DEF TypeInv, RecoverDummy, DeleteDummy, TypeOK, Numbered, Found, calls
  <1>4. CASE Check \/ MakeDummy \/ MakePrivate \/ Ready \/ StartFails
    <2>1. Called'
      BY <1>0, <1>4, QuietCalls DEF Check, MakeDummy, MakePrivate, Ready, StartFails, Calls
    <2> QED BY <1>0, <1>4, <2>1 DEF TypeInv, Check, MakeDummy, MakePrivate, Ready, StartFails, TypeOK, Numbered,
              Found, calls
  <1>5. CASE SaveDummy
    <2>1. Called'
      BY <1>0, <1>5, QuietCalls DEF SaveDummy, Calls
    <2>2. file' \in [filters : SUBSET (Indices \X Runs), dummy : 0 .. MaxRun]
      BY <1>0, <1>5 DEF SaveDummy, Saved, Records
    <2> QED BY <1>0, <1>5, <2>1, <2>2 DEF TypeInv, SaveDummy, TypeOK, Numbered, Found, calls
  <1>6. CASE ReleaseLinks
    <2>1. caller = "nobody" /\ doomed = {} /\ run \in Runs
      BY <1>0, <1>6 DEF ReleaseLinks, Called, Calls, Forgetting
    <2>2. Called'
      BY <1>6, <2>1 DEF ReleaseLinks, Call, Called, Calls, Forgetting, Records
    <2>3. link' \in [Slots -> 0 .. MaxBirth]
      BY <1>6, Blank DEF ReleaseLinks
    <2>4. todo' \subseteq Indices \X Runs
      BY <1>0, <1>6, <2>1 DEF ReleaseLinks, Call, Records, TypeOK
    <2> QED BY <1>0, <1>6, <2>2, <2>3, <2>4 DEF TypeInv, ReleaseLinks, Call, TypeOK, Callers, Numbered, Found
  <1>7. CASE Unlink
    <2>1. file' \in [filters : SUBSET (Indices \X Runs), dummy : 0 .. MaxRun]
      BY <1>0, <1>7 DEF Unlink, NoFile, TypeOK
    <2>2. Called'
      BY <1>7, FreshTypes DEF Unlink, Called, Calls, Forgetting
    <2> QED BY <1>0, <1>7, <2>1, <2>2, FreshTypes DEF TypeInv, Unlink, TypeOK, Numbered, Found, Callers
  <1> QED BY <1>1, <1>2, <1>3, <1>4, <1>5, <1>6, <1>7

\* The steps of refresh() and of the loop.
LEMMA RefreshTypes ==
    ASSUME TypeInv, Refresh \/ BeginRefresh \/ NotDue \/ LinkEvents \/ Quit
    PROVE  TypeInv'
  <1> USE Numbers DEF Goto, devices, privates, queue, looking, hooks, numbers, Steps, WithDevice
  <1>0. TypeOK /\ Numbered /\ Found /\ Called /\ (pc # "down" => run \in Runs)
    BY DEF TypeInv, Numbered
  <1>1. ASSUME NEW who \in Forgetting, NEW indices \in SUBSET Indices, Forget(who, indices), pc \notin Calls,
               pc # "down", UNCHANGED run
        PROVE  /\ Called' /\ Numbered' /\ Found'
               /\ caller' \in Callers /\ doomed' \subseteq Indices /\ UNCHANGED <<todo, target>> /\ pc' \in Steps
    BY <1>0, <1>1 DEF Forget, Called, Calls, Forgetting, Callers, Numbered, Found
  <1>2. CASE Look
    <2>1. found' \in Indices \cup {0} /\ index[slot] \in Indices \cup {0} /\ run \in Runs
      BY <1>0, <1>2, DeviceTypes DEF Look, TypeOK
    <2>2. CASE Changed(slot, found') /\ index[slot] # 0
      <3>1. Forget("change", {index[slot]}) /\ {index[slot]} \in SUBSET Indices
        BY <1>2, <2>1, <2>2 DEF Look
      <3>2. /\ Called' /\ Numbered' /\ Found'
            /\ caller' \in Callers /\ doomed' \subseteq Indices /\ UNCHANGED <<todo, target>> /\ pc' \in Steps
        BY <1>1, <1>2, <3>1 DEF Look, Calls, Forgetting
      <3> QED BY <1>0, <1>2, <2>1, <3>2 DEF TypeInv, Look, TypeOK
    <2>3. CASE ~(Changed(slot, found') /\ index[slot] # 0)
      <3>1. ~Changed(slot, found') => found' # 0
        BY <1>2 DEF Look, Changed
      <3>2. Changed(slot, found') => found' # 0
        BY <1>2, <2>3 DEF Look
      <3>3. UNCHANGED calls /\ pc' \in {"priority", "enable"}
        BY <1>2, <2>3 DEF Look
      <3>4. Called'
        BY <1>0, <1>2, <3>3, QuietCalls DEF Look, Calls
      <3> QED BY <1>0, <1>2, <2>1, <3>1, <3>2, <3>3, <3>4 DEF TypeInv, Look, TypeOK, Numbered, Found, calls
    <2> QED BY <2>2, <2>3
  <1>3. CASE StillAbsent \/ Priority \/ RefreshFails \/ BeginRefresh \/ NotDue \/ Quit
    <2>1. NextSlot => slot' \in Slots /\ found' = 0 /\ initial' \in BOOLEAN /\ pc' \in {"publish", "poll", "look"}
      BY <1>0, NextSlotTypes
    <2>2. Called'
      BY <1>0, <1>3, <2>1, QuietCalls DEF StillAbsent, Priority, RefreshFails, BeginRefresh, NotDue, Quit, Calls
    <2> QED BY <1>0, <1>3, <2>1, <2>2 DEF TypeInv, StillAbsent, Priority, RefreshFails, BeginRefresh, NotDue, Quit,
              TypeOK, Numbered, Found, calls
  <1>4. CASE AttachIngress
    <2>1. PICK i \in Slots : device[i].index = found /\ link' = [link EXCEPT ![slot] = device[i].birth]
      BY <1>4 DEF AttachIngress
    <2>2. link' \in [Slots -> 0 .. MaxBirth]
      BY <1>0, <2>1, DeviceTypes DEF TypeOK
    <2>3. index' \in [Slots -> Indices \cup {0}]
      BY <1>0, <1>4 DEF AttachIngress, TypeOK
    <2>4. Called'
      BY <1>0, <1>4, QuietCalls DEF AttachIngress, Calls
    <2> QED BY <1>0, <1>4, <2>2, <2>3, <2>4 DEF TypeInv, AttachIngress, TypeOK, Numbered, Found, calls
  <1>5. CASE AttachEgress
    <2>0. run \in Runs /\ found # 0
      BY <1>0, <1>5 DEF AttachEgress, Found
    <2>1. filter' \in [Slots -> Runs \cup {Free, Foreign}]
      BY <1>0, <1>5, <2>0 DEF AttachEgress, TypeOK
    <2>2. attached' \subseteq Indices
      BY <1>0, <1>5, <2>0 DEF AttachEgress, TypeOK
    <2>3. Called'
      BY <1>0, <1>5, QuietCalls DEF AttachEgress, Calls
    <2> QED BY <1>0, <1>5, <2>0, <2>1, <2>2, <2>3 DEF TypeInv, AttachEgress, TypeOK, Numbered, Found, calls
  <1>6. CASE SaveAttached
    <2>0. run \in Runs /\ found # 0
      BY <1>0, <1>6 DEF SaveAttached, Found
    <2>1. file' \in [filters : SUBSET (Indices \X Runs), dummy : 0 .. MaxRun]
      BY <1>0, <1>6, <2>0 DEF SaveAttached, Saved, Records, InTable, TypeOK
    <2>2. epoch + 1 \in 1 .. MaxEpoch /\ epoch + 1 \in 0 .. MaxEpoch /\ link[slot] \in 0 .. MaxBirth
      BY <1>0, <1>6 DEF SaveAttached, TypeOK
    <2>3. generation' \in [Slots -> 0 .. MaxEpoch] /\ origin' \in [1 .. MaxEpoch -> 0 .. MaxBirth]
      BY <1>0, <1>6, <2>2 DEF SaveAttached, TypeOK
    <2>4. Called'
      BY <1>0, <1>6, QuietCalls DEF SaveAttached, Calls
    <2> QED BY <1>0, <1>6, <2>0, <2>1, <2>2, <2>3, <2>4 DEF TypeInv, SaveAttached, TypeOK, Numbered, Found, calls
  <1>7. CASE Enable
    <2>1. entries' \in [Indices -> 0 .. MaxEpoch]
      BY <1>0, <1>7 DEF Enable, TypeOK
    <2>2. slot' \in Slots /\ found' = 0 /\ initial' \in BOOLEAN /\ pc' \in {"publish", "poll", "look"}
      BY <1>0, <1>7, NextSlotTypes DEF Enable
    <2>3. Called'
      BY <1>0, <1>7, <2>2, QuietCalls DEF Enable, Calls
    <2> QED BY <1>0, <1>7, <2>1, <2>2, <2>3 DEF TypeInv, Enable, TypeOK, Numbered, Found, calls
  <1>8. CASE AttachFails
    <2>1. {found} \in SUBSET Indices
      BY <1>0, <1>8 DEF AttachFails, Found, TypeOK
    <2>2. /\ Called' /\ Numbered' /\ Found'
          /\ caller' \in Callers /\ doomed' \subseteq Indices /\ UNCHANGED <<todo, target>> /\ pc' \in Steps
      BY <1>1, <1>8, <2>1 DEF AttachFails, Calls, Forgetting
    <2> QED BY <1>0, <1>8, <2>2 DEF TypeInv, AttachFails, TypeOK
  <1>9. CASE LinkEvents
    <2> DEFINE gone == IF overflow THEN AllAfterLoss ELSE events \cap {index[i] : i \in Slots}
    <2>1. IF gone # {} THEN Forget("event", gone) ELSE Goto("serve") /\ UNCHANGED calls
      BY <1>9, Zenon DEF LinkEvents
    <2>2. gone \in SUBSET Indices
      BY <1>0 DEF TypeOK, AllAfterLoss
    <2> HIDE DEF gone
    <2>3. overflow' \in BOOLEAN /\ events' \subseteq Indices
      BY <1>0, <1>9 DEF LinkEvents, TypeOK
    <2>4. CASE gone # {}
      <3>1. /\ Called' /\ Numbered' /\ Found'
            /\ caller' \in Callers /\ doomed' \subseteq Indices /\ UNCHANGED <<todo, target>> /\ pc' \in Steps
        BY <1>1, <1>9, <2>1, <2>2, <2>4 DEF LinkEvents, Calls, Forgetting
      <3> QED BY <1>0, <1>9, <2>3, <3>1 DEF TypeInv, LinkEvents, TypeOK
    <2>5. CASE gone = {}
      <3>1. pc' = "serve" /\ UNCHANGED calls
        BY <2>1, <2>5
      <3>2. Called'
        BY <1>0, <1>9, <3>1, QuietCalls DEF LinkEvents, Calls
      <3> QED BY <1>0, <1>9, <2>3, <3>1, <3>2 DEF TypeInv, LinkEvents, TypeOK, Numbered, Found, calls
    <2> QED BY <2>4, <2>5
  <1> QED BY <1>2, <1>3, <1>4, <1>5, <1>6, <1>7, <1>8, <1>9 DEF Refresh

LEMMA TypeInitially == Init => TypeInv
  <1> SUFFICES ASSUME Init PROVE TypeInv
    OBVIOUS
  <1>1. [i \in Slots |-> NoDevice] \in [Slots -> Device]
    BY DEF Device
  <1>2. [i \in Slots |-> Free] \in [Slots -> Runs \cup {Free, Foreign}]
    OBVIOUS
  <1>3. NoFile \in [filters : SUBSET (Indices \X Runs), dummy : 0 .. MaxRun]
    BY DEF NoFile
  <1>4. pc \in Steps /\ pc \notin WithDevice /\ caller \in Callers
    BY DEF Init, Steps, WithDevice, Callers
  <1>5. Called
    BY DEF Init, Called, Calls, Forgetting
  <1> QED BY <1>1, <1>2, <1>3, <1>4, <1>5, Blank, Numbers, Zenon DEF Init, TypeInv, TypeOK, Numbered, Found

LEMMA TypeStep == ASSUME TypeInv, [Next]_vars PROVE TypeInv'
  <1>1. CASE Kill
    <2>1. lost' \subseteq Slots /\ strays' \subseteq Runs
      BY <1>1 DEF Kill, TypeInv, TypeOK, Bearers
    <2>2. Called'
      BY <1>1, FreshTypes DEF Kill, Goto, Called, Calls, Forgetting
    <2>3. TypeOK'
      BY <1>1, <2>1, FreshTypes DEF Kill, TypeInv, TypeOK, Goto, Steps, Callers
    <2> QED BY <1>1, <2>2, <2>3 DEF Kill, TypeInv, Numbered, Found, Goto, WithDevice
  <1>2. CASE UNCHANGED vars
    <2>1. Called'
      BY <1>2 DEF TypeInv, Called, Records, vars, calls, hooks
    <2> QED BY <1>2, <2>1, Zenon DEF TypeInv, TypeOK, Numbered, Found, vars, devices, privates, queue, looking, calls,
              hooks, numbers
  <1> QED BY <1>1, <1>2, WorldTypes, StartTypes, ForgetsTypes, RefreshTypes DEF Next, Working

\* What the daemon has in its memory, its file and the kernel has its type.
THEOREM TypeCorrect == Spec => []TypeOK
  <1>1. Spec => []TypeInv
    BY TypeInitially, TypeStep, PTL DEF Spec
  <1>2. TypeInv => TypeOK
    BY DEF TypeInv
  <1> QED BY <1>1, <1>2, PTL

----------------------------------------------------------------------------
(* What the world and the daemon may do to a filter.                       *)

LEMMA WorldFilters ==
    ASSUME TypeOK, Kept, World, NEW j \in Slots
    PROVE  /\ filter'[j] \in Runs => filter'[j] = filter[j] /\ device'[j] = device[j] /\ (j \in lost => j \in lost')
           /\ filter[j] \in Runs /\ device'[j] = device[j] => filter'[j] = filter[j]
           /\ UNCHANGED daemon
  <1>1. PICK i \in Slots : Remove(i) \/ Occupy(i) \/ \E idx \in Indices : Create(i, idx)
    BY DEF World
  <1>2. CASE Remove(i)
    <2>1. device'[j] = (IF j = i THEN NoDevice ELSE device[j]) /\ filter'[j] = (IF j = i THEN Free ELSE filter[j])
          /\ lost' = lost \ {i}
      BY <1>2 DEF Remove, TypeOK
    <2> QED BY <1>2, <2>1, Numbers DEF Remove, Exists
  <1>3. CASE Occupy(i)
    <2>1. device' = device /\ filter' = [filter EXCEPT ![i] = filter'[i]] /\ lost' = lost
          /\ filter[i] \in {Free, Foreign} /\ filter'[i] \in {Free, Foreign} /\ UNCHANGED daemon
      BY <1>3 DEF Occupy, TypeOK
    <2>2. filter'[j] = (IF j = i THEN filter'[i] ELSE filter[j])
      BY <2>1 DEF TypeOK
    <2> QED BY <2>1, <2>2, Numbers
  <1>4. ASSUME NEW idx \in Indices, Create(i, idx)
        PROVE  /\ filter'[j] \in Runs \/ filter[j] \in Runs => filter'[j] = filter[j] /\ device'[j] = device[j]
               /\ lost' = lost
               /\ UNCHANGED daemon
    <2>1. filter' = filter /\ lost' = lost /\ UNCHANGED daemon /\ ~Exists(i)
      BY <1>4 DEF Create
    <2>2. filter[i] = Free
      BY <2>1 DEF Kept, OnDevices
    <2>3. j # i => device'[j] = device[j]
      BY <1>4 DEF Create, TypeOK
    <2> QED BY <2>1, <2>2, <2>3, Numbers
  <1> QED BY <1>1, <1>2, <1>3, <1>4

LEMMA DaemonFilters ==
    ASSUME TypeInv, Start \/ Working \/ Kill
    PROVE  /\ UNCHANGED <<device, births>>
           /\ \A i \in Slots :
                 \/ filter'[i] = filter[i]
                 \/ filter[i] = Free /\ Exists(i)
                 \/ filter'[i] = Free /\ pc = "detach" /\ device[i].index = target.index
  <1> USE DEF devices
  <1> DEFINE Safe == \A i \in Slots :
                 \/ filter'[i] = filter[i]
                 \/ filter[i] = Free /\ Exists(i)
                 \/ filter'[i] = Free /\ pc = "detach" /\ device[i].index = target.index
  <1>0. TypeOK
    BY DEF TypeInv
  <1>1. ASSUME Detach PROVE Safe
    <2>1. CASE filter' = filter
      BY <2>1
    <2>2. CASE filter' # filter
      <3>1. PICK i \in Slots : device[i].index = target.index /\ filter' = [filter EXCEPT ![i] = Free]
        BY <1>1, <2>2 DEF Detach
      <3>2. \A j \in Slots : filter'[j] = IF j = i THEN Free ELSE filter[j]
        BY <1>0, <3>1 DEF TypeOK
      <3> QED BY <1>1, <3>1, <3>2 DEF Detach
    <2> QED BY <2>1, <2>2
  <1>2. ASSUME AttachEgress PROVE Safe
    <2>1. PICK i \in Slots : device[i].index = found /\ filter[i] = Free /\ filter' = [filter EXCEPT ![i] = run]
      BY <1>2 DEF AttachEgress
    <2>2. found # 0
      BY <1>2 DEF AttachEgress, TypeInv, Found, WithDevice
    <2>3. Exists(i)
      BY <1>0, <2>1, <2>2, DeviceTypes
    <2>4. \A j \in Slots : j # i => filter'[j] = filter[j]
      BY <1>0, <2>1 DEF TypeOK
    <2> QED BY <2>1, <2>3, <2>4
  <1>3. filter' = filter \/ Detach \/ AttachEgress
    BY DEF Start, Working, Refresh, Forgets, Recover, RecoverDummy, ForgetIndex, QueryMisses, QueryFinds, Detached,
           Record, Check, MakeDummy, SaveDummy, MakePrivate, Ready, StartFails, Look, StillAbsent, Priority,
           AttachIngress, SaveAttached, Enable, AttachFails, RefreshFails, BeginRefresh, NotDue, LinkEvents, Quit,
           ReleaseLinks, DeleteDummy, Unlink, Kill
  <1>4. UNCHANGED <<device, births>>
    BY DEF Start, Working, Refresh, Forgets, Recover, RecoverDummy, ForgetIndex, QueryMisses, QueryFinds, Detached,
           Record, Check, MakeDummy, SaveDummy, MakePrivate, Ready, StartFails, Look, StillAbsent, Priority,
           AttachIngress, SaveAttached, Enable, AttachFails, RefreshFails, BeginRefresh, NotDue, LinkEvents, Quit,
           ReleaseLinks, DeleteDummy, Unlink, Kill, Detach, AttachEgress
  <1>5. ASSUME filter' = filter PROVE Safe
    BY <1>5
  <1> QED BY <1>1, <1>2, <1>3, <1>4, <1>5

----------------------------------------------------------------------------
(* Devices and their filters.                                              *)

LEMMA KeptWorld == ASSUME TypeInv, Kept, World PROVE Kept'
  <1>0. TypeOK
    BY DEF TypeInv
  <1>1. PICK i \in Slots : Remove(i) \/ Occupy(i) \/ \E idx \in Indices : Create(i, idx)
    BY DEF World
  <1>2. UNCHANGED <<pc, target>>
    BY DEF World, Remove, Occupy, Create, daemon, calls
  <1>3. pc = "detach" => target.id \in Runs
    BY <1>0 DEF TypeInv, TypeOK, Called
  <1>4. births \in Nat /\ target.birth \in Nat /\ \A j \in Slots : device[j].birth \in Nat
    <2>1. births \in Nat
      BY <1>0 DEF TypeOK
    <2>2. target.birth \in Nat
      BY <1>0 DEF TypeOK
    <2>3. \A j \in Slots : device[j].birth \in Nat
      BY <1>0, DeviceTypes
    <2> QED BY <2>1, <2>2, <2>3
  <1>5. CASE Remove(i)
    <2>1. \A j \in Slots : /\ device'[j] = IF j = i THEN NoDevice ELSE device[j]
                           /\ filter'[j] = IF j = i THEN Free ELSE filter[j]
      BY <1>0, <1>5 DEF Remove, TypeOK
    <2>2. births' = births
      BY <1>5 DEF Remove
    <2>3. NoDevice.birth = 0 /\ NoDevice.index = 0
      BY DEF NoDevice
    <2>4. OnDevices' /\ Distinct' /\ Born'
      BY <1>4, <2>1, <2>2, <2>3 DEF Kept, OnDevices, Distinct, Born, Exists
    <2>5. Aimed'
      BY <1>2, <2>1, <2>2 DEF Kept, Aimed, Exists
    <2> QED BY <2>4, <2>5 DEF Kept
  <1>6. CASE Occupy(i)
    <2>1. \A j \in Slots : j # i => filter'[j] = filter[j]
      BY <1>0, <1>6 DEF Occupy, TypeOK
    <2>2. UNCHANGED <<device, births>> /\ filter[i] \notin Runs /\ Exists(i)
      BY <1>6, Numbers DEF Occupy
    <2>3. OnDevices' /\ Distinct' /\ Born'
      BY <2>1, <2>2 DEF Kept, OnDevices, Distinct, Born, Exists
    <2>4. Aimed'
      BY <1>2, <1>3, <2>1, <2>2 DEF Kept, Aimed, Exists
    <2> QED BY <2>3, <2>4 DEF Kept
  <1>7. ASSUME NEW idx \in Indices, Create(i, idx) PROVE Kept'
    <2> DEFINE new == [index |-> idx, birth |-> births + 1]
    <2>1. \A j \in Slots : device'[j] = IF j = i THEN new ELSE device[j]
      BY <1>0, <1>7 DEF Create, TypeOK
    <2>2. new.index = idx /\ new.birth = births + 1
      OBVIOUS
    <2>3. births' = births + 1 /\ filter' = filter /\ ~Exists(i) /\ \A j \in Slots : device[j].index # idx
      BY <1>7 DEF Create
    <2>4. births + 1 # 0 /\ \A n \in Nat : n <= births => n <= births + 1 /\ n # births + 1
      BY <1>4
    <2> HIDE DEF new
    <2>5. Distinct'
      BY <2>1, <2>2, <2>3 DEF Kept, Distinct
    <2>6. OnDevices'
      BY <2>1, <2>3 DEF Kept, OnDevices, Exists
    <2>7. \A j \in Slots : device[j].birth <= births /\ device[j].birth # births + 1
      BY <1>4, <2>4 DEF Kept, Born
    <2>8. Born'
      BY <1>4, <2>1, <2>2, <2>3, <2>4, <2>7 DEF Kept, Born
    <2>9. Aimed'
      <3>1. SUFFICES ASSUME pc = "detach", NEW j \in Slots PROVE
                 /\ target.birth <= births + 1
                 /\ Exists(j)' /\ device'[j].birth = target.birth => filter[j] = target.id
        BY <1>2, <2>3 DEF Aimed, Exists
      <3>2. target.birth <= births
        BY <3>1 DEF Kept, Aimed
      <3>3. CASE j = i
        BY <1>4, <2>1, <2>2, <2>4, <3>2, <3>3
      <3>4. CASE j # i
        BY <1>4, <2>1, <2>4, <3>1, <3>2, <3>4 DEF Kept, Aimed, Exists
      <3> QED BY <3>3, <3>4
    <2> QED BY <2>5, <2>6, <2>8, <2>9 DEF Kept
  <1> QED BY <1>1, <1>5, <1>6, <1>7

LEMMA KeptStep == ASSUME TypeInv, Kept, [Next]_vars PROVE Kept'
  <1>0. TypeOK
    BY DEF TypeInv
  <1>1. CASE Start \/ Working \/ Kill
    <2>1. UNCHANGED <<device, births>>
      BY <1>1, DaemonFilters
    <2>2. OnDevices'
      BY <1>0, <1>1, <2>1, DaemonFilters DEF Kept, OnDevices, Exists
    <2>3. Distinct' /\ Born'
      BY <2>1 DEF Kept, Distinct, Born
    <2>4. Aimed'
      <3>1. CASE QueryFinds
        <4>1. PICK r \in todo, i \in Slots :
                 /\ device[i].index = r[1] /\ filter[i] = r[2]
                 /\ target' = [index |-> r[1], id |-> r[2], birth |-> device[i].birth]
          BY <3>1 DEF QueryFinds, Owns
        <4>2. target'.id = r[2] /\ target'.birth = device[i].birth
          BY <4>1
        <4>3. r[1] \in Indices
          BY <1>0, <4>1 DEF TypeOK
        <4>4. Exists(i)
          BY <1>0, <4>1, <4>3, Numbers, DeviceTypes
        <4>5. \A j \in Slots : device[j].birth = device[i].birth => j = i
          BY <1>0, <4>4, DeviceTypes DEF Kept, Born
        <4>6. filter' = filter
          BY <3>1 DEF QueryFinds, devices
        <4> QED BY <2>1, <4>1, <4>2, <4>5, <4>6 DEF Kept, Born, Aimed
      <3>2. CASE ~QueryFinds
        <4>1. NextSlot => pc' # "detach"
          BY <1>0, NextSlotTypes
        <4>2. pc' # "detach"
          BY <1>1, <3>2, <4>1 DEF Goto, Call, Forget, Start, Working, Refresh, Forgets, Recover, RecoverDummy,
             ForgetIndex, QueryMisses, Detach, Detached, Record, Check, MakeDummy, SaveDummy, MakePrivate, Ready,
             StartFails, Look, StillAbsent, Priority, AttachIngress, AttachEgress, SaveAttached, Enable, AttachFails,
             RefreshFails, BeginRefresh, NotDue, LinkEvents, Quit, ReleaseLinks, DeleteDummy, Unlink, Kill
        <4> QED BY <4>2 DEF Aimed
      <3> QED BY <3>1, <3>2
    <2> QED BY <2>2, <2>3, <2>4 DEF Kept
  <1>2. CASE UNCHANGED vars
    BY <1>2 DEF vars, devices, calls, Kept, OnDevices, Distinct, Born, Aimed, Exists
  <1> QED BY <1>1, <1>2, KeptWorld DEF Next

LEMMA KeptInitially == Init => Kept
  BY DEF Init, Kept, OnDevices, Distinct, Born, Aimed, NoDevice

LEMMA KeptAlways == Spec => [](TypeInv /\ Kept)
  <1>1. Init => TypeInv /\ Kept
    BY TypeInitially, KeptInitially
  <1>2. TypeInv /\ Kept /\ [Next]_vars => (TypeInv /\ Kept)'
    BY TypeStep, KeptStep
  <1> QED BY <1>1, <1>2, PTL DEF Spec

\* Nobody else's filter is removed or replaced by a step of the daemon, but for
\* a device that comes between bpf_tc_query() and bpf_tc_detach() with the same
\* ifindex: what ff_detach() is called with is a program id of one of the
\* daemon's runs (attach.c:46-48).
THEOREM ForeignFiltersStay == Spec => ForeignStays
  <1> DEFINE Stays == \A i \in Slots : filter[i] = Foreign /\ device'[i] = device[i]
                          => filter'[i] = Foreign \/ UNCHANGED daemon \/ Reused(i)
  <1>1. ASSUME TypeInv, Kept, Next PROVE Stays
    <2>1. CASE World
      <3>1. UNCHANGED daemon
        BY <2>1 DEF World, Remove, Occupy, Create
      <3> QED BY <3>1
    <2>2. CASE Start \/ Working \/ Kill
      <3>1. SUFFICES ASSUME NEW i \in Slots, filter[i] = Foreign, filter'[i] # Foreign, ~Reused(i) PROVE FALSE
        OBVIOUS
      <3>2. pc = "detach" /\ device[i].index = target.index
        BY <1>1, <2>2, <3>1, DaemonFilters, Numbers
      <3>3. Exists(i)
        BY <1>1, <3>1, Numbers DEF Kept, OnDevices
      <3>4. device[i].birth = target.birth
        BY <3>1, <3>2 DEF Reused
      <3>5. filter[i] = target.id
        BY <1>1, <3>2, <3>3, <3>4 DEF Kept, Aimed
      <3>6. target.id \in Runs
        BY <1>1, <3>2 DEF TypeInv, TypeOK, Called
      <3> QED BY <3>1, <3>5, <3>6, Numbers
    <2> QED BY <1>1, <2>1, <2>2 DEF Next
  <1>2. TypeInv /\ Kept /\ [Next]_vars => [Stays]_vars
    BY <1>1
  <1> HIDE DEF Stays
  <1>3. Spec => [][Stays]_vars
    BY <1>2, KeptAlways, PTL DEF Spec
  <1> QED BY <1>3 DEF Stays, ForeignStays

----------------------------------------------------------------------------
(* Everything the daemons leave is on record.                              *)

\* Steps that touch none of it.
LEMMA QuietAccount ==
    ASSUME TypeInv, AccountInv, UNCHANGED <<device, filter, lost, dummies, strays, file, run, attached, private, calls>>,
           pc \in {"look", "priority", "ingress", "egress", "enable", "publish", "serve", "poll"},
           pc' \in {"look", "priority", "ingress", "egress", "enable", "publish", "serve", "poll", "out"}
    PROVE  AccountInv'
  <1>1. caller = "nobody" /\ caller' = "nobody"
    BY DEF TypeInv, Called, Calls, calls
  <1> QED BY <1>1 DEF AccountInv, LeftOver, ToDo, InTheTable, InTheFile, NothingYet, NothingLeft, Records, Recovering,
               Listening, FilterUnsaved, DummyUnsaved, calls

LEMMA WorldAccount == ASSUME TypeInv, Kept, AccountInv, World PROVE AccountInv'
  <1>1. UNCHANGED daemon
    BY DEF World, Remove, Occupy, Create
  <1>2. UNCHANGED <<dummies, strays, file, run, pc, found, caller, doomed, todo, attached, private>>
    BY <1>1 DEF daemon, privates, looking, calls, hooks, numbers
  <1>3. \A j \in Slots : filter'[j] \in Runs =>
           filter'[j] = filter[j] /\ device'[j] = device[j] /\ (j \in lost => j \in lost')
    BY WorldFilters DEF TypeInv
  <1>4. Recovering' = Recovering /\ Listening' = Listening /\ FilterUnsaved' = FilterUnsaved
        /\ DummyUnsaved' = DummyUnsaved
    BY <1>2 DEF Recovering, Listening, FilterUnsaved, DummyUnsaved
  <1>5. LeftOver'
    BY <1>2, <1>3, <1>4 DEF AccountInv, LeftOver
  <1>6. ToDo'
    BY <1>2, <1>3 DEF AccountInv, ToDo
  <1>7. InTheTable'
    BY <1>2, <1>3, <1>4 DEF AccountInv, InTheTable
  <1>8. InTheFile' /\ NothingYet' /\ NothingLeft'
    BY <1>2, <1>4 DEF AccountInv, InTheFile, NothingYet, NothingLeft, Records
  <1> QED BY <1>5, <1>6, <1>7, <1>8 DEF AccountInv

\* Before stale_filters() is through, everything is in the state file.
LEMMA StartAccount ==
    ASSUME TypeInv, AccountInv,
           Start \/ Recover \/ RecoverDummy \/ Check \/ MakeDummy \/ SaveDummy \/ MakePrivate \/ StartFails
    PROVE  AccountInv'
  <1> USE DEF devices, privates, queue, looking, hooks, numbers, Goto
  <1>0. Called
    BY DEF TypeInv
  <1>1. /\ caller = "nobody" /\ todo = {}
        /\ pc # "publish" => ~Listening /\ attached = {} /\ ~private
    BY <1>0 DEF Start, Recover, RecoverDummy, Check, MakeDummy, SaveDummy, MakePrivate, StartFails, Called, Calls,
           Listening, AccountInv, NothingYet
  <1>2. CASE Start
    BY <1>1, <1>2 DEF Start, calls, AccountInv, LeftOver, ToDo, InTheTable, InTheFile, NothingYet, NothingLeft,
       Records, Recovering, Listening, FilterUnsaved, DummyUnsaved
  <1>3. CASE Recover
    BY <1>1, <1>3 DEF Recover, StaleRecords, Call, AccountInv, LeftOver, ToDo, InTheTable, InTheFile, NothingYet,
       NothingLeft, Records, Recovering, Listening, FilterUnsaved, DummyUnsaved
  <1>4. CASE RecoverDummy
    <2>1. \A i \in Slots : filter[i] \in Runs => i \in lost
      BY <1>1, <1>4 DEF RecoverDummy, AccountInv, ToDo
    <2>2. dummies' \subseteq strays'
      BY <1>4 DEF RecoverDummy, Delete, AccountInv, LeftOver, Recovering
    <2> QED BY <1>1, <1>4, <2>1, <2>2 DEF RecoverDummy, calls, AccountInv, LeftOver, ToDo, InTheTable, InTheFile,
              NothingYet, NothingLeft, Records, Recovering, Listening, FilterUnsaved, DummyUnsaved
  <1>5. CASE Check \/ MakeDummy
    BY <1>1, <1>5 DEF Check, MakeDummy, calls, AccountInv, LeftOver, ToDo, InTheTable, InTheFile, NothingYet,
       NothingLeft, Records, Recovering, Listening, FilterUnsaved, DummyUnsaved
  <1>6. CASE SaveDummy
    BY <1>1, <1>6 DEF SaveDummy, Saved, calls, AccountInv, LeftOver, ToDo, InTheTable, InTheFile, NothingYet,
       NothingLeft, Records, Recovering, Listening, FilterUnsaved, DummyUnsaved
  <1>7. CASE MakePrivate \/ StartFails
    BY <1>1, <1>7 DEF MakePrivate, StartFails, calls, AccountInv, LeftOver, ToDo, InTheTable, InTheFile, NothingYet,
       NothingLeft, Records, Recovering, Listening, FilterUnsaved, DummyUnsaved
  <1> QED BY <1>2, <1>3, <1>4, <1>5, <1>6, <1>7

\* A call of forget_index() begins.
LEMMA ForgetAccount ==
    ASSUME TypeInv, AccountInv, UNCHANGED <<device, filter, lost, dummies, strays, file, run, attached, private>>,
           NEW who \in Forgetting, NEW indices, Forget(who, indices),
           \/ pc \in {"look", "poll"} /\ who # "failure"
           \/ pc \in {"egress", "save"} /\ who = "failure" /\ indices = {found} /\ found' = found
    PROVE  AccountInv'
  <1>1. caller = "nobody" /\ todo = {}
    BY DEF TypeInv, Called, Calls
  <1>2. /\ caller' = who /\ who \in Forgetting /\ pc' = "forget" /\ doomed' = indices /\ todo' = {}
    BY <1>1 DEF Forget, Goto
  <1> QED BY <1>1, <1>2 DEF Forgetting, AccountInv, LeftOver, ToDo, InTheTable, InTheFile, NothingYet, NothingLeft,
               Records, Recovering, Listening, FilterUnsaved, DummyUnsaved

\* refresh() and the loop.
LEMMA RefreshAccount ==
    ASSUME TypeInv, AccountInv, Refresh \/ Ready \/ BeginRefresh \/ NotDue \/ LinkEvents \/ Quit
    PROVE  AccountInv'
  <1> USE DEF devices, privates, queue, looking, hooks, numbers, Goto
  <1>0. TypeOK /\ Called
    BY DEF TypeInv
  <1>1. NextSlot => pc' \in {"publish", "poll", "look"}
    BY <1>0, NextSlotTypes
  <1>2. CASE \/ Ready \/ StillAbsent \/ Priority \/ AttachIngress \/ Enable \/ RefreshFails \/ BeginRefresh
             \/ NotDue \/ Quit
    <2>1. /\ UNCHANGED <<device, filter, lost, dummies, strays, file, run, attached, private, calls>>
          /\ pc \in {"look", "priority", "ingress", "egress", "enable", "publish", "serve", "poll"}
          /\ pc' \in {"look", "priority", "ingress", "egress", "enable", "publish", "serve", "poll", "out"}
      BY <1>1, <1>2 DEF Ready, StillAbsent, Priority, AttachIngress, Enable, RefreshFails, BeginRefresh, NotDue, Quit
    <2> QED BY <2>1, QuietAccount
  <1>3. CASE Look
    <2>1. CASE Forget("change", {index[slot]})
      BY <1>3, <2>1, ForgetAccount DEF Look, Forgetting
    <2>2. CASE ~Forget("change", {index[slot]})
      <3>1. UNCHANGED calls /\ pc' \in {"priority", "enable"} /\ pc = "look"
        BY <1>3, <2>2 DEF Look
      <3> QED BY <1>3, <3>1, QuietAccount DEF Look
    <2> QED BY <2>1, <2>2
  <1>4. CASE AttachFails
    BY <1>4, ForgetAccount DEF AttachFails, Forgetting
  <1>5. CASE LinkEvents
    <2>1. (\E gone : Forget("event", gone)) \/ (pc' = "serve" /\ UNCHANGED calls)
      BY <1>5, Zenon DEF LinkEvents, Goto
    <2>2. CASE \E gone : Forget("event", gone)
      BY <1>5, <2>2, ForgetAccount DEF LinkEvents, Forgetting
    <2>3. CASE pc' = "serve" /\ UNCHANGED calls
      BY <1>5, <2>3, QuietAccount DEF LinkEvents
    <2> QED BY <2>1, <2>2, <2>3
  <1>6. CASE AttachEgress
    <2>0. caller = "nobody"
      BY <1>0, <1>6 DEF AttachEgress, Called, Calls
    <2>1. PICK i \in Slots : device[i].index = found /\ filter' = [filter EXCEPT ![i] = run]
      BY <1>6 DEF AttachEgress
    <2>2. \A j \in Slots : filter'[j] = IF j = i THEN run ELSE filter[j]
      BY <1>0, <2>1 DEF TypeOK
    <2> QED BY <1>6, <2>0, <2>1, <2>2 DEF AttachEgress, calls, AccountInv, LeftOver, ToDo, InTheTable, InTheFile,
              NothingYet, NothingLeft, Recovering, Listening, FilterUnsaved, DummyUnsaved
  <1>7. CASE SaveAttached
    <2>0. caller = "nobody"
      BY <1>0, <1>7 DEF SaveAttached, Called, Calls
    <2> QED BY <1>7, <2>0 DEF SaveAttached, Saved, InTable, calls, AccountInv, LeftOver, ToDo, InTheTable, InTheFile,
              NothingYet, NothingLeft, Records, Recovering, Listening, FilterUnsaved, DummyUnsaved
  <1> QED BY <1>2, <1>3, <1>4, <1>5, <1>6, <1>7 DEF Refresh

\* A record is dropped: its filter is gone, or lost.
LEMMA DropAccount ==
    ASSUME TypeInv, AccountInv, NEW r \in todo, Drop(r), pc \in {"query", "detach"}, pc' = "query",
           UNCHANGED <<device, dummies, strays, file, run, found, caller, doomed, private>>,
           \A j \in Slots : filter'[j] \in Runs =>
              /\ filter'[j] = filter[j]
              /\ j \in lost => j \in lost'
              /\ device[j].index = r[1] /\ filter[j] = r[2] => j \in lost'
    PROVE  AccountInv'
  <1>1. /\ r = <<r[1], r[2]>> /\ todo' = todo \ {r} /\ attached' = attached \ {r[1]}
        /\ caller # "nobody" /\ caller \in Callers
    BY DropTypes DEF Drop, TypeInv, TypeOK, Called, Calls
  <1>2. caller # "stale" => r[2] = run
    <2>1. caller # "stale" => todo \subseteq Records(attached)
      BY <1>1 DEF TypeInv, Called, Callers
    <2> QED BY <2>1 DEF Records
  <1>3. Recovering' = Recovering /\ Listening' = Listening /\ FilterUnsaved' = FilterUnsaved
        /\ DummyUnsaved' = DummyUnsaved /\ (Recovering <=> caller = "stale")
    BY DEF Recovering, Listening, FilterUnsaved, DummyUnsaved
  <1>4. LeftOver'
    BY <1>3 DEF AccountInv, LeftOver
  <1>5. ToDo'
    <2>1. SUFFICES ASSUME caller = "stale", NEW i \in Slots, filter'[i] \in Runs
                   PROVE  <<device[i].index, filter'[i]>> \in todo' \/ i \in lost'
      BY DEF ToDo
    <2>2. filter'[i] = filter[i] /\ (<<device[i].index, filter[i]>> \in todo \/ i \in lost)
      BY <2>1 DEF AccountInv, ToDo
    <2>3. CASE <<device[i].index, filter[i]>> = r
      <3>1. device[i].index = r[1] /\ filter[i] = r[2]
        BY <1>1, <2>3
      <3> QED BY <2>1, <3>1
    <2> QED BY <1>1, <2>1, <2>2, <2>3
  <1>6. InTheTable'
    BY <1>1, <1>2, <1>3 DEF AccountInv, InTheTable
  <1>7. InTheFile' /\ NothingYet'
    BY <1>1, <1>3 DEF AccountInv, InTheFile, NothingYet
  <1>8. NothingLeft'
    <2>1. \A x \in attached' : x \in attached /\ <<x, run>> # r
      BY <1>1
    <2> QED BY <1>1, <2>1 DEF AccountInv, NothingLeft, Records
  <1> QED BY <1>4, <1>5, <1>6, <1>7, <1>8 DEF AccountInv

\* The steps of forget_index() and ff_detach().
LEMMA ForgetsAccount == ASSUME TypeInv, Kept, AccountInv, Forgets PROVE AccountInv'
  <1> USE DEF devices, privates, queue, looking, hooks, numbers, Goto
  <1>0. TypeOK /\ Called
    BY DEF TypeInv
  <1>1. CASE ForgetIndex
    <2>1. PICK idx \in doomed :
             doomed' = doomed \ {idx} /\ todo' = Records(attached \cap {idx}) /\ caller' = caller /\ pc' = "query"
      BY <1>1 DEF ForgetIndex, Call
    <2>2. caller \in Forgetting /\ todo = {}
      BY <1>0, <1>1 DEF ForgetIndex, Called
    <2> QED BY <1>1, <2>1, <2>2 DEF ForgetIndex, Forgetting, AccountInv, LeftOver, ToDo, InTheTable, InTheFile,
              NothingYet, NothingLeft, Records, Recovering, Listening, FilterUnsaved, DummyUnsaved
  <1>2. CASE QueryMisses
    <2>1. PICK r \in todo : Drop(r) /\ lost' = lost \cup Bearers(r)
      BY <1>2 DEF QueryMisses
    <2>2. \A j \in Slots : device[j].index = r[1] /\ filter[j] = r[2] => j \in lost'
      BY <2>1 DEF Bearers
    <2>3. /\ pc = "query" /\ pc' = "query" /\ filter' = filter /\ lost \subseteq lost'
          /\ UNCHANGED <<device, dummies, strays, file, run, found, caller, doomed, private>>
      BY <1>2, <2>1 DEF QueryMisses
    <2> QED BY <2>1, <2>2, <2>3, DropAccount
  <1>3. CASE QueryFinds
    <2>1. caller # "nobody"
      BY <1>0, <1>3 DEF QueryFinds, Called, Calls
    <2> QED BY <1>3, <2>1 DEF QueryFinds, AccountInv, LeftOver, ToDo, InTheTable, InTheFile,
              NothingYet, NothingLeft, Records, Recovering, Listening, FilterUnsaved, DummyUnsaved
  <1>4. CASE Detach
    <2> DEFINE r == <<target.index, target.id>>
    <2>1. r \in todo /\ Drop(r) /\ r[1] = target.index /\ r[2] = target.id
      BY <1>0, <1>4 DEF Detach, Called
    <2>2. /\ pc = "detach" /\ pc' = "query"
          /\ UNCHANGED <<device, dummies, strays, file, run, found, caller, doomed, private>>
      BY <1>4 DEF Detach
    <2>3. \A j \in Slots : filter'[j] \in Runs =>
              /\ filter'[j] = filter[j]
              /\ j \in lost => j \in lost'
              /\ device[j].index = target.index /\ filter[j] = target.id => j \in lost'
      <3>1. CASE \E i \in Slots :
                    /\ device[i].index = target.index
                    /\ filter' = [filter EXCEPT ![i] = Free]
                    /\ lost' = lost \ {i}
        <4>1. PICK i \in Slots :
                    /\ device[i].index = target.index
                    /\ filter' = [filter EXCEPT ![i] = Free]
                    /\ lost' = lost \ {i}
          BY <3>1
        <4>2. \A j \in Slots : filter'[j] = IF j = i THEN Free ELSE filter[j]
          BY <1>0, <4>1 DEF TypeOK
        <4>3. target.index # 0
          BY <1>0, <2>1, Numbers DEF TypeOK
        <4>4. \A j \in Slots : device[j].index = target.index => j = i
          BY <4>1, <4>3 DEF Kept, Distinct
        <4> QED BY <4>1, <4>2, <4>4, Numbers
      <3>2. CASE filter' = filter /\ lost' = lost \cup Bearers(r)
        BY <2>1, <3>2 DEF Bearers
      <3> QED BY <1>4, <3>1, <3>2 DEF Detach
    <2> HIDE DEF r
    <2> QED BY <2>1, <2>2, <2>3, DropAccount
  <1>5. CASE Detached
    <2>1. caller = "stale" => attached = {}
      BY DEF AccountInv, NothingYet, Listening
    <2>2. caller = "out" => attached = {}
      <3>1. SUFFICES ASSUME caller = "out", NEW idx \in attached PROVE FALSE
        OBVIOUS
      <3>2. <<idx, run>> \in todo
        BY <3>1 DEF AccountInv, NothingLeft, Records
      <3> QED BY <1>5, <3>2 DEF Detached
    <2> QED BY <1>5, <2>1, <2>2 DEF Detached, Forgetting, AccountInv, LeftOver, ToDo, InTheTable, InTheFile, NothingYet,
              NothingLeft, Records, Recovering, Listening, FilterUnsaved, DummyUnsaved
  <1>6. CASE Record
    <2>1. caller \in Forgetting /\ todo = {} /\ pc = "record"
      BY <1>0, <1>6 DEF Record, Called
    <2>2. NextSlot => pc' \in {"publish", "poll", "look"}
      BY <1>0, NextSlotTypes
    <2>3. /\ pc' \in {"forget", "publish", "poll", "look", "priority", "out", "serve"}
          /\ doomed # {} => caller' = caller /\ found' = found
          /\ doomed = {} => caller' = "nobody"
          /\ UNCHANGED <<device, filter, lost, dummies, strays, run, doomed, todo, attached, private>>
      BY <1>6, <2>2 DEF Record
    <2>4. file.dummy = run
      BY <2>1 DEF Forgetting, AccountInv, InTheFile, Recovering, DummyUnsaved
    <2>5. file'.dummy = run /\ \A idx \in attached : <<idx, run>> \in file'.filters \/ (FilterUnsaved' /\ idx = found')
      <3>1. CASE file' = Saved(attached)
        BY <3>1 DEF Saved, Records
      <3>2. CASE file' = file
        <4>1. ASSUME doomed = {}, caller = "failure" PROVE found \notin attached
          BY <2>1, <4>1 DEF AccountInv, NothingLeft
        <4>2. \A idx \in attached : <<idx, run>> \in file.filters \/ (caller = "failure" /\ idx = found)
          BY <2>1 DEF AccountInv, InTheFile, FilterUnsaved
        <4> QED BY <2>3, <2>4, <3>2, <4>1, <4>2 DEF FilterUnsaved
      <3> QED BY <1>6, <3>1, <3>2 DEF Record
    <2>6. ~Recovering /\ ~Recovering' /\ Listening'
      BY <2>1, <2>3 DEF Forgetting, Recovering, Listening
    <2>7. InTheTable'
      BY <2>3, <2>6 DEF AccountInv, InTheTable
    <2>8. InTheFile'
      BY <2>3, <2>5 DEF InTheFile
    <2>9. LeftOver' /\ ToDo' /\ NothingYet' /\ NothingLeft'
      BY <2>1, <2>3, <2>6 DEF Forgetting, AccountInv, LeftOver, ToDo, NothingYet, NothingLeft, Recovering
    <2> QED BY <2>7, <2>8, <2>9 DEF AccountInv
  <1> QED BY <1>1, <1>2, <1>3, <1>4, <1>5, <1>6 DEF Forgets

LEMMA EndAccount == ASSUME TypeInv, AccountInv, ReleaseLinks \/ DeleteDummy \/ Unlink PROVE AccountInv'
  <1> USE DEF devices, privates, queue, looking, hooks, numbers, Goto
  <1>0. caller = "nobody" /\ todo = {}
    BY DEF TypeInv, Called, Calls, ReleaseLinks, DeleteDummy, Unlink
  <1>1. CASE ReleaseLinks
    <2>1. /\ pc = "out" /\ pc' = "query" /\ caller' = "out" /\ todo' = attached \X {run}
          /\ UNCHANGED <<device, filter, lost, dummies, strays, file, run, found, attached, private>>
      BY <1>1 DEF ReleaseLinks, Call, Records
    <2>2. InTheFile' /\ NothingYet'
      BY <1>0, <2>1 DEF AccountInv, InTheFile, NothingYet, Recovering, Listening, FilterUnsaved, DummyUnsaved
    <2>3. LeftOver' /\ ToDo' /\ InTheTable'
      BY <1>0, <2>1 DEF AccountInv, LeftOver, ToDo, InTheTable, Recovering
    <2>4. NothingLeft'
      BY <2>1 DEF NothingLeft, Records
    <2> QED BY <2>2, <2>3, <2>4 DEF AccountInv
  <1>2. CASE DeleteDummy
    <2>1. dummies' \subseteq strays'
      BY <1>0, <1>2 DEF DeleteDummy, Delete, AccountInv, InTheTable, Recovering
    <2> QED BY <1>0, <1>2, <2>1 DEF DeleteDummy, calls, AccountInv, LeftOver, ToDo, InTheTable, InTheFile, NothingYet,
              NothingLeft, Records, Recovering, Listening, FilterUnsaved, DummyUnsaved
  <1>3. CASE Unlink
    <2>1. /\ attached' = {} /\ ~private' /\ pc' = "down" /\ caller' = "nobody"
          /\ UNCHANGED <<device, filter, lost, dummies, strays>>
      BY <1>3 DEF Unlink, Fresh
    <2>2. (\A i \in Slots : filter[i] \in Runs => i \in lost) /\ dummies \subseteq strays
      BY <1>0, <1>3 DEF Unlink, AccountInv, InTheTable, NothingLeft, Recovering
    <2> QED BY <2>1, <2>2 DEF AccountInv, LeftOver, ToDo, InTheTable, InTheFile, NothingYet, NothingLeft, Recovering
  <1> QED BY <1>1, <1>2, <1>3

\* A kill finds the table in the file, and the private device; but for what has
\* just been made and what could not be written.
LEMMA KillAccount == ASSUME TypeInv, AccountInv, Kill PROVE AccountInv'
  <1>1. /\ UNCHANGED <<device, filter, dummies, file, run>> /\ pc' = "down" /\ attached' = {} /\ ~private'
        /\ caller' = "nobody" /\ lost \subseteq lost' /\ strays \subseteq strays'
        /\ FilterUnsaved => Bearers(<<found, run>>) \subseteq lost'
        /\ DummyUnsaved => dummies \cap {run} \subseteq strays'
    BY DEF Kill, Goto, Fresh
  <1>2. ASSUME NEW i \in Slots, filter[i] \in Runs
        PROVE  <<device[i].index, filter[i]>> \in file.filters \/ i \in lost'
    <2>1. CASE Recovering
      BY <1>1, <1>2, <2>1 DEF AccountInv, LeftOver
    <2>2. CASE ~Recovering
      <3>1. (filter[i] = run /\ device[i].index \in attached) \/ i \in lost
        BY <1>2, <2>2 DEF AccountInv, InTheTable
      <3>2. device[i].index \in attached =>
               <<device[i].index, run>> \in file.filters \/ (FilterUnsaved /\ device[i].index = found)
        BY DEF AccountInv, InTheFile
      <3>3. device[i].index = found /\ filter[i] = run => i \in Bearers(<<found, run>>)
        BY DEF Bearers
      <3> QED BY <1>1, <3>1, <3>2, <3>3
    <2> QED BY <2>1, <2>2
  <1>3. dummies \subseteq {file.dummy} \cup strays'
    <2>1. CASE Recovering
      BY <1>1, <2>1 DEF AccountInv, LeftOver
    <2>2. CASE ~Recovering
      <3>1. dummies \subseteq {run} \cup strays /\ (pc \in {"check", "dummy", "unlink"} => dummies \subseteq strays)
        BY <2>2 DEF AccountInv, InTheTable
      <3>2. pc \notin {"check", "dummy", "unlink"} /\ ~DummyUnsaved => file.dummy = run
        BY <2>2 DEF AccountInv, InTheFile
      <3> QED BY <1>1, <3>1, <3>2
    <2> QED BY <2>1, <2>2
  <1> QED BY <1>1, <1>2, <1>3 DEF AccountInv, LeftOver, ToDo, InTheTable, InTheFile, NothingYet, NothingLeft, Recovering

LEMMA AccountInitially == Init => AccountInv
  <1> SUFFICES ASSUME Init PROVE AccountInv
    OBVIOUS
  <1>1. \A i \in Slots : filter[i] \notin Runs
    BY Numbers DEF Init
  <1>2. /\ pc = "down" /\ caller = "nobody" /\ attached = {} /\ private = FALSE
        /\ dummies = {}
    BY DEF Init
  <1>3. LeftOver /\ ToDo /\ InTheTable
    <2>1. LeftOver
      BY <1>1, <1>2 DEF LeftOver
    <2>2. ToDo
      BY <1>1 DEF ToDo
    <2>3. InTheTable
      BY <1>2 DEF InTheTable, Recovering
    <2> QED BY <2>1, <2>2, <2>3
  <1>4. InTheFile /\ NothingYet /\ NothingLeft
    BY <1>2 DEF InTheFile, NothingYet, NothingLeft, Recovering
  <1> QED BY <1>3, <1>4 DEF AccountInv

LEMMA AccountStep == ASSUME TypeInv, Kept, AccountInv, [Next]_vars PROVE AccountInv'
  <1>1. CASE UNCHANGED vars
    BY <1>1 DEF vars, devices, privates, looking, calls, hooks, AccountInv, LeftOver, ToDo, InTheTable, InTheFile,
       NothingYet, NothingLeft, Records, Recovering, Listening, FilterUnsaved, DummyUnsaved
  <1> QED BY <1>1, WorldAccount, StartAccount, ForgetsAccount, RefreshAccount, EndAccount, KillAccount
          DEF Next, Working

LEMMA AccountAlways == Spec => [](TypeInv /\ Kept /\ AccountInv)
  <1>1. Init => TypeInv /\ Kept /\ AccountInv
    BY TypeInitially, KeptInitially, AccountInitially
  <1>2. TypeInv /\ Kept /\ AccountInv /\ [Next]_vars => (TypeInv /\ Kept /\ AccountInv)'
    BY TypeStep, KeptStep, AccountStep
  <1> QED BY <1>1, <1>2, PTL DEF Spec

\* What a daemon leaves on a WAN, and its private device, is in the table of
\* the daemon that runs or in the state file, at every step and after every
\* kill (lifecycle.c:448-454); but for what could not be detached or deleted,
\* and what a kill kept from being recorded.
THEOREM LeavingsAccounted == Spec => []Accounted
  <1>1. TypeInv /\ AccountInv => Accounted
    <2> SUFFICES ASSUME TypeInv, AccountInv PROVE Accounted
      OBVIOUS
    <2>1. CASE Recovering
      BY <2>1 DEF AccountInv, LeftOver, Accounted
    <2>2. CASE ~Recovering
      BY <2>2 DEF AccountInv, InTheTable, Accounted, Recovering
    <2> QED BY <2>1, <2>2
  <1> QED BY <1>1, AccountAlways, PTL

\* After stale_filters() no filter and no private device of an earlier daemon
\* is left, whenever that one was killed (docs/validation.md:18, 97); but for
\* the same.
THEOREM RecoveryCleans == Spec => []StartsClean
  <1>1. AccountInv => StartsClean
    BY DEF AccountInv, InTheTable, StartsClean
  <1> QED BY <1>1, AccountAlways, PTL

----------------------------------------------------------------------------
(* An enabled ifindex is hooked.                                           *)

\* While the route socket is open, a device whose removal is not to be read
\* after a step of the world is the one it was.
LEMMA WorldDoubts ==
    ASSUME TypeInv, World, NEW idx
    PROVE  /\ Unread(idx) => idx \in events' \/ overflow'
           /\ \A j \in Slots : Listening /\ Exists(j) /\ device[j].index = idx /\ ~(idx \in events' \/ overflow')
                 => device'[j] = device[j]
  <1>0. TypeOK
    BY DEF TypeInv
  <1>1. PICK i \in Slots : Remove(i) \/ Occupy(i) \/ \E new \in Indices : Create(i, new)
    BY DEF World
  <1>2. CASE Remove(i)
    BY <1>0, <1>2 DEF Remove, TypeOK, Unread
  <1>3. CASE Occupy(i)
    BY <1>3 DEF Occupy, queue, Unread
  <1>4. ASSUME NEW new \in Indices, Create(i, new)
        PROVE  /\ UNCHANGED <<events, overflow>>
               /\ \A j \in Slots : Exists(j) => device'[j] = device[j]
    BY <1>0, <1>4 DEF Create, TypeOK, queue
  <1> QED BY <1>1, <1>2, <1>3, <1>4 DEF Unread

LEMMA WorldHooks == ASSUME TypeInv, Kept, HookInv, World PROVE HookInv'
  <1>0. TypeOK
    BY DEF TypeInv
  <1>1. UNCHANGED daemon
    BY DEF World, Remove, Occupy, Create
  <1>2. /\ UNCHANGED <<run, pc, slot, found, caller, doomed, todo, index, link, entries, generation, epoch, origin>>
        /\ Listening' = Listening /\ Ending' = Ending
    BY <1>1 DEF daemon, looking, calls, hooks, numbers, Listening, Ending
  <1>3. \A j \in Slots : index[j] # 0 => Listening
    BY DEF HookInv, Unhooked
  <1>4. ASSUME NEW j \in Slots, index[j] # 0, ~Doubtful(index[j])'
        PROVE  /\ ~Doubtful(index[j])
               /\ device[j].index = index[j] /\ device'[j] = device[j]
               /\ filter[j] = run => filter'[j] = run
    <2> DEFINE idx == index[j]
    <2>1. ~(idx \in events' \/ overflow' \/ idx \in doomed)
      BY <1>2, <1>4 DEF Doubtful, Unread
    <2> HIDE DEF idx
    <2>2. ~Doubtful(idx)
      BY <2>1, WorldDoubts DEF Doubtful
    <2>3. device[j].index = idx /\ idx # 0
      BY <1>4, <2>2 DEF HookInv, Known, idx
    <2>4. Exists(j)
      BY <1>0, <2>3, DeviceTypes
    <2>5. device'[j] = device[j]
      BY <1>3, <1>4, <2>1, <2>3, <2>4, WorldDoubts
    <2>6. run \in Runs
      BY <1>3, <1>4 DEF TypeInv, Numbered, Listening
    <2> QED BY <1>0, <2>2, <2>3, <2>5, <2>6, WorldFilters DEF idx
  <1>5. Unhooked'
    BY <1>2 DEF HookInv, Unhooked
  <1>6. Known'
    BY <1>2, <1>4 DEF Known
  <1>7. Busy'
    <2>1. SUFFICES ASSUME pc \in WithDevice \/ caller = "change", found # 0
                   PROVE  device'[slot].index = found \/ found \in events' \/ overflow'
      BY <1>2 DEF HookInv, Busy, Unread
    <2>2. CASE Unread(found)
      BY <2>2, WorldDoubts
    <2>3. CASE device[slot].index = found
      <3>1. Exists(slot) /\ slot \in Slots
        BY <1>0, <2>1, <2>3, DeviceTypes DEF TypeOK
      <3>2. Listening
        BY <2>1 DEF TypeInv, Called, Calls, Listening, WithDevice
      <3> QED BY <2>3, <3>1, <3>2, WorldDoubts
    <2> QED BY <2>1, <2>2, <2>3 DEF HookInv, Busy
  <1>8. Epochs' /\ Retired'
    BY <1>2 DEF HookInv, Epochs, Retired
  <1>9. Attached'
    BY <1>2, <1>4 DEF HookInv, Attached, Whole, NoFilterYet, NoGenerationYet
  <1>10. Entered'
    BY <1>2, <1>4 DEF HookInv, Entered, NoGenerationYet
  <1> QED BY <1>5, <1>6, <1>7, <1>8, <1>9, <1>10 DEF HookInv

\* A daemon that has hooked nothing.
LEMMA BlankHooks ==
    ASSUME index' = [i \in Slots |-> 0], entries' = [idx \in Indices |-> 0],
           \A j \in Slots : generation'[j] \in 0 .. epoch', pc' \notin WithDevice, caller' \in {"nobody", "stale"}
    PROVE  HookInv'
  BY DEF HookInv, Unhooked, Known, Busy, Retired, Epochs, Attached, Entered, WithDevice, Forgetting

\* A daemon on its way out still knows its WANs.
LEMMA EndHooks ==
    ASSUME HookInv, UNCHANGED <<device, index, events, overflow, doomed, generation, epoch>>, Ending', Listening',
           pc' \notin WithDevice, caller' \in {"nobody", "out"}
    PROVE  HookInv'
  BY DEF HookInv, Unhooked, Known, Busy, Retired, Epochs, Attached, Entered, Forgetting, WithDevice, Doubtful, Unread

\* Steps that touch no hook of a recorded WAN that is not in doubt.
LEMMA QuietHooks ==
    ASSUME HookInv, Busy', Retired', Listening', ~Ending, pc' \notin {"egress", "save"},
           UNCHANGED <<device, run, index, link, entries, generation, epoch, origin>>,
           \A j \in Slots : index[j] # 0 /\ ~(index[j] \in events' \/ overflow' \/ index[j] \in doomed') =>
              ~Doubtful(index[j]) /\ filter'[j] = filter[j] /\ ~NoGenerationYet(j)
    PROVE  HookInv'
  <1>1. ASSUME NEW j \in Slots, index[j] # 0, ~Doubtful(index[j])'
        PROVE  ~Doubtful(index[j]) /\ filter'[j] = filter[j] /\ ~NoGenerationYet(j)
    BY <1>1 DEF Doubtful, Unread
  <1>2. \A j \in Slots : ~NoGenerationYet(j)' /\ (~NoGenerationYet(j) => ~NoFilterYet(j))
    BY DEF NoGenerationYet, NoFilterYet
  <1>3. Unhooked' /\ Epochs' /\ Known'
    BY <1>1 DEF HookInv, Unhooked, Epochs, Known
  <1>4. Attached'
    BY <1>1, <1>2 DEF HookInv, Attached, Whole
  <1>5. Entered'
    BY <1>1, <1>2 DEF HookInv, Entered
  <1> QED BY <1>3, <1>4, <1>5 DEF HookInv

\* forget_index() leaves the other WANs as they are.
LEMMA ForgetHooks == ASSUME TypeInv, HookInv, ForgetIndex PROVE HookInv'
  <1> USE DEF devices, queue, numbers, looking
  <1>0. TypeOK /\ caller \in Forgetting /\ pc = "forget"
    BY DEF TypeInv, Called, ForgetIndex
  <1>1. PICK idx \in doomed :
             /\ doomed' = doomed \ {idx}
             /\ entries' = Disabled(idx)
             /\ link' = [i \in Slots |-> IF index[i] = idx THEN 0 ELSE link[i]]
             /\ index' = [i \in Slots |-> IF index[i] = idx THEN 0 ELSE index[i]]
             /\ caller' = caller /\ todo' = Records(attached \cap {idx}) /\ pc' = "query"
    BY DEF ForgetIndex, Call, Goto
  <1>2. idx \in Indices /\ idx # 0
    BY <1>0, <1>1, Numbers DEF TypeOK
  <1>3. \A j \in Slots : /\ index'[j] = IF index[j] = idx THEN 0 ELSE index[j]
                         /\ link'[j] = IF index[j] = idx THEN 0 ELSE link[j]
    BY <1>1
  <1>4. \A x \in Indices : entries'[x] = IF x = idx THEN 0 ELSE entries[x]
    BY <1>0, <1>1 DEF Disabled, TypeOK
  <1>5. UNCHANGED <<device, filter, events, overflow, run, slot, found, generation, epoch, origin>>
    BY DEF ForgetIndex
  <1>6. Listening /\ Listening' /\ ~Ending
    BY <1>0, <1>1 DEF Listening, Ending, Forgetting
  <1>7. ASSUME NEW j \in Slots, index'[j] # 0, ~(index'[j] \in events' \/ overflow' \/ index'[j] \in doomed')
        PROVE  /\ index'[j] = index[j] /\ index[j] # 0 /\ index[j] # idx /\ ~Doubtful(index[j])
               /\ link'[j] = link[j] /\ ~NoGenerationYet(j) /\ ~NoGenerationYet(j)' /\ ~NoFilterYet(j)
    <2>1. index'[j] = index[j] /\ index[j] # 0 /\ index[j] # idx
      BY <1>3, <1>7
    <2>2. ~Doubtful(index[j])
      BY <1>1, <1>5, <1>7, <2>1 DEF Doubtful, Unread
    <2> QED BY <1>0, <1>1, <1>3, <2>1, <2>2 DEF NoGenerationYet, NoFilterYet
  <1>8. Unhooked' /\ Epochs'
    BY <1>5, <1>6 DEF HookInv, Unhooked, Epochs
  <1>9. Known'
    BY <1>5, <1>7 DEF HookInv, Known, Doubtful, Unread
  <1>10. Busy'
    <2>1. slot \in Slots
      BY <1>0 DEF TypeOK
    <2> QED BY <1>0, <1>1, <1>3, <1>5, <2>1 DEF HookInv, Busy, WithDevice, Unread
  <1>11. Retired'
    BY <1>1, <1>2, <1>3 DEF Retired, Records
  <1>12. Attached'
    BY <1>5, <1>6, <1>7 DEF HookInv, Attached, Whole, Doubtful, Unread
  <1>13. Entered'
    <2>1. ASSUME NEW x \in Indices, entries'[x] # 0 PROVE \E j \in Slots : index'[j] = x
      <3>1. x # idx /\ entries[x] # 0
        BY <1>4, <2>1
      <3>2. PICK j \in Slots : index[j] = x
        BY <1>6, <3>1 DEF HookInv, Entered
      <3> QED BY <1>3, <3>1, <3>2
    <2>2. ASSUME NEW j \in Slots, index'[j] # 0, entries'[index'[j]] # 0,
                 ~(index'[j] \in events' \/ overflow' \/ index'[j] \in doomed')
          PROVE  entries'[index'[j]] = generation'[j] /\ ~NoGenerationYet(j)'
      <3>1. /\ index'[j] = index[j] /\ index[j] # 0 /\ index[j] # idx /\ ~Doubtful(index[j]) /\ ~NoGenerationYet(j)'
        BY <1>7, <2>2
      <3>2. index[j] \in Indices
        BY <1>0, <3>1 DEF TypeOK
      <3>3. entries'[index'[j]] = entries[index[j]]
        BY <1>4, <3>1, <3>2
      <3> QED BY <1>5, <1>6, <2>2, <3>1, <3>3 DEF HookInv, Entered
    <2> QED BY <2>1, <2>2 DEF Entered, Doubtful, Unread
  <1> QED BY <1>8, <1>9, <1>10, <1>11, <1>12, <1>13 DEF HookInv

\* The end of ff_detach() and of forget_index().
LEMMA DetachedHooks ==
    ASSUME TypeInv, Kept, HookInv, caller \in Forgetting,
           QueryMisses \/ QueryFinds \/ Detach \/ Detached \/ (Record /\ ~(caller = "failure" /\ doomed = {}))
    PROVE  HookInv'
  <1> USE DEF devices, queue, numbers, looking, hooks, Goto
  <1>0. TypeOK /\ Called /\ pc \in Calls
    BY DEF TypeInv, QueryMisses, QueryFinds, Detach, Detached, Record, Calls
  <1>1. /\ UNCHANGED <<device, run, index, link, entries, generation, epoch, origin, events, overflow, doomed>>
        /\ todo' \subseteq todo /\ caller' \in {"nobody", caller}
    BY DEF QueryMisses, QueryFinds, Detach, Detached, Record, Drop, Forgetting
  <1>2. NextSlot => pc' \in {"publish", "poll", "look"} /\ found' = 0
    BY <1>0, NextSlotTypes
  <1>3. /\ pc' \in Calls \cup {"publish", "poll", "look", "priority", "serve"}
        /\ pc' \in Calls => UNCHANGED <<slot, found, caller>>
        /\ pc' \notin Calls => caller' = "nobody"
        /\ pc' = "priority" => caller = "change" /\ found # 0 /\ doomed = {} /\ UNCHANGED <<slot, found>>
    BY <1>2 DEF QueryMisses, QueryFinds, Detach, Detached, Record, Calls, Forgetting
  <1>4. ~Ending /\ Listening' /\ pc' \notin {"egress", "save"}
    BY <1>0, <1>3 DEF Ending, Listening, Calls, Forgetting
  <1>5. Retired'
    BY <1>1 DEF HookInv, Retired, Forgetting
  <1>6. Busy'
    BY <1>1, <1>3 DEF HookInv, Busy, Unread, WithDevice, Calls
  <1>7. ASSUME NEW j \in Slots, index[j] # 0, ~Doubtful(index[j]) PROVE filter'[j] = filter[j]
    <2>1. CASE filter' = filter
      BY <2>1
    <2>2. CASE filter' # filter
      <3>1. Detach
        BY <2>2 DEF QueryMisses, QueryFinds, Detached, Record
      <3>2. PICK i \in Slots : device[i].index = target.index /\ filter' = [filter EXCEPT ![i] = Free]
        BY <2>2, <3>1 DEF Detach
      <3>3. <<target.index, target.id>> \in todo
        BY <1>0, <3>1 DEF Detach, Called
      <3>4. index[j] # target.index
        BY <3>3 DEF HookInv, Retired
      <3>5. device[j].index = index[j]
        BY <1>7 DEF HookInv, Known
      <3>6. j # i
        BY <3>2, <3>4, <3>5
      <3> QED BY <1>0, <3>2, <3>6 DEF TypeOK
    <2> QED BY <2>1, <2>2
  <1>8. \A j \in Slots : ~NoGenerationYet(j)
    BY <1>0 DEF NoGenerationYet, Calls
  <1>9. \A j \in Slots : index[j] # 0 /\ ~(index[j] \in events' \/ overflow' \/ index[j] \in doomed') =>
              ~Doubtful(index[j]) /\ filter'[j] = filter[j] /\ ~NoGenerationYet(j)
    BY <1>1, <1>7, <1>8 DEF Doubtful, Unread
  <1> QED BY <1>1, <1>4, <1>5, <1>6, <1>9, QuietHooks

\* A look at a WAN, a failed attach_one() and the events: what is to be
\* forgotten is in doubt.
LEMMA DoubtHooks == ASSUME TypeInv, HookInv, Look \/ AttachFails \/ LinkEvents PROVE HookInv'
  <1> USE DEF devices, queue, numbers, looking, hooks, Goto
  <1>0. TypeOK /\ slot \in Slots
    BY DEF TypeInv, TypeOK
  <1>1. /\ caller = "nobody" /\ doomed = {} /\ todo = {} /\ ~Ending
        /\ UNCHANGED <<device, filter, run, index, link, entries, generation, epoch, origin>>
    BY DEF TypeInv, Called, Calls, Forgetting, Look, AttachFails, LinkEvents, Ending
  <1>2. CASE Look
    <2>1. UNCHANGED <<events, overflow>> /\ pc = "look" /\ found' = device[slot].index /\ slot' = slot
      BY <1>2 DEF Look
    <2>2. CASE Forget("change", {index[slot]})
      <3>1. pc' = "forget" /\ caller' = "change" /\ doomed' = {index[slot]} /\ todo' = {}
        BY <1>1, <2>2 DEF Forget
      <3>2. Busy' /\ Retired'
        BY <1>1, <2>1, <3>1 DEF Busy, Retired, WithDevice
      <3>3. \A j \in Slots : index[j] # 0 /\ ~(index[j] \in events' \/ overflow' \/ index[j] \in doomed') =>
                ~Doubtful(index[j]) /\ filter'[j] = filter[j] /\ ~NoGenerationYet(j)
        BY <1>1, <2>1 DEF Doubtful, Unread, NoGenerationYet
      <3>4. Listening'
        BY <3>1 DEF Listening
      <3> QED BY <1>1, <3>1, <3>2, <3>3, <3>4, QuietHooks
    <2>3. CASE ~Forget("change", {index[slot]})
      <3>1. /\ UNCHANGED calls /\ pc' \in {"priority", "enable"}
            /\ pc' = "priority" => index[slot] = 0
            /\ pc' = "enable" => index[slot] = found'
        BY <1>2, <2>3 DEF Look, Changed
      <3>2. Busy' /\ Retired'
        BY <1>1, <2>1, <3>1 DEF Busy, Retired, WithDevice, Forgetting, calls
      <3>3. \A j \in Slots : index[j] # 0 /\ ~(index[j] \in events' \/ overflow' \/ index[j] \in doomed') =>
                ~Doubtful(index[j]) /\ filter'[j] = filter[j] /\ ~NoGenerationYet(j)
        BY <1>1, <2>1 DEF Doubtful, Unread, NoGenerationYet
      <3>4. Listening'
        BY <1>1, <3>1 DEF Listening, calls
      <3> QED BY <1>1, <3>1, <3>2, <3>3, <3>4, QuietHooks
    <2> QED BY <2>2, <2>3
  <1>3. CASE AttachFails
    <2>1. pc \in {"egress", "save"} /\ Forget("failure", {found}) /\ UNCHANGED <<events, overflow, slot, found>>
      BY <1>3 DEF AttachFails
    <2>2. pc' = "forget" /\ caller' = "failure" /\ doomed' = {found} /\ todo' = {}
      BY <1>1, <2>1 DEF Forget
    <2>3. Busy' /\ Retired'
      BY <2>2 DEF Busy, Retired, WithDevice
    <2>4. index[slot] = found
      BY <2>1 DEF HookInv, Busy
    <2>5. \A j \in Slots : index[j] # 0 /\ ~(index[j] \in events' \/ overflow' \/ index[j] \in doomed') =>
              ~Doubtful(index[j]) /\ filter'[j] = filter[j] /\ ~NoGenerationYet(j)
      BY <1>1, <2>1, <2>2, <2>4 DEF Doubtful, Unread, NoGenerationYet
    <2>6. Listening'
      BY <2>2 DEF Listening
    <2> QED BY <1>1, <2>2, <2>3, <2>5, <2>6, QuietHooks
  <1>4. CASE LinkEvents
    <2> DEFINE gone == IF overflow THEN AllAfterLoss ELSE events \cap {index[i] : i \in Slots}
    <2>1. IF gone # {} THEN Forget("event", gone) ELSE pc' = "serve" /\ UNCHANGED calls
      BY <1>4, Zenon DEF LinkEvents, Goto
    <2>2. \A j \in Slots : index[j] # 0 /\ Unread(index[j]) => index[j] \in gone
      BY DEF AllAfterLoss, Unread
    <2> HIDE DEF gone
    <2>3. doomed' = gone /\ todo' = {} /\ pc' \in {"forget", "serve"} /\ caller' \in {"event", "nobody"}
      BY <1>1, <2>1 DEF Forget, calls
    <2>4. Busy' /\ Retired'
      BY <2>3 DEF Busy, Retired, WithDevice
    <2>5. \A j \in Slots : index[j] # 0 /\ ~(index[j] \in events' \/ overflow' \/ index[j] \in doomed') =>
              ~Doubtful(index[j]) /\ filter'[j] = filter[j] /\ ~NoGenerationYet(j)
      BY <1>1, <1>4, <2>2, <2>3 DEF LinkEvents, Doubtful, NoGenerationYet
    <2>6. Listening'
      BY <2>3 DEF Listening
    <2> QED BY <1>1, <2>3, <2>4, <2>5, <2>6, QuietHooks
  <1> QED BY <1>2, <1>3, <1>4

LEMMA IngressHooks == ASSUME TypeInv, Kept, HookInv, AttachIngress PROVE HookInv'
  <1> USE DEF devices, queue, numbers, looking
  <1>0. TypeOK /\ slot \in Slots /\ found # 0 /\ index[slot] = 0
    BY DEF TypeInv, TypeOK, AttachIngress, Found, WithDevice, HookInv, Busy, Unread, Doubtful
  <1>1. caller = "nobody" /\ doomed = {} /\ ~Ending /\ Listening /\ UNCHANGED <<caller, doomed, todo>>
    BY DEF TypeInv, Called, Calls, Forgetting, AttachIngress, Ending, Listening, calls
  <1>2. Retired'
    BY <1>1 DEF Retired, Forgetting
  <1>3. PICK i \in Slots : device[i].index = found /\ link' = [link EXCEPT ![slot] = device[i].birth]
    BY DEF AttachIngress
  <1>4. \A j \in Slots : /\ index'[j] = IF j = slot THEN found ELSE index[j]
                         /\ link'[j] = IF j = slot THEN device[i].birth ELSE link[j]
    BY <1>0, <1>3 DEF AttachIngress, TypeOK
  <1>5. ~Doubtful(found) => device[slot].index = found /\ i = slot
    BY <1>0, <1>1, <1>3 DEF AttachIngress, HookInv, Busy, Unread, Doubtful, WithDevice, Kept, Distinct
  <1>6. ~Doubtful(found) => entries[found] = 0
    <2>1. SUFFICES ASSUME ~Doubtful(found), entries[found] # 0 PROVE FALSE
      OBVIOUS
    <2>2. found \in Indices
      BY <1>0 DEF TypeOK
    <2>3. PICK j \in Slots : index[j] = found
      BY <1>1, <2>1, <2>2 DEF HookInv, Entered, AttachIngress, Ending
    <2>4. device[j].index = found
      BY <1>0, <2>1, <2>3 DEF HookInv, Known
    <2> QED BY <1>0, <1>5, <2>1, <2>3, <2>4 DEF Kept, Distinct
  <1>7. Unhooked' /\ Epochs'
    BY <1>1 DEF AttachIngress, Goto, Unhooked, Listening, HookInv, Epochs
  <1>8. Known'
    BY <1>1, <1>4, <1>5 DEF AttachIngress, Known, HookInv, Doubtful, Unread
  <1>9. Busy'
    BY <1>0, <1>1, <1>4 DEF AttachIngress, Goto, Busy, HookInv, Doubtful, Unread, WithDevice
  <1>10. Attached'
    BY <1>0, <1>1, <1>3, <1>4, <1>5 DEF AttachIngress, Goto, Attached, HookInv, Whole, NoFilterYet, NoGenerationYet,
       Doubtful, Unread, Ending
  <1>11. Entered'
    <2>1. ASSUME NEW idx \in Indices, entries'[idx] # 0 PROVE \E j \in Slots : index'[j] = idx
      <3>1. PICK j \in Slots : index[j] = idx
        BY <1>1, <2>1 DEF AttachIngress, Ending, HookInv, Entered
      <3> QED BY <1>0, <1>4, <3>1, Numbers
    <2>2. ASSUME NEW j \in Slots, index'[j] # 0, ~Doubtful(index[j])', entries'[index'[j]] # 0
          PROVE  entries'[index'[j]] = generation'[j] /\ ~NoGenerationYet(j)'
      <3>1. ~Doubtful(index'[j]) /\ entries' = entries /\ generation' = generation /\ slot' = slot
        BY <1>1, <2>2 DEF Doubtful, Unread, AttachIngress
      <3>2. j # slot /\ index'[j] = index[j]
        BY <1>4, <1>6, <2>2, <3>1
      <3> QED BY <1>1, <2>2, <3>1, <3>2 DEF HookInv, Entered, AttachIngress, Ending, NoGenerationYet
    <2> QED BY <2>1, <2>2 DEF Entered
  <1> QED BY <1>2, <1>7, <1>8, <1>9, <1>10, <1>11 DEF HookInv

LEMMA EgressHooks == ASSUME TypeInv, Kept, HookInv, AttachEgress PROVE HookInv'
  <1> USE DEF devices, queue, numbers, looking
  <1>0. TypeOK /\ slot \in Slots /\ found # 0 /\ index[slot] = found
    BY DEF TypeInv, TypeOK, AttachEgress, Found, WithDevice, HookInv, Busy, Unread, Doubtful
  <1>1. caller = "nobody" /\ doomed = {} /\ ~Ending /\ Listening /\ UNCHANGED <<caller, doomed, todo>>
    BY DEF TypeInv, Called, Calls, Forgetting, AttachEgress, Ending, Listening, calls
  <1>2. Retired'
    BY <1>1 DEF Retired, Forgetting
  <1>3. PICK i \in Slots : device[i].index = found /\ filter[i] = Free /\ filter' = [filter EXCEPT ![i] = run]
    BY DEF AttachEgress
  <1>4. \A j \in Slots : filter'[j] = IF j = i THEN run ELSE filter[j]
    BY <1>0, <1>3 DEF TypeOK
  <1>5. ~Doubtful(found) => i = slot
    BY <1>0, <1>3 DEF HookInv, Known, Kept, Distinct
  <1>6. Unhooked' /\ Epochs' /\ Known'
    BY <1>1 DEF AttachEgress, Goto, Unhooked, Listening, HookInv, Epochs, Known, Doubtful, Unread
  <1>7. Busy'
    BY <1>0, <1>1 DEF AttachEgress, Goto, Busy, HookInv, Doubtful, Unread, WithDevice
  <1>8. Attached'
    BY <1>0, <1>1, <1>4, <1>5 DEF AttachEgress, Goto, Attached, HookInv, Whole, NoFilterYet, NoGenerationYet,
       Doubtful, Unread, Ending
  <1>9. Entered'
    BY <1>1 DEF AttachEgress, Goto, HookInv, Entered, NoGenerationYet, Doubtful, Unread, Ending
  <1> QED BY <1>2, <1>6, <1>7, <1>8, <1>9 DEF HookInv

LEMMA SavedHooks == ASSUME TypeInv, HookInv, SaveAttached PROVE HookInv'
  <1> USE DEF devices, queue, numbers, looking, hooks
  <1>0. TypeOK /\ slot \in Slots /\ index[slot] = found
    BY DEF TypeInv, TypeOK, SaveAttached, HookInv, Busy, Unread, Doubtful
  <1>1. caller = "nobody" /\ doomed = {} /\ ~Ending /\ Listening /\ UNCHANGED <<caller, doomed, todo>>
    BY DEF TypeInv, Called, Calls, Forgetting, SaveAttached, Ending, Listening, calls
  <1>2. Retired'
    BY <1>1 DEF Retired, Forgetting
  <1>3. epoch + 1 \in 1 .. MaxEpoch /\ epoch \in Nat
    BY <1>0 DEF SaveAttached, TypeOK
  <1>4. \A j \in Slots : generation'[j] = IF j = slot THEN epoch + 1 ELSE generation[j]
    BY <1>0 DEF SaveAttached, TypeOK
  <1>5. \A g \in 1 .. MaxEpoch : origin'[g] = IF g = epoch + 1 THEN link[slot] ELSE origin[g]
    BY <1>0, <1>3 DEF SaveAttached, TypeOK
  <1>6. Unhooked' /\ Known'
    BY <1>1 DEF SaveAttached, Goto, Unhooked, Listening, HookInv, Known, Doubtful, Unread
  <1>7. Epochs'
    BY <1>0, <1>3, <1>4 DEF SaveAttached, HookInv, Epochs, TypeOK
  <1>8. Busy'
    BY <1>0, <1>1 DEF SaveAttached, Goto, Busy, HookInv, Doubtful, Unread, WithDevice
  <1>9. Attached'
    <2>1. SUFFICES ASSUME NEW j \in Slots, index[j] # 0, ~Doubtful(index[j]) PROVE Whole(j)'
      BY <1>1 DEF SaveAttached, Attached, Doubtful, Unread
    <2>2. Whole(j)
      BY <1>1, <2>1 DEF HookInv, Attached, SaveAttached, Ending
    <2>3. filter'[j] = run' /\ link'[j] = device'[j].birth
      BY <2>2 DEF Whole, SaveAttached, NoFilterYet
    <2>4. generation'[j] \in 1 .. epoch' /\ origin'[generation'[j]] = device'[j].birth
      <3>1. CASE j = slot
        <4>1. generation'[j] = epoch + 1 /\ epoch' = epoch + 1
          BY <1>4, <3>1 DEF SaveAttached
        <4>2. origin'[epoch + 1] = link[slot]
          BY <1>3, <1>5
        <4> QED BY <1>3, <2>2, <3>1, <4>1, <4>2 DEF Whole, SaveAttached
      <3>2. CASE j # slot
        <4>1. generation'[j] = generation[j] /\ generation[j] \in 1 .. epoch /\ epoch' = epoch + 1
          BY <1>4, <2>2, <3>2 DEF Whole, NoGenerationYet, SaveAttached
        <4>2. origin'[generation[j]] = origin[generation[j]]
          <5>1. generation[j] \in 1 .. MaxEpoch /\ generation[j] # epoch + 1
            BY <1>3, <4>1
          <5> QED BY <1>5, <5>1
        <4>3. origin[generation[j]] = device[j].birth
          BY <2>2, <3>2 DEF Whole, NoGenerationYet
        <4> QED BY <1>3, <4>1, <4>2, <4>3 DEF SaveAttached
      <3> QED BY <3>1, <3>2
    <2> QED BY <2>3, <2>4 DEF Whole
  <1>10. Entered'
    <2>1. SUFFICES ASSUME NEW j \in Slots, index[j] # 0, ~Doubtful(index[j]), entries[index[j]] # 0
                   PROVE  entries[index[j]] = generation'[j] /\ ~NoGenerationYet(j)'
      BY <1>1 DEF SaveAttached, Goto, HookInv, Entered, Doubtful, Unread, Ending
    <2>2. entries[index[j]] = generation[j] /\ ~NoGenerationYet(j)
      BY <1>1, <2>1 DEF SaveAttached, HookInv, Entered, Ending
    <2> QED BY <1>4, <2>2 DEF SaveAttached, Goto, NoGenerationYet
  <1> QED BY <1>2, <1>6, <1>7, <1>8, <1>9, <1>10 DEF HookInv

LEMMA EnabledHooks == ASSUME TypeInv, Kept, HookInv, Enable PROVE HookInv'
  <1> USE DEF devices, queue, numbers, looking, hooks
  <1>0. TypeOK /\ slot \in Slots /\ index[slot] = found /\ found # 0 /\ found \in Indices
    BY DEF TypeInv, TypeOK, Enable, HookInv, Busy, Unread, Doubtful, Found, WithDevice
  <1>1. caller = "nobody" /\ doomed = {} /\ ~Ending /\ Listening /\ UNCHANGED <<caller, doomed, todo>>
    BY DEF TypeInv, Called, Calls, Forgetting, Enable, Ending, Listening, calls
  <1>2. Retired'
    BY <1>1 DEF Retired, Forgetting
  <1>3. pc' \in {"publish", "poll", "look"} /\ found' = 0
    BY <1>0, NextSlotTypes DEF Enable
  <1>4. \A idx \in Indices : entries'[idx] = IF idx = found THEN generation[slot] ELSE entries[idx]
    BY <1>0 DEF Enable, TypeOK
  <1>5. Unhooked' /\ Known' /\ Busy' /\ Epochs'
    BY <1>1, <1>3 DEF Enable, Unhooked, Listening, Known, HookInv, Busy, Epochs, Doubtful, Unread, WithDevice
  <1>6. Attached'
    BY <1>1, <1>3 DEF Enable, HookInv, Attached, Whole, NoFilterYet, NoGenerationYet, Doubtful, Unread, Ending
  <1>7. Entered'
    <2>1. ASSUME NEW idx \in Indices, entries'[idx] # 0 PROVE \E j \in Slots : index'[j] = idx
      <3>1. CASE idx = found
        BY <1>0, <3>1 DEF Enable
      <3>2. CASE idx # found
        BY <1>1, <1>4, <2>1, <3>2 DEF Enable, HookInv, Entered, Ending
      <3> QED BY <3>1, <3>2
    <2>2. ASSUME NEW j \in Slots, index'[j] # 0, ~Doubtful(index[j])', entries'[index'[j]] # 0
          PROVE  entries'[index'[j]] = generation'[j] /\ ~NoGenerationYet(j)'
      <3>1. index' = index /\ generation' = generation /\ index[j] # 0 /\ ~Doubtful(index[j]) /\ index[j] \in Indices
        BY <1>0, <1>1, <2>2 DEF Enable, Doubtful, Unread, TypeOK
      <3>2. ~NoGenerationYet(j)'
        BY <1>3 DEF NoGenerationYet
      <3>3. CASE index[j] = found
        <4>1. device[j].index = found /\ device[slot].index = found
          BY <1>0, <3>1, <3>3 DEF HookInv, Known
        <4>2. j = slot
          BY <1>0, <4>1 DEF Kept, Distinct
        <4> QED BY <1>0, <1>4, <3>1, <3>2, <3>3, <4>2
      <3>4. CASE index[j] # found
        <4>1. entries'[index[j]] = entries[index[j]]
          BY <1>4, <3>1, <3>4
        <4> QED BY <1>1, <2>2, <3>1, <3>2, <4>1 DEF HookInv, Entered, Enable, Ending
      <3> QED BY <3>3, <3>4
    <2> QED BY <2>1, <2>2 DEF Entered
  <1> QED BY <1>2, <1>5, <1>6, <1>7 DEF HookInv

LEMMA HookStep == ASSUME TypeInv, Kept, HookInv, [Next]_vars PROVE HookInv'
  <1> USE DEF devices, privates, queue, looking, calls, hooks, numbers, Goto
  <1>0. TypeOK /\ Called /\ (\A j \in Slots : generation[j] \in 0 .. epoch)
    BY DEF TypeInv, HookInv, Epochs
  <1> DEFINE Detaching == QueryMisses \/ QueryFinds \/ Detach \/ Detached
  <1>1. CASE \/ Start \/ Recover \/ RecoverDummy \/ Check \/ MakeDummy \/ SaveDummy \/ MakePrivate
             \/ (StartFails /\ ~Listening) \/ (Detaching /\ caller = "stale")
    <2>1. ~Listening
      BY <1>1 DEF Start, Recover, RecoverDummy, Check, MakeDummy, SaveDummy, MakePrivate, Listening
    <2>2. index = [i \in Slots |-> 0] /\ entries = [idx \in Indices |-> 0]
      BY <1>1, <2>1 DEF HookInv, Unhooked, RecoverDummy
    <2>3. /\ UNCHANGED <<index, entries, generation, epoch>> /\ pc' \notin WithDevice
          /\ caller' \in {"nobody", "stale"}
      BY <1>0, <1>1 DEF Start, Recover, RecoverDummy, Check, MakeDummy, SaveDummy, MakePrivate, StartFails, QueryMisses,
              QueryFinds, Detach, Detached, Call, Called, Calls, WithDevice
    <2> QED BY <1>0, <2>2, <2>3, BlankHooks
  <1>2. CASE Unlink \/ Kill
    <2>1. Fresh /\ pc' = "down"
      BY <1>2 DEF Unlink, Kill
    <2> QED BY <2>1, BlankHooks DEF Fresh, WithDevice
  <1>3. CASE \/ RefreshFails \/ Quit \/ ReleaseLinks \/ DeleteDummy \/ (StartFails /\ Listening)
             \/ (Detaching /\ caller = "out") \/ (Record /\ caller = "failure" /\ doomed = {})
    <2>1. /\ UNCHANGED <<device, index, events, overflow, doomed, generation, epoch>>
          /\ pc' \in {"out", "query", "detach", "delete", "unlink"} /\ caller' \in {"nobody", "out"}
          /\ pc' \in {"query", "detach"} => caller' = "out"
      BY <1>0, <1>3 DEF RefreshFails, Quit, ReleaseLinks, DeleteDummy, StartFails, QueryMisses, QueryFinds, Detach,
              Detached, Record, Call, Called, Calls, Forgetting
    <2>2. Ending' /\ Listening' /\ pc' \notin WithDevice
      BY <2>1 DEF Ending, Listening, WithDevice
    <2> QED BY <2>1, <2>2, EndHooks
  <1>4. CASE Ready \/ StillAbsent \/ BeginRefresh \/ NotDue \/ Priority
    <2>1. /\ UNCHANGED <<device, filter, run, index, link, entries, generation, epoch, origin, events, overflow,
                         caller, doomed, todo>>
          /\ caller = "nobody" /\ ~Ending /\ pc \notin {"egress", "save"}
          /\ pc' \in {"serve", "publish", "poll", "look", "ingress"}
          /\ pc' = "ingress" => pc = "priority" /\ UNCHANGED <<slot, found>>
      BY <1>0, <1>4, NextSlotTypes DEF Ready, StillAbsent, BeginRefresh, NotDue, Priority, Called, Calls, Ending
    <2>2. Busy'
      BY <2>1 DEF HookInv, Busy, Unread, WithDevice
    <2>3. Retired' /\ Listening'
      BY <2>1 DEF Retired, Forgetting, Listening
    <2>4. \A j \in Slots : index[j] # 0 /\ ~(index[j] \in events' \/ overflow' \/ index[j] \in doomed') =>
              ~Doubtful(index[j]) /\ filter'[j] = filter[j] /\ ~NoGenerationYet(j)
      BY <2>1 DEF Doubtful, Unread, NoGenerationYet
    <2> QED BY <2>1, <2>2, <2>3, <2>4, QuietHooks
  <1>5. CASE (Detaching /\ caller \in Forgetting) \/ (Record /\ ~(caller = "failure" /\ doomed = {}))
    <2>1. caller \in Forgetting
      BY <1>0, <1>5 DEF Record, Called
    <2> QED BY <1>5, <2>1, DetachedHooks
  <1>6. CASE UNCHANGED vars
    BY <1>6 DEF vars, HookInv, Unhooked, Known, Busy, Retired, Epochs, Attached, Whole, Entered, NoFilterYet,
            NoGenerationYet, Doubtful, Unread, Ending, Listening
  <1>7. Detaching => caller \in {"stale", "out"} \cup Forgetting
    BY <1>0 DEF QueryMisses, QueryFinds, Detach, Detached, Called, Calls, TypeOK, Callers
  <1> QED BY <1>1, <1>2, <1>3, <1>4, <1>5, <1>6, <1>7, WorldHooks, ForgetHooks, DoubtHooks, IngressHooks, EgressHooks,
             SavedHooks, EnabledHooks DEF Next, Working, Forgets, Refresh

LEMMA HookInitially == Init => HookInv
  BY DEF Init, HookInv, Unhooked, Known, Busy, Retired, Epochs, Attached, Entered, WithDevice, Forgetting

\* An ifindex that is enabled has both hooks on the very device its generation
\* was made for, or the daemon has yet to deal with the news that this device
\* is gone: also when ifindexes are reused, events lost, filters not detached
\* and the daemon killed at any step (docs/ebpf-implementation-spec.md:256, 290).
THEOREM EnabledAreHooked == Spec => []EnabledMeansHooked
  <1>1. TypeInv /\ Kept /\ HookInv => EnabledMeansHooked
    <2> SUFFICES ASSUME TypeInv, Kept, HookInv, NEW i \in Slots, Exists(i), pc # "down",
                        entries[device[i].index] # 0, ~Doubtful(device[i].index), ~Ending
                 PROVE  Hooked(i) /\ origin[entries[device[i].index]] = device[i].birth
      BY DEF EnabledMeansHooked, Doubtful, Unread, Ending
    <2>1. device[i].index \in Indices /\ device[i].index # 0
      BY DeviceTypes DEF TypeInv
    <2>2. PICK j \in Slots : index[j] = device[i].index
      BY <2>1 DEF HookInv, Entered
    <2>3. j = i
      BY <2>1, <2>2 DEF HookInv, Known, Kept, Distinct
    <2>4. Whole(i) /\ entries[device[i].index] = generation[i] /\ ~NoGenerationYet(i)
      BY <2>1, <2>2, <2>3 DEF HookInv, Attached, Entered
    <2> QED BY <2>4 DEF Whole, Hooked, NoFilterYet, NoGenerationYet
  <1>2. Init => TypeInv /\ Kept /\ HookInv
    BY TypeInitially, KeptInitially, HookInitially
  <1>3. TypeInv /\ Kept /\ HookInv /\ [Next]_vars => (TypeInv /\ Kept /\ HookInv)'
    BY TypeStep, KeptStep, HookStep
  <1> QED BY <1>1, <1>2, <1>3, PTL DEF Spec
=============================================================================
