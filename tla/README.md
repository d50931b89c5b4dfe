# A formal model of fake-flow

fake-flow watches the TCP and UDP flows of a router's WAN interfaces with two
TC programs and, early in a connection, sends a few decoy packets of its own
next to the real ones. It never queues or changes a real packet for that (the
TFO strip apart): a decoy is a clone of the observed packet, sent through a
private device whose egress program rewrites it, redirected to the WAN, and
recognised there by a one-time credential so that it is not taken for traffic.

This directory holds TLA+ modules for the parts of the program that keep
state or decide what comes in, the TLC configurations that check them on small instances, and TLAPS
proofs of the results that matter most. `PROJECT.json` lists the runs, the
mutants that show what each property is sensitive to, the line of the source
each definition stands for, the disagreements found, and the hazards the
properties are for.

1. The system · 2. The modules · 3. The runs · 4. Bounds and fairness ·
5. Proofs · 6. Findings · 7. Seen and not run · 8. Not modelled ·
9. Plan

## 1. The system

All paths are below `src/`. The eBPF programs run on every CPU at once, in
softirq context; the daemon is one single-threaded process.

| Part | Source | State it keeps | Operations | What makes it correct |
|---|---|---|---|---|
| Observer | `ebpf/bpf/observer.bpf.c` | request map (256), id sequence, one bucket per WAN | `observe()`, `emit()`, `reserve()` | a decoy is never taken for traffic; each is built and sent at most once; the budget per WAN holds |
| Builder | `ebpf/bpf/builder.bpf.c` | the request it consumes | `ff_builder()`, `build()`, `ff_drop` | only a valid, current request becomes a packet; anything else is dropped |
| TCP trigger | `ebpf/bpf/tcp.h` | `tcp_flows` (LRU), rule rotation | `tcp_trigger()`, `next_rule()`, `options()` | quota and spacing per handshake, nothing after it, one payload shape per connection |
| UDP trigger | `ebpf/bpf/udp.h` | `udp_flows` (LRU) | `udp_trigger()` | only early packets, nothing in reply to a lone inbound packet |
| Parser, filter | `ebpf/bpf/parse.h` | none | `parse()`, `remote_allowed()` | only well-formed packets pass, nothing outside them is read, both directions of a flow share a key |
| Option scan | `ebpf/bpf/tcp.h:5-70` | the SYN it rewrites | `scan_option()`, `options()` | a SYN is rewritten wholly or not at all |
| Hop estimate | `ebpf/bpf/observer.bpf.c:26-35` | none | head of `emit()` | no decoy reaches the peer |
| Configuration publication | `ebpf/user/lifecycle.c:153-224` | `templates`, `configs`, `active_config` | `publish()`, `reap_configs()`, `reload()` | a request finds the template of its own generation or none |
| Interfaces, recovery | `ebpf/user/lifecycle.c:66-147,244-266`, `attach.c` | `interfaces`, state file, attached filters | `refresh()`, `forget_index()`, `link_events()`, `save_state()`, `stale_filters()` | what is enabled is hooked; nothing foreign is touched; nothing is left behind |
| Daemon loop | `ebpf/user/lifecycle.c:349-456` | lease, control socket | start, loop, `drain_requests()`, teardown | modifications stop when the daemon does; the hooks go when nothing is under way |
| Config parser, templates | `ebpf/user/config.c`, `templates.c` | none | `ff_config_read()`, `ff_templates()`, `ff_variants()` | only complete, in-range configurations pass; what is asked for is published |
| LuCI plugin | `packaging/luci/root/usr/libexec/rpcd/fakeflow` | config file, UCI switch, boot link, lock | get, validate, save, action | no edit is lost, an unsaved change changes nothing |
| LuCI page | `packaging/luci/htdocs/` | the form | retry, save | |

How they interact. `observe()` sees every packet at the WAN's TCX ingress and
TC egress. It parses it, asks the TCP or UDP trigger whether this packet calls
for decoys, and if so runs `emit()`: `reserve()` books the price, then for
every copy a request goes into the map and `bpf_clone_redirect()` runs
`ff_builder()` on the private device, on the same CPU, before it returns. The
finished clone is redirected to the WAN's egress queue, where `observe()`
meets it again and spends the credential. The daemon talks to these programs
only through maps: the lease says that it is alive, `interfaces` which
interface is enabled and in which generation, `active_config` which
configuration is in force. Page and terminal talk to the daemon through a
control socket and files.

What is hard about it:

* **CPUs interleave.** Flows, buckets and requests are shared. Locks cover the
  critical sections but neither the clock readings, which are taken before the
  lock, nor the lookups, whose elements may be deleted and reused.
* **Order is not given.** The clone may cross the egress hook before or after
  its producer looks at the request again. SYNs are retransmitted, cross, and
  are seen by two CPUs.
* **The configuration and the interfaces change under way.** Reloads switch
  generations while requests of the old one are being built; interfaces are
  forgotten and re-attached while clones are on their way.
* **Failure.** Any map update, clone, build or attachment may fail; link
  events are lost; the daemon is killed between a change in the kernel and its
  record on disk.
* **Numbers.** Time differences are unsigned 64-bit, counters 32-bit, sequence
  numbers wrap.

`PROJECT.json` lists each such place as a hazard at its line.

## 2. The modules

### KernelClock
The readings of `bpf_ktime_get_ns()` and their unsigned difference, `Elapsed`,
with `TimeMod` for 2^64. Extended by the three modules that subtract readings.

### TokenBucket (`reserve()`)
State: the bucket (`at`, `tokens`), the active configuration, and per CPU its
step and the reading and configuration taken at the head of `emit()`.
`EnterEmit` takes the reading, `Reserve` is the critical section, `Reload`
switches the configuration. The arithmetic is the code's: `limit/rate` as the
guard of the product, the clipping, the price of `repeat` packets. History:
`spent`, `since`, and `stale`, which notes that a reservation ran with a
reading older than the bucket's stamp.

### Injection (`emit()`, `ff_builder()`, the credential check of `observe()`)
State: the request map by id, where each clone is (`fate`), the lease, the
interface generation, and per CPU the step of the copy loop. One action per
step between which another CPU, the clone's crossing, or the daemon can get
in: `Observe`, `Attempt`, `Insert`, the builder's two halves around `build()`
(`Accept`/`Refuse`/`Disown`, `BuildSucceeds`/`BuildFails`,
`Submit`/`Abandon`), `Lookup`, `Settle`, `EndOfBody`; the clone's `Spend`,
`Reclaim`, `PassBy`, `Escape`, `Lose`; the daemon's
`RenewLease`, `Stop`, `Forget`, `Attach`. The element behind the second lookup
may be deleted and reused before its state is read: `SeenStates` is the set of
states the producer can then see. `Faults` says which failures of the
environment happen: `"clone"` (lost clones), `"link"` (interface changes). The
bytes `build()` writes are abstracted to success or failure.

### FakeDelivery
What injection promises, in four stages per request: nothing, built, on the
wire, gone or sent. `Injection!DeliverySpec` maps `fate` onto it.

### Shutdown (`drain_requests()`, the teardown)
The datapath of Injection with the daemon's end on top of it. After `Stop`,
`Poll` is one look at the request map, `Wake` the end of the 10 ms pause behind
it; two empty looks in a row (`Drained`) or the two-second limit (`GivenUp`,
after `Polls` looks) lead to `Detach`, after which a clone on its way meets no
hook any more (`Slip`). The map does not show a CPU that has passed its lease
check and not inserted its request yet. The two pauses stand for "such a CPU is
done by then": `Wake` waits for the CPUs only from the second pause on, so one
look would not be enough in the model. Hooks that take longer than 20 ms are
outside of it.

### FlowTable
The LRU hash maps of the two triggers: elements, owners, pointers held by a
CPU, eviction. `Recycle` says whether an element may be evicted while a CPU
points at it. The kernel does not prevent that; see section 7 for what follows.

### UdpFlow (`udp_trigger()`)
Per CPU: `Observe` (the packet and its reading), `Hit`/`Miss` (lookup),
`Create`/`CreateFails` (the insertion with BPF_NOEXIST that may lose the
race), `Update` (critical section). A packet is its direction, TTL, reading
and the configuration it runs under. History: the window of each flow.

### TcpFlow (`tcp_trigger()`, `next_rule()`)
The same shape, with `Ignore` for the early return, and two critical sections,
`UpdateSyn` and `UpdateOther`. A packet is SYN, SYN-ACK or other, with its
sequence and acknowledgement numbers modulo `SeqMod`, payload bytes, TTL and
whether `options()` accepted it. `Turned` advances the rotation, `RuleOf` is
the pinned rule. History: per flow the handshake as the specification counts
it.

### Publication (`publish()`, `reap_configs()`, `emit()`'s key, `build()`'s lookup)
The daemon's `Publish` (with the `Reap` it starts with), then `Insert` one key
at a time, `Configure`, `Activate`, or `Rollback` after any refused update; the
idle `Reap`. The CPUs' `Observe` (looks the configuration up), `TriggerUdp`,
`TriggerNew`, `TriggerKnown` (a connection keeps its rule), `Build`. Bytes are
abstracted to the configuration they come from.

### Interfaces (start, `refresh()`, events, teardown, recovery)
A WAN is a name; the device bearing it has an ifindex and a birth number, so
that the reuse of an ifindex can be told. The world's `Create`, `Remove`,
`Occupy` (somebody else's filter); the kernel's queue of RTM_DELLINK messages,
which may overflow; the daemon from `Start` over `Recover` (`stale_filters()`)
and `Check` to the private device, the loop of `refresh()` step by step
(`Look`, `StillAbsent`, `Priority`, `AttachIngress`, `AttachEgress`,
`SaveAttached`, `Enable`), `LinkEvents`, and the teardown; `Kill` at any step.
`AttachEgress` and `SaveAttached` are two actions because a kill gets in
between.

`ff_detach()` is a routine of its own, for the label `out`, `stale_filters()`
and `forget_index()` (`caller` says for whom it works, `todo` what is left of
the records it was given). `QueryFinds` and `QueryMisses` are `bpf_tc_query()`,
which may fail; `Detach` is `bpf_tc_detach()`, which removes what is on the
ifindex by then, or fails with a warning. In every case the record is dropped
(`Drop`), as `forget_index()` drops it. `ForgetIndex` and `Record` are the two
ends of `forget_index()` around it, the second writing the file, or failing to
with nobody looking. `Delete` is `ip link delete`, in the recovery and at the
end, which may fail too. Two histories name what these failures, and kills
between a change and its record, leave beyond the daemon's reach: `lost` (WAN
filters) and `strays` (private devices).

### LuciPlugin (the rpcd plugin)
One shell process per request of a page, as a record with its step and its
variables; the lock directory and the pid in it; the configuration file, its
backup and the UCI switch; what each page shows and the revision it holds.
`acquire()` is seven actions, because `mkdir`, `cat`, `kill -0`, `rm`, `rmdir`
and the write of the pid are separate commands; `get` reads the file and the
revision in two (`Read`, `Reply`); a save goes through `Check`, `Backup`,
`Commit` (or `CommitFails`), `Replace` (or `Restore`, which may fail too) and
`Reply`; `cleanup()` is two. `Terminate` (the trap) and `Kill` come at any step,
and `Terminal` is somebody editing the files by hand, at any step as well. No
step waits for another request: whatever the lock does not keep apart
interleaves.

`kill -0` answers for any process of the router. `Probe` may therefore take the
recorded owner for a live one at any time, also when no request of the plugin
has its pid; it finds it dead only if none has.

Four histories say how far the code's promises reach. `asked` are the requests
whose view of the lock is still true; `mistaken` is set when a takeover removes
a lock that changed since it read the owner, and reset when no request and no
lock is left; `touched` are the requests that a terminal has overtaken behind
their check or first read, with `torn` for a page that shows what such a request
read; `left` says whether a killed request's lock names it. Left out: the boot
link, the status reply, and what the service does on start and stop.

### ConfigFile (`ff_config_read()`, `ff_templates()`, the keys of `publish()`)
The reader's loop line by line: `OpenBlock`, `OpenSection`, `Assign`, `Reject`;
then `Eof` with the checks behind the loop. `given` is what has been read, by
section, number of the block and key, which is exactly how the code names its
duplicates. `Takes` is the table of keys with the values each takes; a value
is a member of a small set that keeps apart what the code keeps apart (a path,
a bare name, a name with a blank, an unknown word). `Rules` covers both ways to
get rules, `RuleMap` the rotation, `Published` the keys of a generation, `Picks`
what `emit()` may ask for. `WellFormed` and `RotationWritten` read the file as a
whole and are what the line-by-line reader is compared with.

### Parser (`parse()`, `remote_allowed()`)
Operators on a frame, a record of header fields and of the bytes there are.
Each header claims lengths of its own. `LinkFits`, `NetworkFits`, `TcpFits` and
`UdpFits` are the early returns; `Key` is the flow key in either direction.

### OptionScan (`scan_option()`)
The walk over the option bytes that `bpf_loop()` makes, one step per byte
(`Step`, `Scanned`), and the same list read option by option: `Heads` are the
first bytes of the options, `Sane` and `Stripped` say what is to be made of
them.

### HopEstimate (the head of `emit()`)
`DecoyTtl`, 0 when there is to be no decoy.

### Inputs
Composes the last four: a file is read, and when it is accepted a frame comes
in under its settings (`Observe`), triggers (`Emit`) or is a SYN whose options
are scanned and rewritten (`Scan`, `StoreOptions`, `ReplaceSum`), where each
helper may fail (`Fail`, `Restore`).

### Simplifications common to the modules
* A critical section under `bpf_spin_lock` is one action. Flow locks are shared
  by hash; one per flow allows more interleavings, not fewer.
* `Tick` moves the clock at any step, so two readings on two CPUs may be used
  in either order.
* Real time limits (`lease`, request lifetime, 200 ms, 30 s, `udp_idle`) are a
  few ticks; only their order matters to the code.

## 3. The runs

| Run | Question and result |
|---|---|
| `bucket` | Does the bucket keep its burst, its budget (readings in order) and its promise to an idle sender, with two rates, two bursts and two copy counts mixed by reloads? Yes. |
| `injection` | Two CPUs, lost clones, interface changes, lease lapses, a stop at any step and the teardown: no decoy is taken for traffic, `submit_ok` implies a build, after the stop at most one request per CPU, nothing is under way when a drain has ended by emptiness, no old clone on a new interface, and delivery as `FakeDelivery` says. |
| `drain` | With lost clones, the daemon gets to its end, and only requests of lost clones are left. |
| `injection_orphan` | Violation of `NoOrphan`: see section 6. |
| `udp` | Two flows that evict each other, two configurations mixed by reloads: early packets only, no reflection, current estimates. |
| `tcp` | Two workloads. Five packets of one connection: retransmissions, a second generation, silence. And two connections that evict each other, opened from both sides, vetoed in every way, with reloads that change directions and rules. Quota, spacing and the end of the handshake hold, with readings in order; one shape per connection, a known TTL for every batch. |
| `tcp_stale_reading` | Violation of `QuotaHolds`: see section 6. |
| `publication` | Publications that fail anywhere, the reaper, a CPU that holds an old configuration: requests of the two latest generations are served, never with other bytes, failures leave nothing, the maps have room. |
| `interfaces` | Two WANs that take over each other's ifindex, lost events, foreign filters, calls that fail (queries, detachments, deletions and records among them), kills at any step. What is left is on file or is one of the leavings that `lost` and `strays` name, nothing foreign is touched but by a detachment that comes too late, what is enabled is hooked, and WANs are hooked again. |
| `luci` | Two pages and a terminal. Up to a mistaken takeover, one request works at a time, also after kills and rightful takeovers; no save that no terminal has overtaken overwrites what its page was not shown; what it overwrites is in the backup; an unsaved save changes nothing; and a lock without a request names an owner that was killed, unless the kill fell beside the write of its pid. |
| `luci_takeover` | Violation of `OldPageRefused`, which does not except mistaken takeovers: see section 6. |
| `inputs` | Files of interfaces, rules, retired keys and limits in any order; frames over Ethernet, VLANs, PPPoE and L3, over v4 and v6, with one or two fields wrong; option lists; TTLs. The reader takes what is written, only published templates are asked for, accepted packets lie inside their frame, both directions share a key, the scan agrees with the list, a SYN is never half rewritten, no decoy reaches the peer. |

Every property of a passing run has a mutant in `PROJECT.json`: a definition of
the model changed the way a slip in the code would change it, under which TLC
finds that property violated.

## 4. Bounds and fairness

Bounds are constants of the modules; each only stops counters.

| Bound | Where | Why it is enough |
|---|---|---|
| `MaxTriggers = 5`, `MaxClock = 6` | TokenBucket | emptying the bucket, refilling it, clipping, and a reload on either side |
| `MaxSeq` 2 or 3, `MaxEpoch` 1 or 2 | Injection, Shutdown | both copies of one trigger, or copies of two CPUs; a re-attachment while a clone is out |
| `Capacity = 2` | Injection, Shutdown | the map fills up (`MapFull`) while both CPUs hold a request |
| `Polls = 3` | Shutdown | a look that finds requests, one that finds none, and either end of the loop |
| `MaxPackets` 4, `MaxClock` 4 | UdpFlow | a whole window, silence, the next one |
| packets 4 to 6, ticks 2 to 6 of a workload | TcpFlow | quota used up, silence, new generation; `Slots` one below `Keys` makes eviction happen |
| `Top = 3` for 2^32-1, `SeqMod = 2` for 2^32, `TimeMod = 64` for 2^64 | flows | the counter saturates, numbers wrap, differences of readings out of order wrap and exceed every limit |
| `MaxGen = 4` | Publication | the reaper removes generations 1 and 2 while a CPU holds them |
| files of 5 or 6 lines behind a fixed head, `MaxInterfaces` 2 for 8, `MaxRules` 2 for 3, `MaxKeys` 6 for 128, `Variants` 4 for 32 | ConfigFile | two blocks with all their keys, repeated and misplaced ones, and one block more than allowed; 128 is more than all keys there are, so only a small limit is ever reached |
| option lists of 4 and 8 bytes | Inputs | three options, each ending before, at or behind the end |
| frames with two damages, the second anywhere | Inputs | one field covers up another |
| `MaxBirth = 3`, `MaxRun = 2`, `MaxEpoch = 4` | Interfaces | reuse of an ifindex, also between a query and its detachment; a restart after a kill; re-attachment |

`CHECK_DEADLOCK FALSE` stands in the configurations whose bounds, or whose
program, end every behaviour. CPUs and flow keys are symmetric: the modules only compare
them. Runs with liveness properties use no symmetry.

LuciPlugin needs no bound on requests: process ids are given again, so its
state space is finite. Two pages suffice for one request to disturb another,
two file contents for an overwritten edit, and a third process id (`pid3`) for
an owner that is gone while both pages have requests under way. The constraint
`Claimed` of the run `luci` does not explore what follows a mistaken takeover:
the invariants claim nothing there until it is over, and the proofs, which know
no constraint, cover the states after it. `luci_takeover` has no constraint.

Fairness. *Injection*: weak fairness of every CPU inside a hook, since a
program attached to a hook runs to its end, and of every clone that was handed
to the WAN. The clock, the daemon and new packets owe nothing. *Shutdown*: the
same, and weak fairness of the looks, pauses and the teardown, which are all the
daemon does at its end. *Interfaces*:
weak fairness of the steps of the daemon's work, which is sequential code, and
strong fairness of `BeginRefresh`, which is due every two seconds but may be
postponed by events and by a failure of the run. Restarts and devices owe
nothing. `Rehooked` would fail under less: without `BeginRefresh` nothing looks
for a device that came back. *LuciPlugin* has no liveness property: a lock whose
owner was killed at the wrong step, or whose pid another process has got, stays
for good (section 7).

## 5. Proofs

The proofs hold for every value of the constants that satisfies the named
assumptions.

| Module | Theorems | Argument |
|---|---|---|
| `TokenBucket_proof` | `TypeCorrect`, `BurstIsACeiling`, `BudgetIsKept`, `IdlingEarns` | `Accounted` relates what was spent and what is left in the bucket to the time since the first reservation: the budget alone is not inductive, for it does not say what the bucket still holds. `NowNotAhead` keeps readings behind the clock. Lemmas bound the refill under the division guard, from above for the budget and from below for `IdlingEarns`, an action property (`RefillSuffices`). |
| `Injection_proof` | `TypeCorrect`, `FakesAreNotReinjected`, `DeliversFakes` | A clone on the wire has a credential of state 2 (`Credentialed`). That is preserved because ids are fresh (`Fresh`), two busy CPUs never share one (`Owners`, `Disjoint`), the producer asks about its own (`Asked`), and one whose second lookup missed has no clone on the wire (`Missed`). The refinement maps every step to a step of `FakeDelivery` or a stutter. |
| | `FewLastRequests` | `Stopped`: the lease is off for good, and a CPU that has made its last request is not about to insert another. |
| | `SubmittedMeansBuilt` | `Booked`: as long as the builder has not handed over a CPU's present clone (`Unbuilt`), the request is in the map in state 0 or 1 and its producer finds it (`Found`), so it cannot book the clone as submitted by mistake. |
| | `ForgottenNeverCross` | `Generations`: the entry in `interfaces` has the latest generation, CPUs and requests have generations there were, and a request that was under way when its interface was forgotten has another one than the interface has now. |
| | `PromisesOutliveTheStop` (of Shutdown) | A step of the daemon is a step of `Injection`, a clone that slips past the detached hooks, or a stutter of its variables. The step lemmas of Injection are stated over `Step`, which has the first two, and are cited here. |
| | `QuietAfterDrain` (of Shutdown) | `DrainInv`: after a look that found the map empty no clone is on the wire, no builder is at work, and every request that appears still belongs to a CPU that had passed its lease check, in state 0 (`Emptied`, `Expiring`). Such a CPU cannot make it past a builder that sees the lease off. The second look comes after a pause that outlasts every hook that was running (`Waited`), so what it finds empty stays so. |
| `UdpFlow_proof` | `TypeCorrect`, `EarlyBatches`, `NothingReflected`, `EstimatesAreCurrent` | The last three assume `~Recycle`. A key is filed once (`FiledOnce`), a CPU in the critical section points at the element of its packet's key (`Pointing`, `Owning`), and that element agrees with the history of the flow (`Agreeing`). |
| `TcpFlow_proof` | `TypeCorrect`, `QuotaIsKept`, `BatchesSpaced`, `OverIsOver`, `ShapesAgree`, `PeersAreKnown` | All but the first assume `~Recycle`. `AtWork` ties a CPU's pointer to its step; `FiledOnce` and `Owning` are as for UDP. `Agreeing` relates the flow to its handshake: the rule and the TTL of a peer that opened the connection whatever the readings (`Known`), every field while they come in order (`Exact`); one lemma for each of the three ways a packet changes both. The quota then follows from the type of `batches`. |
| `Publication_proof` | `TypeCorrect`, `ServesRequests`, `NeverMixes`, `PublishesWhole`, `HasRoom` | `MapInv` says what the maps hold generation by generation at every step of `publish()`: nothing above the one being written, whole ones for the two latest, keys of the present one exactly where they have been written. `Reading` and `Asking` tie what a CPU holds to it. `HasRoom` counts keys: three generations at most. |
| `Interfaces_proof` | `TypeCorrect`, `ForeignFiltersStay` | `TypeInv` adds that a daemon that runs has a number, that a WAN `refresh()` attaches has an ifindex, and what `ff_detach()` works for at which step (`Called`). `Kept` ties filters to devices, births to devices and, between query and detachment, the target to a filter of its id (`Aimed`): what is removed is the daemons', unless the device is another one by then. |
| | `LeavingsAccounted`, `RecoveryCleans` | `AccountInv` says where everything that is not in `lost` or `strays` is, step by step: in the file between two daemons (`LeftOver`), among the records still to be detached in the recovery (`ToDo`), in the table from then on (`InTheTable`), nothing before the route socket is open (`NothingYet`), nothing at the end (`NothingLeft`); and the table in the file except where a step has just changed it (`InTheFile`), which is where a kill adds to `lost` or `strays`. |
| | `EnabledAreHooked` | `HookInv`, for kills at any step. An ifindex is `Doubtful` while an event for it, or an overflow, is unread. What is not in doubt is true of the device: the recorded ifindex (`Known`), the one `refresh()` is busy with (`Busy`), the link, the filter and the generation, as far as `attach_one()` has come (`Attached`); what is being detached belongs to no recorded ifindex any more (`Retired`); and the map has entries of recorded WANs only (`Entered`). |
| `LuciPlugin_proof` | `TypeCorrect`, `OneRequestAtATime`, `EveryLockAnswered` | `LockInv`, as long as no takeover was mistaken: one request is inside (`Alone`); its lock is there and, once written, names it (`Owned`); a request whose view of the lock is still true knows the owner, so that a dead owner means that nobody is inside (`Asking`); and a lock has somebody who answers for it (`Answered`). Several requests may be in the middle of a takeover at once; the first to change the lock spoils the view of the others, so that what these remove next is a mistake or nothing. |
| | `SavesLoseNothing` | `UpdateInv`: a page that is not torn shows the file of its revision (`Shown`), and from the check to the rename the files are those of that revision (`Current`), unless a terminal has touched the request; the other requests are outside by `LockInv`. |
| | `UnsavedChangeNothing` | `SaveInv` follows a save through its steps: nothing changed, the switch changed and its old value kept, both changed (`Unchanged`), with the failure that leaves the switch as it is on record. |
| `Inputs_proof` | `NothingOutsideIsRead` | The guards of `parse()` chained: headers end before the packet, the packet before its PPPoE envelope and its frame (`ParsedFits`); `Accepted` and `InOrder` say that what is looked at passed them. |
| | `RewritesWholly` | `Rewriting` says what the options and the checksum cover at each step of `options()`. |
| | `SidesAgree` | `Moved`: the answer to a frame, with its tags elsewhere, is the frame with its ends exchanged and everything behind the tags shifted by the same number of bytes. Every offset of `parse()` shifts with it (`MovedParses`), and the key holds the tags and not their place (`MovedKeys`). |
| | `ReadsAsWritten` | `ReadSoFar` reads the lines so far as a whole: what the reader remembers is what they say (`Remembered`), and they are fit so far (`Headed`, `Settled`), or the verdict is "malformed" and they are not (`Fits`). A line keeps its id while the file grows, because the number of its block, the rank of its header (`Rank`), only depends on what stands before; ids differ exactly if header or key do (`SameId`). The rotation follows because ranks carry the order of the headers over to the rules (`RanksCarryOver`). |
| | `AsksOnlyForPublished` | The rule map names enabled rules only (`EnabledAreRules`), there are at most `MaxRules`, and what is rendered for a rule is what the mask of its variants allows (`PicksOfRendered`). |
| | `ScansAsRead` | Options do not overlap (`OptionsApart`), so the scan, which sees only bytes, knows at each one whether it is a head. `ScannedTo` says what has been decided up to a byte, and what the rest of the present option will become; `Scanning` keeps the outcome through the steps of `options()`. |
| | `DecoysFallShort` | `DecoyNearer`: whatever the percentage and the floor, the estimate is refused unless it is below the distance. The distance is that to the lowest usual initial value the TTL fits under, so it holds for the others. |

`HasRoom` needs `CapacityAssumption`, room for three generations, which
`maps.h` reserves. The theorems about Interfaces and LuciPlugin have no
hypothesis: their modules leave every window open, and where the code does not
keep what its documentation says, the property names the exception (`lost`,
`strays`, `Reused`; `mistaken`, `touched`, `torn`, `failed`), and section 6 or 7
describes it. `Recycle` and the order of readings are the conditions that are
left, on the flow tables and the bucket; both are in section 7. `Inputs_proof`
needs `InputsAssumption` and `ConfigFileAssumption`, the types of frames and
files: lengths and offsets are integers, the IP version is 4 or 6, a TTL is a
byte, options are bytes, a file is a sequence of lines; limits are positive.
`IdlingEarns` uses that a batch is no larger than the burst, which
`config.c:208` checks. The others need only the typing of the constants.

Two of these theorems are about what a walk over a sequence comes to, of lines
(`ReadsAsWritten`) and of bytes (`ScansAsRead`). They need no induction theorem:
`ReadSoFar` is an invariant of the reader's steps, and for the scan `Upwards` and
`Recursion` say, of sets and of functions, that what holds at 0 and is handed on
holds to the end. No module uses a RECURSIVE operator.

Left to TLC: liveness (`Drains`, `Rehooked`), whose fairness is
out of the prover's reach; and `NoOrphan`, `QuotaHolds` and `OldPageRefused`, which do not hold of the code
(section 6). Every safety property of a passing run, invariant or action
property, is stated by a theorem.

## 6. Findings

Each has a run in which TLC finds the violation.

* **A TCP quota is given back** (`tcp_stale_reading`, `tcp.h:111`).
  `now-f->seen` subtracts readings taken before the lock. If another CPU has
  stored a newer one, the difference wraps, looks like more than 30 s of
  silence, and a retransmitted SYN opens a new generation. The specification
  (`docs/ebpf-implementation-spec.md:128`) rules that out.
* **A request is never reclaimed** (`injection_orphan`, `observer.bpf.c:95`).
  When the interface is forgotten between the build and `ff_egress`, the clone
  is dropped and its request stays; the producer left it to the consumer. The
  comment at `observer.bpf.c:84` says the consumer spends it. Each such event
  costs one of 256 entries until the daemon ends.
* **Two saves at once** (`luci_takeover`, `rpcd/fakeflow:38`). A request
  reads the owner's pid, the owner finishes, a second request takes the free
  lock, and the first one, told by `kill -0` that the pid it read is dead,
  removes that lock and takes it itself. Both then save, and the later rename
  overwrites an edit its page has never seen. `packaging/luci/INSTALL.md:34`
  says that the old page refuses. No request has to die for it.

## 7. Seen and not run

* A connection keeps its rule across a reload that removes the rule
  (`tcp.h:136`) and asks for that plan, variant 0, in the new generation
  (`observer.bpf.c:45`), whose template `publish()` never wrote. The comment at
  `lifecycle.c:180` says that the observer cannot pick such a key. The build
  fails, no decoy leaves, and the budget is charged for the rest of the
  connection. `RequestsAreServed` is therefore about the plans a
  configuration defines.
* A daemon killed between `ff_attach()` and `save_state()`
  (`lifecycle.c:100-102`) leaves a filter that no record names; the next one
  takes it for somebody else's and refuses to start, although
  `docs/validation.md:18` has filters recovered after SIGKILL. The same holds
  for the dummy device between `:388` and `:392`. The kill is modelled;
  `Accounted` and `StartsClean` except what it leaves (`lost`, `strays`).
* A filter that cannot be queried or detached, and a private device that cannot
  be deleted, are given up: `forget_index()` drops the record whatever
  `ff_detach()` did (`lifecycle.c:112`), the recovery and the label `out` go on
  (`:82`, `:448`), the result of `ip link delete` is ignored (`:90`, `:450`), and
  the file that named them is rewritten or removed (`:115`, `:392`, `:454`). They
  are in `lost` and `strays` too. A write of the file that fails in
  `forget_index()` is ignored (`:115`) but leaves a record too many, not one too
  few.
* `ff_detach()` compares the program id that `bpf_tc_query()` returned and then
  detaches by ifindex, priority and handle (`attach.c:46-48`). If the device is
  deleted in between and another one gets its ifindex and a filter of
  somebody else at priority 1, that filter is removed. `ForeignStays` excepts
  this (`Reused`). That somebody removes or replaces the daemon's own filter
  while its device stays is not modelled.
* The token bucket, the UDP window and TCP's spacing (`tcp.h:133`) subtract
  readings in the same way as TCP's silence. `BudgetHoldsInOrder`,
  `BatchesAreEarly` and `BatchesAreSpaced` are stated for buckets and flows whose
  readings came in order, and each fails without that condition.
* When the lease lapses during `build()`, the request is dropped in state 1
  and not counted anywhere, if this outage was already reported
  (`builder.bpf.c:178`; `observer.bpf.c:75` says it was counted).
* An LRU element may be recycled under a CPU that points at it
  (`udp.h:11`, `tcp.h:106`): the lock is the old key's and the state another
  flow's. With `Recycle = TRUE`, `NoReflection` fails; the results of
  UdpFlow and TcpFlow hold for elements that are not recycled that way.
* With one direction configured, a SYN of the other direction returns at
  `tcp.h:96`, before the check for a simultaneous open at `tcp.h:114`, which
  the specification (line 121) excludes from injection.
* Between the reuse of an ifindex and the processing of its RTM_DELLINK the old
  entry in `interfaces` applies to the new device; `EnabledMeansHooked`
  therefore excepts an ifindex with an unread event.
* A request that is killed between `mkdir` and the write of its pid, between the
  two commands of its cleanup, or between those of a takeover, leaves a lock
  without an owner, which every later request takes for a running one
  (`rpcd/fakeflow:37`). `LocksAreAnswered` says that nothing else does.
* A lock that names a killed owner is taken over only while no process of the
  router has that pid: `kill -0` (`rpcd/fakeflow:38`) answers for any. If the pid
  is given to a process that stays, the lock stays, and every request is
  answered "busy". No property promises that the lock comes free.
* From a mistaken takeover (section 6) on, `OneAtATime`, `NoLostUpdate`,
  `UnsavedChangesNothing` and `LocksAreAnswered` claim nothing, until no request
  runs and no lock is left.
* A terminal may edit the files between a save's revision check and its rename
  (`rpcd/fakeflow:149-158`); its edit is overwritten, though the manual has the
  old page refused (`INSTALL.md:34`). It may also edit them between the two reads
  of `get` (`:113-114`), or while a save that was made restarts the service
  before it answers (`:166`): the page then shows one configuration and holds
  the revision of the other, and its next save overwrites the second unseen.
  `NoLostUpdate` excepts just these requests and pages (`touched`, `torn`).
* If `uci commit` fails after `uci set`, the reply says that the switch was
  not saved, but it stays set and is read as such (`rpcd/fakeflow:157`). If the
  file cannot be replaced and the switch cannot be put back either, nobody
  looks (`:159`). `UnsavedChangesNothing` is about the file in these two cases.
* `docs/validation.md:95` says that reloads that come too fast exhaust the staged
  generations and return an error. `publish()` has since come to reap the older
  ones itself before it writes (`lifecycle.c:165`), and `NeverFull` holds however
  fast they come: the sentence is stale.
* The comment at `maps.h:42` has "4 * 128 = 384" entries at the peak. It is
  3 * 128 = 384, for the previous, the active and the next generation.
* The flow key holds the whole VLAN tag (`parse.h:25`, `:29`), its priority bits
  too. An answer with another priority than the request misses the flow.
  `KeysAgree` takes a tag as one value.
* `parse()` counts a VLAN tag against its 4096 bytes when it is in the frame and
  not when it is in metadata (`parse.h:19`, `:25`). Of a frame that just fits, the
  answer may be too long; `KeysAgree` excepts it.
* The sample configuration in `docs/ebpf-implementation-spec.md`, section 12,
  has `tfo` and `max_batches` behind `[[tcp.rule]]`. They belong to `[tcp]`, and
  `config.c` refuses the file.
* An unknown value of the retired `tcp.payload` is read as `http`
  (`config.c:222`), where every other unknown word is refused.
* The control socket's timeout is per `read()` (`lifecycle.c:422-426`). A client
  that sends its command byte by byte holds the loop up, and with it the lease.

## 8. Not modelled

| Part | Why |
|---|---|
| `build()`'s headers, payload, checksums | byte layout; the models keep success or failure |
| bytes: `templates.c`'s TLS, HTTP and SIP text, `config.c`'s quoting, comments and digits, the prefixes behind the address classes of `remote_allowed()` | layout; ConfigFile and Parser keep what is decided by it |
| the control socket, log and statistics | I/O; the effect of `reload` and `stop` is in Publication, Injection and Interfaces |
| the daemon's loop as a timed whole | refresh, lease, reaper and reload are in the modules that they act on; what is left is how long a client may hold the loop up |
| TUN device, link modes, MTU | alternative spellings of the same steps |
| LuCI page | a form; its retry repeats requests that were answered "busy", which `Request` allows |
| packaging, release scripts, CI | not part of the running program |

## 9. Plan

1. *Core datapath* (done): TokenBucket, Injection with FakeDelivery, UdpFlow,
   TcpFlow.
2. *Daemon and page* (done): Publication, Interfaces, LuciPlugin, Shutdown.
3. *What comes in* (done): ConfigFile, Parser, OptionScan, HopEstimate, Inputs.
4. *Proofs* (done): the safety properties of every component.
5. *No window closed* (done for Interfaces and LuciPlugin): failures and races
   are steps of the model, exceptions are named in the properties. `Recycle` in
   FlowTable is the one window that is still switched off.
6. *Abstract specifications*: a handshake with a quota, which TcpFlow
   implements with readings in order; an atomic register of configurations,
   which Publication implements for requests of the two latest generations.
