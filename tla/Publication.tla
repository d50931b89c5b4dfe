---------------------------- MODULE Publication ----------------------------
(***************************************************************************)
(* How a configuration reaches the datapath: publish(), reap_configs() and *)
(* reload() in ebpf/user/lifecycle.c, configuration() in maps.h, and the   *)
(* template key that emit() asks for and build() looks up.                 *)
(*                                                                         *)
(* The daemon writes the templates and the configuration of a new          *)
(* generation key by key and then switches active_config.  The CPUs run    *)
(* all the time: an observer holds the configuration it looked up, a       *)
(* connection the rule it was given under an earlier one.  The key space   *)
(* of a generation is fixed, so that the reaper can clear it unseen.       *)
(***************************************************************************)
EXTENDS Integers, FiniteSets

CONSTANTS
    Cpus,              \* the CPUs that run the observer
    Flows,             \* TCP connections
    RuleCount,         \* FF_TCP_RULES_MAX
    Variants,          \* FF_TEMPLATE_VARIANTS
    Options,           \* what reloads read: enabled rules, plans with variants, bytes
    NoOptions,
    TemplateEntries,   \* max_entries of templates
    ConfigEntries,     \* max_entries of configs
    MaxGen             \* 0xffffffff/span, and the bound of this model on reloads

Rules == 0 .. RuleCount - 1
Udp == RuleCount                       \* FF_TEMPLATE_PLAN_UDP
Plans == 0 .. RuleCount
Gens == 0 .. MaxGen                    \* 0: nothing published yet
NoRule == RuleCount                    \* a connection without a flow

ASSUME PublicationAssumption ==
    /\ RuleCount \in Nat \ {0}
    /\ Variants \in Nat \ {0}
    /\ Options \subseteq [rules : (SUBSET Rules) \ {{}}, many : SUBSET Plans, bytes : Nat]
    /\ NoOptions \notin Options
    /\ TemplateEntries \in Nat
    /\ ConfigEntries \in Nat
    /\ MaxGen \in Nat

\* 448 and 16 entries: three generations fit (maps.h:36-44).
ASSUME CapacityAssumption ==
    /\ TemplateEntries >= 3 * ((RuleCount + 1) * Variants)
    /\ ConfigEntries >= 3

VARIABLES
    configGen,   \* runtime.config_gen
    step,        \* the step of publish(), "serve" outside of it
    next,        \* the options being published
    left,        \* the keys of this publication still to be written
    templates,   \* the map templates, per generation and key: whose bytes
    configs,     \* the map configs
    active,      \* the map active_config
    pc,          \* per CPU: the step of the observer and the builder
    seen,        \* per CPU: the generation and the configuration looked up
    asked,       \* per CPU: the plan and the variant in the request
    rule         \* per connection: ff_flow.rule

daemon == <<configGen, step, next, left>>
maps == <<templates, configs, active>>
cpus == <<pc, seen, asked>>
vars == <<daemon, maps, cpus, rule>>

Keys == Plans \X (0 .. Variants - 1)

Blank == [k \in Keys |-> NoOptions]
Nothing == [gen |-> 0, options |-> NoOptions]

TypeOK ==
    /\ configGen \in Gens
    /\ step \in {"serve", "insert", "rollback", "config", "activate"}
    /\ next \in Options \cup {NoOptions}
    /\ left \subseteq Keys
    /\ templates \in [Gens -> [Keys -> Options \cup {NoOptions}]]
    /\ configs \in [Gens -> Options \cup {NoOptions}]
    /\ active \in Gens
    /\ pc \in [Cpus -> {"idle", "trigger", "build"}]
    /\ seen \in [Cpus -> [gen : Gens, options : Options \cup {NoOptions}]]
    /\ asked \in [Cpus -> Keys]
    /\ rule \in [Flows -> Plans]

Init ==
    /\ configGen = 0
    /\ step = "serve"
    /\ next = NoOptions
    /\ left = {}
    /\ templates = [g \in Gens |-> Blank]
    /\ configs = [g \in Gens |-> NoOptions]
    /\ active = 0
    /\ pc = [p \in Cpus |-> "idle"]
    /\ seen = [p \in Cpus |-> Nothing]
    /\ asked = [p \in Cpus |-> <<0, 0>>]
    /\ rule = [f \in Flows |-> NoRule]

----------------------------------------------------------------------------
\* A plan the options do not define has no template and no variants.
PlansOf(o) == o.rules \cup {Udp}
VariantsOf(o, plan) == IF plan \notin PlansOf(o) THEN 0
                       ELSE IF plan \in o.many THEN Variants ELSE 1

\* The keys publish() writes.
KeysOf(o) == {k \in Keys : k[2] < VariantsOf(o, k[1])}

\* The variants of a plan the observer picks from: an absent one counts as one.
Picks(o, plan) == IF VariantsOf(o, plan) = 0 THEN {0} ELSE 0 .. VariantsOf(o, plan) - 1

\* The order of the two loops of publish().
IsFirst(k, keys) == \A other \in keys :
                       k[1] < other[1] \/ (k[1] = other[1] /\ k[2] <= other[2])

Written == {gk \in Gens \X Keys : templates[gk[1]][gk[2]] # NoOptions}
Configured == {g \in Gens : configs[g] # NoOptions}

TemplatesFull == Cardinality(Written) >= TemplateEntries
ConfigsFull == Cardinality(Configured) >= ConfigEntries

\* Mutants: the reaper keeps one generation less, or one more.
OldPrevious(g) == configs[g] # NoOptions /\ g < configGen
OldLate(g) == configs[g] # NoOptions /\ g + 2 < configGen

\* reap_configs() retains the current and the previous generation.
Old(g) == configs[g] # NoOptions /\ g + 1 < configGen

Reaped ==
    /\ templates' = [g \in Gens |-> IF Old(g) THEN Blank ELSE templates[g]]
    /\ configs' = [g \in Gens |-> IF Old(g) THEN NoOptions ELSE configs[g]]

\* A mutant that uses two generation numbers in turn.
InTurn(g) == 2 - (g % 2)

Successor(g) == g + 1

Gen == Successor(configGen)

----------------------------------------------------------------------------
(* The daemon.                                                             *)

\* reload() with options that were read and fit the layout, up to the loops.
Publish(o) ==
    /\ step = "serve" /\ configGen < MaxGen
    /\ Reaped
    /\ next' = o
    /\ left' = KeysOf(o)
    /\ step' = "insert"
    /\ UNCHANGED <<configGen, active, cpus, rule>>

\* ff_variants() fails after the reaper has run; or the idle loop runs it.
Reap ==
    /\ step = "serve" /\ \E g \in Gens : Old(g)
    /\ Reaped
    /\ UNCHANGED <<daemon, active, cpus, rule>>

\* One bpf_map_update_elem(BPF_NOEXIST).
Insert(k) ==
    /\ step = "insert" /\ k \in left /\ IsFirst(k, left)
    /\ ~TemplatesFull /\ templates[Gen][k] = NoOptions
    /\ templates' = [templates EXCEPT ![Gen][k] = next]
    /\ left' = left \ {k}
    /\ UNCHANGED <<configGen, step, next, configs, active, cpus, rule>>

\* The loops are done.
Inserted ==
    /\ step = "insert" /\ left = {}
    /\ step' = "config"
    /\ UNCHANGED <<configGen, next, left, maps, cpus, rule>>

Configure ==
    /\ step = "config"
    /\ ~ConfigsFull /\ configs[Gen] = NoOptions
    /\ configs' = [configs EXCEPT ![Gen] = next]
    /\ step' = "activate"
    /\ UNCHANGED <<configGen, next, left, templates, active, cpus, rule>>

\* The map is full, the key exists, or the kernel refuses the update.
UpdateFails ==
    /\ step \in {"insert", "config", "activate"}
    /\ step = "insert" => left # {}
    /\ step' = "rollback"
    /\ UNCHANGED <<configGen, next, left, maps, cpus, rule>>

\* A mutant that forgets the templates.
KeepsTemplates(g) == UNCHANGED templates

Cleared(g) == templates' = [templates EXCEPT ![g] = Blank]

\* The label rollback.
Rollback ==
    /\ step = "rollback"
    /\ Cleared(Gen)
    /\ configs' = [configs EXCEPT ![Gen] = NoOptions]
    /\ step' = "serve"
    /\ next' = NoOptions
    /\ left' = {}
    /\ UNCHANGED <<configGen, active, cpus, rule>>

Activate ==
    /\ step = "activate"
    /\ active' = Gen
    /\ configGen' = Gen
    /\ step' = "serve"
    /\ next' = NoOptions
    /\ UNCHANGED <<left, templates, configs, cpus, rule>>

----------------------------------------------------------------------------
(* The datapath.                                                           *)

\* configuration().
Observe(p) ==
    /\ pc[p] = "idle"
    /\ configs[active] # NoOptions
    /\ seen' = [seen EXCEPT ![p] = [gen |-> active, options |-> configs[active]]]
    /\ pc' = [pc EXCEPT ![p] = "trigger"]
    /\ UNCHANGED <<daemon, maps, asked, rule>>

\* emit() puts the plan and one of its variants in the request.
Ask(p, plan) ==
    /\ \E v \in Picks(seen[p].options, plan) : asked' = [asked EXCEPT ![p] = <<plan, v>>]
    /\ pc' = [pc EXCEPT ![p] = "build"]
    /\ UNCHANGED <<daemon, maps, seen>>

TriggerUdp(p) ==
    /\ pc[p] = "trigger"
    /\ Ask(p, Udp)
    /\ UNCHANGED rule

\* The connection gets one of the rules in rule_map when its flow is created.
TriggerNew(p, f) ==
    /\ pc[p] = "trigger" /\ rule[f] = NoRule
    /\ \E r \in seen[p].options.rules : /\ rule' = [rule EXCEPT ![f] = r]
                                        /\ Ask(p, r)

\* It keeps the rule for its lifetime.
TriggerKnown(p, f) ==
    /\ pc[p] = "trigger" /\ rule[f] # NoRule
    /\ Ask(p, rule[f])
    /\ UNCHANGED rule

\* The flow leaves the LRU map.
Evict(f) ==
    /\ rule[f] # NoRule
    /\ rule' = [rule EXCEPT ![f] = NoRule]
    /\ UNCHANGED <<daemon, maps, cpus>>

\* build() looks the template up; without it the fake is dropped.
Build(p) ==
    /\ pc[p] = "build"
    /\ pc' = [pc EXCEPT ![p] = "idle"]
    /\ seen' = [seen EXCEPT ![p] = Nothing]
    /\ asked' = [asked EXCEPT ![p] = <<0, 0>>]
    /\ UNCHANGED <<daemon, maps, rule>>

----------------------------------------------------------------------------
Daemon ==
    \/ \E o \in Options : Publish(o)
    \/ \E k \in left : Insert(k)
    \/ Reap \/ Inserted \/ Configure \/ UpdateFails \/ Rollback \/ Activate

Datapath(p) ==
    \/ Observe(p) \/ TriggerUdp(p) \/ Build(p)
    \/ \E f \in Flows : TriggerNew(p, f) \/ TriggerKnown(p, f)

Next ==
    \/ Daemon
    \/ \E p \in Cpus : Datapath(p)
    \/ \E f \in Flows : Evict(f)

Spec == Init /\ [][Next]_vars

----------------------------------------------------------------------------
Template(p) == templates[seen[p].gen][asked[p]]

\* The template a request of the active or the previous generation asks for is
\* there, whatever the reaper, failed publications and further reloads do, for
\* a plan its configuration defines (lifecycle.c:161-164).
RequestsAreServed ==
    \A p \in Cpus :
        pc[p] = "build" /\ seen[p].gen + 1 >= active /\ asked[p][1] \in PlansOf(seen[p].options)
        => Template(p) = seen[p].options

\* A request, however old, is never built with the bytes of another
\* configuration than the one its observer looked up
\* (docs/ebpf-implementation-spec.md:374).
NoMixedBytes == \A p \in Cpus : pc[p] = "build" => Template(p) \in {NoOptions, seen[p].options}

\* A publication that failed leaves nothing of its generation in the maps, and
\* one that succeeded is complete (lifecycle.c:167-168, 195-198).
PublishedOrAbsent ==
    step = "serve" =>
        /\ \A g \in Gens : g > active => configs[g] = NoOptions /\ templates[g] = Blank
        /\ active > 0 => /\ configs[active] # NoOptions
                         /\ \A k \in KeysOf(configs[active]) : templates[active][k] = configs[active]

\* Neither map is ever full when publish() inserts, however fast the reloads
\* come (maps.h:39-43, lifecycle.c:160-162).
NeverFull ==
    /\ step = "insert" /\ left # {} => ~TemplatesFull
    /\ step = "config" => ~ConfigsFull
=============================================================================
