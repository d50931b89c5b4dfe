------------------------- MODULE Publication_proof -------------------------
(***************************************************************************)
(* Proofs about Publication, for any number of CPUs, connections, rules,   *)
(* variants and reloads.                                                   *)
(***************************************************************************)
EXTENDS Publication, FiniteSetTheorems, TLAPS

USE PublicationAssumption

\* Outside of a publication the two generation counters agree.
Counted == configGen = active

\* A publication has options to write and a generation to write them under.
Publishing == step # "serve" => configGen < MaxGen /\ next \in Options

\* The templates of a generation are those of its options, all of them.
Complete(g, o) == \A k \in Keys : templates[g][k] = IF k \in KeysOf(o) THEN o ELSE NoOptions

\* What is in the maps up to the active generation, and beyond it.
Below == \A g \in Gens : g <= active =>
            /\ configs[g] # NoOptions => Complete(g, configs[g])
            /\ configs[g] = NoOptions => templates[g] = Blank
Recent == \A g \in Gens : g > 0 /\ g <= active /\ active <= g + 1 => configs[g] # NoOptions
Above == \A g \in Gens : g > active /\ (step = "serve" \/ g # active + 1) =>
            /\ configs[g] = NoOptions
            /\ templates[g] = Blank

\* Nothing is published under generation 0, and a publication has the maps to
\* itself and the two generations the reaper retains.
Bottom == configs[0] = NoOptions
Retained == step # "serve" => \A g \in Gens : configs[g] # NoOptions => g + 1 >= active

\* The generation being written.
Written1(k) == IF k \in KeysOf(next) /\ k \notin left THEN next ELSE NoOptions
Writing ==
    /\ step \in {"insert", "config", "activate"} =>
           \A k \in Keys : templates[active + 1][k] = Written1(k)
    /\ step \in {"insert", "config"} => configs[active + 1] = NoOptions
    /\ step = "activate" => configs[active + 1] = next
    /\ step \notin {"insert", "rollback"} => left = {}
    /\ step = "insert" => left \subseteq KeysOf(next)

\* What a CPU holds was published, and is still what the map has if it has any.
Holding(s) == /\ s.gen \in 1 .. active
              /\ s.options \in Options
              /\ configs[s.gen] \in {NoOptions, s.options}
Reading == \A p \in Cpus : pc[p] # "idle" => Holding(seen[p])
Asking == \A p \in Cpus : pc[p] = "build" /\ asked[p][1] \in PlansOf(seen[p].options)
                          => asked[p] \in KeysOf(seen[p].options)

MapInv == Counted /\ Publishing /\ Below /\ Recent /\ Above /\ Bottom /\ Retained /\ Writing
Inv == MapInv /\ Reading /\ Asking

----------------------------------------------------------------------------
(* Keys, picks and the reaper.                                             *)

LEMMA KeyTypes ==
    /\ <<0, 0>> \in Keys
    /\ Udp \in Plans
    /\ Rules \subseteq Plans
    /\ NoRule \in Plans
    /\ NoRule \notin Rules
    /\ 0 \in Gens
  BY DEF Keys, Plans, Rules, Udp, NoRule, Gens

LEMMA OptionFields == ASSUME NEW o \in Options PROVE o.rules \subseteq Rules
  OBVIOUS

LEMMA PickTypes ==
    ASSUME NEW o \in Options, NEW plan \in Plans, NEW v \in Picks(o, plan)
    PROVE  /\ <<plan, v>> \in Keys
           /\ plan \in PlansOf(o) => <<plan, v>> \in KeysOf(o)
  <1>1. VariantsOf(o, plan) \in {0, 1, Variants}
    BY Zenon DEF VariantsOf
  <1>2. plan \in PlansOf(o) => VariantsOf(o, plan) # 0
    BY DEF VariantsOf
  <1>3. v \in 0 .. Variants - 1
    BY <1>1 DEF Picks
  <1>4. VariantsOf(o, plan) # 0 => v < VariantsOf(o, plan)
    BY <1>1 DEF Picks
  <1>5. <<plan, v>> \in Keys
    BY <1>3, Zenon DEF Keys
  <1> QED BY <1>2, <1>4, <1>5 DEF KeysOf

\* The order of the keys is total and well-founded on a finite set of them:
\* First(keys) is one of them.
LEMMA BlankType == Blank \in [Keys -> Options \cup {NoOptions}]
  BY DEF Blank

LEMMA ReapedTypes ==
    ASSUME TypeOK, Reaped
    PROVE  /\ templates' \in [Gens -> [Keys -> Options \cup {NoOptions}]]
           /\ configs' \in [Gens -> Options \cup {NoOptions}]
  BY BlankType, Zenon DEF TypeOK, Reaped

LEMMA ReapedValues ==
    ASSUME Reaped, NEW g \in Gens
    PROVE  /\ Old(g) => configs'[g] = NoOptions /\ templates'[g] = Blank
           /\ ~Old(g) => configs'[g] = configs[g] /\ templates'[g] = templates[g]
  BY Zenon DEF Reaped

----------------------------------------------------------------------------
(* Type correctness.                                                       *)

LEMMA GenType == ASSUME TypeOK, configGen < MaxGen PROVE Gen \in Gens
  BY DEF TypeOK, Gens, Gen, Successor

LEMMA AskTypes ==
    ASSUME TypeOK, NEW p \in Cpus, NEW plan \in Plans, seen[p].options \in Options, Ask(p, plan)
    PROVE  asked' \in [Cpus -> Keys] /\ pc' \in [Cpus -> {"idle", "trigger", "build"}]
  <1>1. PICK v \in Picks(seen[p].options, plan) : asked' = [asked EXCEPT ![p] = <<plan, v>>]
    BY Zenon DEF Ask
  <1>2. <<plan, v>> \in Keys
    BY PickTypes
  <1>3. asked' \in [Cpus -> Keys]
    BY <1>1, <1>2, Zenon DEF TypeOK
  <1>4. pc' \in [Cpus -> {"idle", "trigger", "build"}]
    BY DEF Ask, TypeOK
  <1> QED BY <1>3, <1>4

LEMMA DaemonTypes ==
    ASSUME TypeOK, Inv, Daemon PROVE TypeOK'
  <1>1. ASSUME NEW o \in Options, Publish(o) PROVE TypeOK'
    <2>1. KeysOf(o) \subseteq Keys
      BY DEF KeysOf
    <2>2. left' \subseteq Keys /\ next' \in Options \cup {NoOptions} /\ step' = "insert"
      BY <1>1, <2>1, Zenon DEF Publish
    <2>3. Reaped
      BY <1>1 DEF Publish
    <2> QED BY <1>1, <2>2, <2>3, ReapedTypes DEF Publish, TypeOK, cpus
  <1>2. CASE Reap
    <2>1. Reaped
      BY <1>2 DEF Reap
    <2> QED BY <1>2, <2>1, ReapedTypes DEF Reap, TypeOK, cpus, daemon
  <1>3. ASSUME NEW k \in left, Insert(k) PROVE TypeOK'
    <2>0. k \in Keys
      BY DEF TypeOK
    <2>1. next \in Options
      BY <1>3 DEF Insert, Inv, MapInv, Publishing
    <2>2. templates' = [templates EXCEPT ![Gen][k] = next] /\ left' = left \ {k}
      BY <1>3 DEF Insert
    <2>3. templates' \in [Gens -> [Keys -> Options \cup {NoOptions}]]
      BY <2>0, <2>1, <2>2 DEF TypeOK
    <2>4. left' \subseteq Keys
      BY <2>2 DEF TypeOK
    <2> QED BY <1>3, <2>3, <2>4 DEF Insert, TypeOK, cpus
  <1>4. CASE Inserted
    BY <1>4 DEF Inserted, TypeOK, cpus, maps
  <1>5. CASE Configure
    <2>1. next \in Options
      BY <1>5 DEF Configure, Inv, MapInv, Publishing
    <2> QED BY <1>5, <2>1 DEF Configure, TypeOK, cpus
  <1>6. CASE UpdateFails
    BY <1>6 DEF UpdateFails, TypeOK, cpus, maps
  <1>7. CASE Rollback
    BY <1>7, BlankType DEF Rollback, Cleared, TypeOK, cpus
  <1>8. CASE Activate
    <2>1. Gen \in Gens
      BY <1>8, GenType DEF Activate, Inv, MapInv, Publishing
    <2> QED BY <1>8, <2>1 DEF Activate, TypeOK, cpus
  <1> QED BY <1>1, <1>2, <1>3, <1>4, <1>5, <1>6, <1>7, <1>8, Zenon DEF Daemon

LEMMA DatapathTypes ==
    ASSUME TypeOK, Inv, NEW p \in Cpus, Datapath(p) PROVE TypeOK'
  <1>1. CASE Observe(p)
    <2>1. [gen |-> active, options |-> configs[active]] \in [gen : Gens, options : Options \cup {NoOptions}]
      BY DEF TypeOK
    <2> QED BY <1>1, <2>1 DEF Observe, TypeOK, daemon, maps
  <1>2. ASSUME pc[p] = "trigger" PROVE seen[p].options \in Options
    BY <1>2, Zenon DEF Inv, Reading, Holding
  <1>3. CASE TriggerUdp(p)
    <2>1. asked' \in [Cpus -> Keys] /\ pc' \in [Cpus -> {"idle", "trigger", "build"}]
      BY <1>2, <1>3, AskTypes, KeyTypes DEF TriggerUdp
    <2> QED BY <1>3, <2>1 DEF TriggerUdp, Ask, TypeOK, daemon, maps
  <1>4. ASSUME NEW f \in Flows, TriggerNew(p, f) PROVE TypeOK'
    <2>1. PICK r \in seen[p].options.rules : rule' = [rule EXCEPT ![f] = r] /\ Ask(p, r)
      BY <1>4, Zenon DEF TriggerNew
    <2>2. seen[p].options \in Options
      BY <1>2, <1>4 DEF TriggerNew
    <2>3. r \in Plans
      BY <2>1, <2>2, OptionFields, KeyTypes
    <2>4. asked' \in [Cpus -> Keys] /\ pc' \in [Cpus -> {"idle", "trigger", "build"}]
      BY <2>1, <2>2, <2>3, AskTypes
    <2> QED BY <2>1, <2>3, <2>4 DEF Ask, TypeOK, daemon, maps
  <1>5. ASSUME NEW f \in Flows, TriggerKnown(p, f) PROVE TypeOK'
    <2>1. rule[f] \in Plans
      BY DEF TypeOK
    <2>2. asked' \in [Cpus -> Keys] /\ pc' \in [Cpus -> {"idle", "trigger", "build"}]
      BY <1>2, <1>5, <2>1, AskTypes DEF TriggerKnown
    <2> QED BY <1>5, <2>2 DEF TriggerKnown, Ask, TypeOK, daemon, maps
  <1>6. CASE Build(p)
    <2>1. Nothing \in [gen : Gens, options : Options \cup {NoOptions}]
      BY KeyTypes DEF Nothing
    <2> QED BY <1>6, <2>1, KeyTypes DEF Build, TypeOK, daemon, maps
  <1> QED BY <1>1, <1>3, <1>4, <1>5, <1>6, Zenon DEF Datapath

----------------------------------------------------------------------------
(* The invariant.                                                          *)

LEMMA InitInv == Init => TypeOK /\ Inv
  <1> SUFFICES ASSUME Init PROVE TypeOK /\ Inv
    OBVIOUS
  <1>1. TypeOK
    <2>1. Nothing \in [gen : Gens, options : Options \cup {NoOptions}]
      BY KeyTypes DEF Nothing
    <2> QED BY <2>1, KeyTypes, BlankType DEF Init, TypeOK
  <1>2. Counted /\ Publishing /\ Retained /\ Bottom /\ Writing
    BY KeyTypes DEF Init, Counted, Publishing, Retained, Bottom, Writing
  <1>3. Below /\ Recent /\ Above
    BY DEF Init, Below, Recent, Above, Gens
  <1>4. Reading /\ Asking
    BY DEF Init, Reading, Asking
  <1> QED BY <1>1, <1>2, <1>3, <1>4 DEF Inv, MapInv

\* The maps may forget what a CPU holds, but never replace it.
LEMMA CpusUndisturbed ==
    ASSUME TypeOK, Inv, UNCHANGED cpus, active' \in Gens, active <= active',
           \A g \in Gens : g > 0 /\ g <= active => configs'[g] \in {NoOptions, configs[g]}
    PROVE  Reading' /\ Asking'
  <1>1. Asking'
    BY Zenon DEF cpus, Inv, Asking
  <1>2. ASSUME NEW p \in Cpus, pc'[p] # "idle" PROVE Holding(seen[p])'
    <2>1. seen' = seen /\ Holding(seen[p])
      BY <1>2, Zenon DEF cpus, Inv, Reading
    <2>2. seen[p].gen \in 1 .. active /\ seen[p].options \in Options
      BY <2>1 DEF Holding
    <2>3. seen[p].gen \in Gens /\ seen[p].gen > 0 /\ seen[p].gen <= active
      BY <2>2 DEF TypeOK, Gens
    <2>4. configs'[seen[p].gen] \in {NoOptions, configs[seen[p].gen]}
      BY <2>3, Zenon
    <2>5. configs'[seen[p].gen] \in {NoOptions, seen[p].options}
      BY <2>1, <2>4, Zenon DEF Holding
    <2>6. seen[p].gen \in 1 .. active'
      BY <2>2, <2>3 DEF TypeOK, Gens
    <2> QED BY <2>1, <2>2, <2>5, <2>6 DEF Holding
  <1>3. Reading'
    BY <1>2, Zenon DEF Reading
  <1> QED BY <1>1, <1>3

LEMMA PublishInv == ASSUME TypeOK, Inv, NEW o \in Options, Publish(o) PROVE Inv'
  <1> DEFINE a == active + 1
  <1>1. /\ configGen = active /\ active' = active /\ configGen' = configGen
        /\ step = "serve" /\ step' = "insert" /\ next' = o /\ left' = KeysOf(o)
        /\ configGen < MaxGen /\ Reaped /\ UNCHANGED cpus
    BY Zenon DEF Publish, Inv, MapInv, Counted
  <1>2. \A g \in Gens : Old(g) => g <= active /\ g + 1 < active
    BY <1>1 DEF Old, TypeOK, Gens
  <1>3. \A g \in Gens : g > active => configs'[g] = NoOptions /\ templates'[g] = Blank
    BY <1>1, <1>2, ReapedValues DEF Inv, MapInv, Above, TypeOK, Gens
  <1>4. a \in Gens /\ a > active
    BY <1>1 DEF TypeOK, Gens
  <1>5. Counted' /\ Publishing'
    BY <1>1 DEF Counted, Publishing
  <1>6. Below'
    <2> SUFFICES ASSUME NEW g \in Gens, g <= active
                 PROVE  /\ configs'[g] # NoOptions => Complete(g, configs[g])' /\ configs'[g] = configs[g]
                        /\ configs'[g] = NoOptions => templates'[g] = Blank
      BY <1>1, Zenon DEF Below, Complete
    <2>1. CASE Old(g)
      BY <1>1, <2>1, ReapedValues
    <2>2. CASE ~Old(g)
      <3>1. configs'[g] = configs[g] /\ templates'[g] = templates[g]
        BY <1>1, <2>2, ReapedValues
      <3> QED BY <3>1, Zenon DEF Inv, MapInv, Below, Complete
    <2> QED BY <2>1, <2>2
  <1>7. Recent'
    <2> SUFFICES ASSUME NEW g \in Gens, g > 0, g <= active, active <= g + 1 PROVE configs'[g] # NoOptions
      BY <1>1 DEF Recent
    <2>1. ~Old(g)
      BY <1>2 DEF TypeOK, Gens
    <2> QED BY <1>1, <2>1, ReapedValues DEF Inv, MapInv, Recent
  <1>8. Above'
    BY <1>1, <1>3, Zenon DEF Above
  <1>9. Bottom'
    BY <1>1, ReapedValues, KeyTypes, Zenon DEF Inv, MapInv, Bottom
  <1>10. Retained'
    <2> SUFFICES ASSUME NEW g \in Gens, configs'[g] # NoOptions, ~(g + 1 >= active) PROVE FALSE
      BY <1>1 DEF Retained
    <2>1. Old(g) <=> configs[g] # NoOptions
      BY <1>1 DEF Old, TypeOK, Gens
    <2> QED BY <1>1, <2>1, ReapedValues
  <1>11. Writing'
    <2>1. \A k \in Keys : templates'[a][k] = NoOptions
      BY <1>3, <1>4 DEF Blank
    <2>2. configs'[a] = NoOptions
      BY <1>3, <1>4
    <2>3. \A k \in Keys : Written1(k)' = NoOptions
      BY <1>1, Zenon DEF Written1
    <2> QED BY <1>1, <2>1, <2>2, <2>3, Zenon DEF Writing
  <1>12. Reading' /\ Asking'
    <2>1. \A g \in Gens : configs'[g] \in {NoOptions, configs[g]}
      BY <1>1, ReapedValues, Zenon
    <2>2. active' \in Gens /\ active <= active'
      BY <1>1 DEF TypeOK, Gens
    <2> QED BY <1>1, <2>1, <2>2, CpusUndisturbed
  <1> QED BY <1>5, <1>6, <1>7, <1>8, <1>9, <1>10, <1>11, <1>12 DEF Inv, MapInv

LEMMA ReapInv == ASSUME TypeOK, Inv, Reap PROVE Inv'
  <1>1. /\ configGen = active /\ active' = active /\ configGen' = configGen
        /\ step = "serve" /\ step' = step /\ next' = next /\ left' = left /\ Reaped /\ UNCHANGED cpus
    BY Zenon DEF Reap, Inv, MapInv, Counted, daemon
  <1>2. \A g \in Gens : Old(g) => g <= active /\ g + 1 < active
    BY <1>1 DEF Old, TypeOK, Gens
  <1>3. Above'
    BY <1>1, <1>2, ReapedValues DEF Inv, MapInv, Above, TypeOK, Gens
  <1>4. Counted' /\ Publishing' /\ Retained' /\ Writing'
    BY <1>1 DEF Inv, MapInv, Counted, Publishing, Retained, Writing
  <1>5. Below'
    <2> SUFFICES ASSUME NEW g \in Gens, g <= active
                 PROVE  /\ configs'[g] # NoOptions => Complete(g, configs[g])' /\ configs'[g] = configs[g]
                        /\ configs'[g] = NoOptions => templates'[g] = Blank
      BY <1>1, Zenon DEF Below, Complete
    <2>1. CASE Old(g)
      BY <1>1, <2>1, ReapedValues
    <2>2. CASE ~Old(g)
      <3>1. configs'[g] = configs[g] /\ templates'[g] = templates[g]
        BY <1>1, <2>2, ReapedValues
      <3> QED BY <3>1, Zenon DEF Inv, MapInv, Below, Complete
    <2> QED BY <2>1, <2>2
  <1>6. Recent'
    <2> SUFFICES ASSUME NEW g \in Gens, g > 0, g <= active, active <= g + 1 PROVE configs'[g] # NoOptions
      BY <1>1 DEF Recent
    <2>1. ~Old(g)
      BY <1>2 DEF TypeOK, Gens
    <2> QED BY <1>1, <2>1, ReapedValues DEF Inv, MapInv, Recent
  <1>7. Bottom'
    BY <1>1, ReapedValues, KeyTypes, Zenon DEF Inv, MapInv, Bottom
  <1>8. Reading' /\ Asking'
    <2>1. \A g \in Gens : configs'[g] \in {NoOptions, configs[g]}
      BY <1>1, ReapedValues, Zenon
    <2>2. active' \in Gens /\ active <= active'
      BY <1>1 DEF TypeOK, Gens
    <2> QED BY <1>1, <2>1, <2>2, CpusUndisturbed
  <1> QED BY <1>3, <1>4, <1>5, <1>6, <1>7, <1>8 DEF Inv, MapInv

\* While a generation is being written, the ones below and above it rest.
LEMMA OthersRest ==
    ASSUME TypeOK, Inv, step \in {"insert", "config", "activate", "rollback"}, configGen' = configGen, active' = active,
           \A g \in Gens : g # active + 1 => configs'[g] = configs[g] /\ templates'[g] = templates[g]
    PROVE  /\ Below' /\ Recent' /\ Bottom'
           /\ \A g \in Gens : g > active /\ g # active + 1 => configs'[g] = NoOptions /\ templates'[g] = Blank
           /\ \A g \in Gens : configs'[g] # NoOptions => g + 1 >= active
  <1>0. \A g \in Gens : g <= active => g # active + 1
    BY DEF TypeOK, Gens
  <1>1. \A g \in Gens : g <= active => configs'[g] = configs[g] /\ templates'[g] = templates[g]
    BY <1>0, Zenon
  <1>2. Below'
    <2> SUFFICES ASSUME NEW g \in Gens, g <= active
                 PROVE  /\ configs'[g] # NoOptions => Complete(g, configs[g])' /\ configs'[g] = configs[g]
                        /\ configs'[g] = NoOptions => templates'[g] = Blank
      BY Zenon DEF Below, Complete
    <2> QED BY <1>1, Zenon DEF Inv, MapInv, Below, Complete
  <1>3. Recent'
    BY <1>1, Zenon DEF Inv, MapInv, Recent
  <1>4. Bottom'
    BY <1>1, KeyTypes DEF Inv, MapInv, Bottom, TypeOK, Gens
  <1>5. \A g \in Gens : g > active /\ g # active + 1 => configs'[g] = NoOptions /\ templates'[g] = Blank
    BY Zenon DEF Inv, MapInv, Above
  <1>6. ASSUME NEW g \in Gens, configs'[g] # NoOptions PROVE g + 1 >= active
    <2>1. CASE g = active + 1
      BY <2>1 DEF TypeOK, Gens
    <2>2. CASE g # active + 1
      BY <1>6, <2>2 DEF Inv, MapInv, Retained
    <2> QED BY <2>1, <2>2
  <1> QED BY <1>2, <1>3, <1>4, <1>5, <1>6

\* The same for what the CPUs hold.
LEMMA CpusRest ==
    ASSUME TypeOK, Inv, UNCHANGED cpus, active' = active,
           \A g \in Gens : g # active + 1 => configs'[g] = configs[g]
    PROVE  Reading' /\ Asking'
  <1>1. \A g \in Gens : g > 0 /\ g <= active => configs'[g] \in {NoOptions, configs[g]}
    BY DEF TypeOK, Gens
  <1>2. active' \in Gens /\ active <= active'
    BY DEF TypeOK, Gens
  <1> QED BY <1>1, <1>2, CpusUndisturbed

LEMMA InsertInv == ASSUME TypeOK, Inv, NEW k \in left, Insert(k) PROVE Inv'
  <1> DEFINE a == active + 1
  <1>1. /\ Gen = a /\ configGen = active /\ active' = active /\ configGen' = configGen /\ step = "insert"
        /\ step' = step /\ next' = next /\ left' = left \ {k} /\ configs' = configs
        /\ templates' = [templates EXCEPT ![a][k] = next] /\ UNCHANGED cpus
    BY DEF Insert, Inv, MapInv, Counted, Gen, Successor
  <1>2. configGen < MaxGen /\ next \in Options
    BY <1>1 DEF Inv, MapInv, Publishing
  <1>3. a \in Gens
    BY <1>1, <1>2 DEF TypeOK, Gens
  <1>4. k \in Keys /\ k \in KeysOf(next)
    BY <1>1 DEF TypeOK, Inv, MapInv, Writing
  <1> HIDE DEF a
  <1>5. \A g \in Gens : g # a => configs'[g] = configs[g] /\ templates'[g] = templates[g]
    BY <1>1 DEF TypeOK
  <1>6. Below' /\ Recent' /\ Bottom' /\ Above' /\ Retained'
    BY <1>1, <1>5, OthersRest DEF Above, Retained, a
  <1>7. Reading' /\ Asking'
    BY <1>1, <1>5, CpusRest DEF a
  <1>8. Counted' /\ Publishing'
    BY <1>1, <1>2 DEF Counted, Publishing
  <1>9. ASSUME NEW q \in Keys PROVE templates'[a][q] = Written1(q)'
    <2>1. templates[a][q] = Written1(q)
      BY <1>1 DEF Inv, MapInv, Writing, a
    <2>2. q # k => templates'[a][q] = templates[a][q]
      BY <1>1, <1>3, <1>4 DEF TypeOK
    <2>3. q = k => templates'[a][q] = next
      BY <1>1, <1>3, <1>9 DEF TypeOK
    <2>4. q # k => Written1(q)' = Written1(q)
      BY <1>1, Zenon DEF Written1
    <2>5. q = k => Written1(q)' = next
      BY <1>1, <1>4, Zenon DEF Written1
    <2> QED BY <2>1, <2>2, <2>3, <2>4, <2>5
  <1>10. configs'[active + 1] = NoOptions
    BY <1>1 DEF Inv, MapInv, Writing
  <1>11. left' \subseteq KeysOf(next)
    BY <1>1 DEF Inv, MapInv, Writing
  <1>12. Writing'
    BY <1>1, <1>9, <1>10, <1>11 DEF Writing, a
  <1> QED BY <1>6, <1>7, <1>8, <1>12 DEF Inv, MapInv

LEMMA WritingFacts ==
    ASSUME TypeOK, Inv, step \in {"insert", "config", "activate", "rollback"}
    PROVE  /\ Gen = active + 1 /\ configGen = active /\ active + 1 \in Gens /\ next \in Options
           /\ active \in Gens /\ configGen < MaxGen
  BY DEF Inv, MapInv, Counted, Publishing, Gen, Successor, TypeOK, Gens

\* Steps of a publication that leave the maps alone.
LEMMA MapsRest ==
    ASSUME TypeOK, Inv, step \in {"insert", "config", "activate"},
           UNCHANGED <<configGen, next, left, maps, cpus>>,
           step' = "rollback" \/ (step = "insert" /\ left = {} /\ step' = "config")
    PROVE  Inv'
  <1>1. UNCHANGED <<configGen, next, left, templates, configs, active>> /\ UNCHANGED cpus
    BY DEF maps
  <1>2. Below' /\ Recent' /\ Bottom' /\ Above' /\ Retained'
    BY <1>1, OthersRest DEF Above, Retained
  <1>3. Reading' /\ Asking'
    BY <1>1, CpusRest
  <1>4. Counted' /\ Publishing'
    BY <1>1, WritingFacts DEF Counted, Publishing
  <1>5. Writing'
    <2>1. \A k \in Keys : Written1(k)' = Written1(k)
      BY <1>1, Zenon DEF Written1
    <2> QED BY <1>1, <2>1 DEF Inv, MapInv, Writing
  <1> QED BY <1>2, <1>3, <1>4, <1>5 DEF Inv, MapInv

LEMMA ConfigureInv == ASSUME TypeOK, Inv, Configure PROVE Inv'
  <1> DEFINE a == active + 1
  <1>1. /\ Gen = a /\ configGen = active /\ a \in Gens /\ next \in Options /\ configGen < MaxGen
        /\ UNCHANGED <<configGen, next, left, templates, active>> /\ UNCHANGED cpus
        /\ step = "config" /\ step' = "activate" /\ configs' = [configs EXCEPT ![a] = next]
    BY WritingFacts DEF Configure
  <1> HIDE DEF a
  <1>2. configs'[a] = next /\ \A g \in Gens : g # a => configs'[g] = configs[g] /\ templates'[g] = templates[g]
    BY <1>1 DEF TypeOK
  <1>3. Below' /\ Recent' /\ Bottom' /\ Above' /\ Retained'
    BY <1>1, <1>2, OthersRest DEF Above, Retained, a
  <1>4. Reading' /\ Asking'
    BY <1>1, <1>2, CpusRest DEF a
  <1>5. Counted' /\ Publishing'
    BY <1>1 DEF Counted, Publishing
  <1>6. Writing'
    <2>1. \A k \in Keys : Written1(k)' = Written1(k)
      BY <1>1, Zenon DEF Written1
    <2> QED BY <1>1, <1>2, <2>1 DEF Inv, MapInv, Writing, a
  <1> QED BY <1>3, <1>4, <1>5, <1>6 DEF Inv, MapInv

LEMMA RollbackInv == ASSUME TypeOK, Inv, Rollback PROVE Inv'
  <1> DEFINE a == active + 1
  <1>1. /\ Gen = a /\ configGen = active /\ a \in Gens /\ UNCHANGED <<configGen, active>> /\ UNCHANGED cpus
        /\ step = "rollback" /\ step' = "serve" /\ configs' = [configs EXCEPT ![a] = NoOptions]
        /\ templates' = [templates EXCEPT ![a] = Blank] /\ left' = {}
    BY WritingFacts DEF Rollback, Cleared
  <1> HIDE DEF a
  <1>2. /\ configs'[a] = NoOptions /\ templates'[a] = Blank
        /\ \A g \in Gens : g # a => configs'[g] = configs[g] /\ templates'[g] = templates[g]
    BY <1>1 DEF TypeOK
  <1>3. Below' /\ Recent' /\ Bottom'
    BY <1>1, <1>2, OthersRest DEF a
  <1>4. Above'
    BY <1>1, <1>2, OthersRest DEF Above, a
  <1>5. Reading' /\ Asking'
    BY <1>1, <1>2, CpusRest DEF a
  <1>6. Counted' /\ Publishing' /\ Retained' /\ Writing'
    BY <1>1 DEF Counted, Publishing, Retained, Writing
  <1> QED BY <1>3, <1>4, <1>5, <1>6 DEF Inv, MapInv

LEMMA ActivateInv == ASSUME TypeOK, Inv, Activate PROVE Inv'
  <1> DEFINE a == active + 1
  <1>1. /\ configGen = active /\ a \in Gens /\ active \in Gens /\ next \in Options
        /\ UNCHANGED <<left, templates, configs>> /\ UNCHANGED cpus
        /\ step = "activate" /\ step' = "serve" /\ active' = a /\ configGen' = a
    BY WritingFacts DEF Activate
  <1>2. \A g \in Gens : /\ g <= a => g = a \/ g <= active
                        /\ g > a => g > active /\ g # active + 1
                        /\ g <= a /\ a <= g + 1 => g = a \/ (g <= active /\ active <= g + 1)
    BY <1>1 DEF Gens
  <1>3. configs[a] = next /\ left = {} /\ \A k \in Keys : templates[a][k] = Written1(k)
    BY <1>1 DEF Inv, MapInv, Writing
  <1>4. next # NoOptions
    BY <1>1
  <1>5. Complete(a, next)
    BY <1>3, Zenon DEF Complete, Written1
  <1> HIDE DEF a
  <1>6. Below'
    <2> SUFFICES ASSUME NEW g \in Gens, g <= a
                 PROVE  /\ configs[g] # NoOptions => Complete(g, configs[g])
                        /\ configs[g] = NoOptions => templates[g] = Blank
      BY <1>1, Zenon DEF Below, Complete
    <2>1. CASE g = a
      BY <2>1, <1>3, <1>4, <1>5
    <2>2. CASE g <= active
      BY <2>2, Zenon DEF Inv, MapInv, Below
    <2> QED BY <1>2, <2>1, <2>2
  <1>7. Recent'
    <2> SUFFICES ASSUME NEW g \in Gens, g > 0, g <= a, a <= g + 1 PROVE configs[g] # NoOptions
      BY <1>1 DEF Recent
    <2> QED BY <1>2, <1>3, <1>4 DEF Inv, MapInv, Recent
  <1>8. Above'
    <2> SUFFICES ASSUME NEW g \in Gens, g > a PROVE configs[g] = NoOptions /\ templates[g] = Blank
      BY <1>1, Zenon DEF Above
    <2> QED BY <1>2, Zenon DEF Inv, MapInv, Above
  <1>9. Counted' /\ Publishing' /\ Retained' /\ Writing' /\ Bottom'
    BY <1>1, <1>3 DEF Counted, Publishing, Retained, Writing, Inv, MapInv, Bottom
  <1>10. Reading' /\ Asking'
    <2>1. active' \in Gens /\ active <= active'
      BY <1>1 DEF a, Gens
    <2> QED BY <1>1, <2>1, CpusUndisturbed
  <1> QED BY <1>6, <1>7, <1>8, <1>9, <1>10 DEF Inv, MapInv

LEMMA DaemonInv == ASSUME TypeOK, Inv, Daemon PROVE Inv'
  <1>1. CASE Inserted
    BY <1>1, MapsRest DEF Inserted
  <1>2. CASE UpdateFails
    BY <1>2, MapsRest DEF UpdateFails
  <1> QED BY <1>1, <1>2, PublishInv, ReapInv, InsertInv, ConfigureInv, RollbackInv, ActivateInv, Zenon DEF Daemon

LEMMA DatapathInv == ASSUME TypeOK, Inv, NEW p \in Cpus, Datapath(p) PROVE Inv'
  <1>1. UNCHANGED daemon /\ UNCHANGED maps
    BY Zenon DEF Datapath, Observe, TriggerUdp, TriggerNew, TriggerKnown, Ask, Build
  <1>2. UNCHANGED <<configGen, step, next, left, templates, configs, active>>
    BY <1>1 DEF daemon, maps
  <1>3. MapInv'
    <2>1. Counted' /\ Publishing' /\ Bottom' /\ Retained' /\ Recent'
      BY <1>2 DEF Inv, MapInv, Counted, Publishing, Bottom, Retained, Recent
    <2>2. Below' /\ Above'
      BY <1>2, Zenon DEF Inv, MapInv, Below, Complete, Above
    <2>3. \A k \in Keys : Written1(k)' = Written1(k)
      BY <1>2, Zenon DEF Written1
    <2>4. Writing'
      BY <1>2, <2>3 DEF Inv, MapInv, Writing
    <2> QED BY <2>1, <2>2, <2>4 DEF MapInv
  <1>4. \A q \in Cpus : q # p => pc'[q] = pc[q] /\ seen'[q] = seen[q] /\ asked'[q] = asked[q]
    <2>1. CASE Observe(p)
      BY <2>1 DEF Observe, TypeOK
    <2>2. CASE \E plan : Ask(p, plan)
      BY <2>2 DEF Ask, TypeOK
    <2>3. CASE Build(p)
      BY <2>3 DEF Build, TypeOK
    <2> QED BY <2>1, <2>2, <2>3, Zenon DEF Datapath, TriggerUdp, TriggerNew, TriggerKnown
  <1>5. \A q \in Cpus : q # p /\ pc'[q] # "idle" => Holding(seen[q])' /\ seen'[q] = seen[q]
    BY <1>2, <1>4, Zenon DEF Inv, Reading, Holding
  <1>6. \A q \in Cpus : q # p /\ pc'[q] = "build" /\ asked'[q][1] \in PlansOf(seen'[q].options)
                       => asked'[q] \in KeysOf(seen'[q].options)
    BY <1>4, Zenon DEF Inv, Asking
  <1>7. CASE Observe(p)
    <2>1. seen'[p] = [gen |-> active, options |-> configs[active]] /\ pc'[p] = "trigger"
          /\ configs[active] # NoOptions
      BY <1>7 DEF Observe, TypeOK
    <2>2. active \in 1 .. active /\ configs[active] \in Options
      <3>1. active # 0
        BY <2>1, Zenon DEF Inv, MapInv, Bottom
      <3>2. active \in Gens /\ configs[active] \in Options
        BY <2>1, Zenon DEF TypeOK
      <3> QED BY <3>1, <3>2 DEF Gens
    <2>3. Holding(seen[p])'
      BY <1>2, <2>1, <2>2 DEF Holding
    <2>4. Reading'
      BY <1>5, <2>3, Zenon DEF Reading
    <2>5. Asking'
      BY <1>6, <2>1, Zenon DEF Asking
    <2> QED BY <1>3, <2>4, <2>5 DEF Inv
  <1>8. ASSUME NEW plan \in Plans, pc[p] = "trigger", Ask(p, plan) PROVE Inv'
    <2>1. Holding(seen[p]) /\ seen' = seen
      BY <1>8, Zenon DEF Inv, Reading, Ask
    <2>2. Holding(seen[p])'
      BY <1>2, <2>1, Zenon DEF Holding
    <2>3. PICK v \in Picks(seen[p].options, plan) : asked' = [asked EXCEPT ![p] = <<plan, v>>]
      BY <1>8, Zenon DEF Ask
    <2>4. asked'[p] = <<plan, v>>
      BY <2>3 DEF TypeOK
    <2>5. seen[p].options \in Options
      BY <2>1, Zenon DEF Holding
    <2>6. plan \in PlansOf(seen[p].options) => <<plan, v>> \in KeysOf(seen[p].options)
      <3>1. <<plan, v>> \in Keys
        BY <2>3, <2>5, PickTypes
      <3>2. plan \in PlansOf(seen[p].options) => v < VariantsOf(seen[p].options, plan)
        BY <2>3 DEF Picks, VariantsOf, PlansOf
      <3> QED BY <3>1, <3>2 DEF KeysOf
    <2>7. Reading'
      BY <1>5, <2>2, Zenon DEF Reading
    <2>8. asked'[p][1] \in PlansOf(seen'[p].options) => asked'[p] \in KeysOf(seen'[p].options)
      BY <2>1, <2>4, <2>6
    <2>9. Asking'
      BY <1>6, <2>8, Zenon DEF Asking
    <2> QED BY <1>3, <2>7, <2>9 DEF Inv
  <1>9. CASE TriggerUdp(p)
    BY <1>8, <1>9, KeyTypes DEF TriggerUdp
  <1>10. ASSUME NEW f \in Flows, TriggerNew(p, f) PROVE Inv'
    <2>1. PICK r \in seen[p].options.rules : Ask(p, r)
      BY <1>10, Zenon DEF TriggerNew
    <2>2. pc[p] = "trigger"
      BY <1>10 DEF TriggerNew
    <2>3. seen[p].options \in Options
      BY <2>2, Zenon DEF Inv, Reading, Holding
    <2>4. r \in Plans
      BY <2>1, <2>3, OptionFields, KeyTypes
    <2> QED BY <1>8, <2>1, <2>2, <2>4
  <1>11. ASSUME NEW f \in Flows, TriggerKnown(p, f) PROVE Inv'
    <2>1. rule[f] \in Plans
      BY DEF TypeOK
    <2> QED BY <1>8, <1>11, <2>1 DEF TriggerKnown
  <1>12. CASE Build(p)
    <2>1. pc'[p] = "idle"
      BY <1>12 DEF Build, TypeOK
    <2>2. Reading'
      BY <1>5, <2>1, Zenon DEF Reading
    <2>3. pc'[p] # "build"
      BY <2>1
    <2>4. Asking'
      BY <1>6, <2>3, Zenon DEF Asking
    <2> QED BY <1>3, <2>2, <2>4 DEF Inv
  <1> QED BY <1>7, <1>9, <1>10, <1>11, <1>12, Zenon DEF Datapath

\* An evicted connection, and a step that changes nothing.
LEMMA RestInv ==
    ASSUME TypeOK, Inv, UNCHANGED <<daemon, maps, cpus>>
    PROVE  Inv'
  <1>1. /\ UNCHANGED <<configGen, step, next, left, templates, configs, active>>
        /\ UNCHANGED <<pc, seen, asked>>
    BY DEF daemon, maps, cpus
  <1>2. Counted' /\ Publishing' /\ Bottom' /\ Retained' /\ Recent'
    BY <1>1 DEF Inv, MapInv, Counted, Publishing, Bottom, Retained, Recent
  <1>3. Below' /\ Above'
    BY <1>1, Zenon DEF Inv, MapInv, Below, Complete, Above
  <1>4. \A k \in Keys : Written1(k)' = Written1(k)
    BY <1>1, Zenon DEF Written1
  <1>5. Writing'
    BY <1>1, <1>4 DEF Inv, MapInv, Writing
  <1>6. Reading' /\ Asking'
    BY <1>1, Zenon DEF Inv, Reading, Holding, Asking
  <1> QED BY <1>2, <1>3, <1>5, <1>6 DEF Inv, MapInv

LEMMA Inductive == TypeOK /\ Inv /\ [Next]_vars => TypeOK' /\ Inv'
  <1> SUFFICES ASSUME TypeOK, Inv, [Next]_vars PROVE TypeOK' /\ Inv'
    OBVIOUS
  <1>1. CASE Daemon
    BY <1>1, DaemonTypes, DaemonInv
  <1>2. ASSUME NEW p \in Cpus, Datapath(p) PROVE TypeOK' /\ Inv'
    BY <1>2, DatapathTypes, DatapathInv
  <1>3. ASSUME NEW f \in Flows, Evict(f) PROVE TypeOK' /\ Inv'
    <2>1. Inv'
      BY <1>3, RestInv DEF Evict
    <2>2. TypeOK'
      BY <1>3 DEF Evict, TypeOK, daemon, maps, cpus, NoRule, Plans
    <2> QED BY <2>1, <2>2
  <1>4. CASE UNCHANGED vars
    <2>1. Inv'
      BY <1>4, RestInv DEF vars
    <2>2. TypeOK'
      BY <1>4 DEF vars, TypeOK, daemon, maps, cpus
    <2> QED BY <2>1, <2>2
  <1> QED BY <1>1, <1>2, <1>3, <1>4, Zenon DEF Next

LEMMA Invariant == Spec => [](TypeOK /\ Inv)
  <1> QED BY InitInv, Inductive, PTL DEF Spec

----------------------------------------------------------------------------
(* What the invariant implies.                                             *)

LEMMA Served == TypeOK /\ Inv => RequestsAreServed
  <1> SUFFICES ASSUME TypeOK, Inv, NEW p \in Cpus, pc[p] = "build", seen[p].gen + 1 >= active,
                      asked[p][1] \in PlansOf(seen[p].options)
               PROVE  Template(p) = seen[p].options
    BY DEF RequestsAreServed
  <1> DEFINE g == seen[p].gen
             o == seen[p].options
  <1>1. Holding(seen[p]) /\ asked[p] \in KeysOf(o) /\ asked[p] \in Keys
    BY Zenon DEF Inv, Reading, Asking, TypeOK
  <1>2. g \in 1 .. active /\ o \in Options /\ configs[g] \in {NoOptions, o}
    BY <1>1 DEF Holding
  <1>3. g \in Gens /\ g > 0 /\ g <= active /\ active <= g + 1
    BY <1>2 DEF TypeOK, Gens
  <1> HIDE DEF g
  <1>4. configs[g] = o
    BY <1>2, <1>3 DEF Inv, MapInv, Recent
  <1>5. Complete(g, o)
    BY <1>2, <1>3, <1>4 DEF Inv, MapInv, Below
  <1>6. templates[g][asked[p]] = o
    BY <1>1, <1>5, Zenon DEF Complete
  <1> QED BY <1>6 DEF Template, g

LEMMA Unmixed == TypeOK /\ Inv => NoMixedBytes
  <1> SUFFICES ASSUME TypeOK, Inv, NEW p \in Cpus, pc[p] = "build"
               PROVE  Template(p) \in {NoOptions, seen[p].options}
    BY DEF NoMixedBytes
  <1> DEFINE g == seen[p].gen
             o == seen[p].options
  <1>1. Holding(seen[p]) /\ asked[p] \in Keys
    BY Zenon DEF Inv, Reading, TypeOK
  <1>2. g \in 1 .. active /\ configs[g] \in {NoOptions, o}
    BY <1>1 DEF Holding
  <1>3. g \in Gens /\ g <= active
    BY <1>2 DEF TypeOK, Gens
  <1> HIDE DEF g
  <1>4. CASE configs[g] = NoOptions
    <2>1. templates[g] = Blank
      BY <1>3, <1>4 DEF Inv, MapInv, Below
    <2> QED BY <1>1, <2>1 DEF Template, Blank, g
  <1>5. CASE configs[g] # NoOptions
    <2>1. Complete(g, o)
      BY <1>2, <1>3, <1>5 DEF Inv, MapInv, Below
    <2>2. templates[g][asked[p]] \in {o, NoOptions}
      BY <1>1, <2>1, Zenon DEF Complete
    <2> QED BY <2>2 DEF Template, g
  <1> QED BY <1>4, <1>5

LEMMA AllOrNothing == TypeOK /\ Inv => PublishedOrAbsent
  <1> SUFFICES ASSUME TypeOK, Inv, step = "serve"
               PROVE  /\ \A g \in Gens : g > active => configs[g] = NoOptions /\ templates[g] = Blank
                      /\ active > 0 => /\ configs[active] # NoOptions
                                       /\ \A k \in KeysOf(configs[active]) :
                                              templates[active][k] = configs[active]
    BY Zenon DEF PublishedOrAbsent
  <1>1. \A g \in Gens : g > active => configs[g] = NoOptions /\ templates[g] = Blank
    BY Zenon DEF Inv, MapInv, Above
  <1>2. ASSUME active > 0 PROVE configs[active] # NoOptions
    BY <1>2 DEF Inv, MapInv, Recent, TypeOK, Gens
  <1>3. ASSUME active > 0, NEW k \in KeysOf(configs[active])
        PROVE  templates[active][k] = configs[active]
    <2>1. Complete(active, configs[active])
      BY <1>2, <1>3 DEF Inv, MapInv, Below, TypeOK, Gens
    <2>2. k \in Keys
      BY DEF KeysOf
    <2> QED BY <2>1, <2>2, Zenon DEF Complete
  <1> QED BY <1>1, <1>2, <1>3

LEMMA KeyCount == IsFiniteSet(Keys) /\ Cardinality(Keys) = (RuleCount + 1) * Variants
  <1>1. IsFiniteSet(Plans) /\ Cardinality(Plans) = RuleCount + 1
    BY FS_Interval DEF Plans
  <1>2. IsFiniteSet(0 .. Variants - 1) /\ Cardinality(0 .. Variants - 1) = Variants
    BY FS_Interval
  <1> QED BY <1>1, <1>2, FS_Product, Zenon DEF Keys

\* The templates in the map belong to the two generations the reaper retains
\* and to the one being written, which is not complete yet.
LEMMA RoomForTemplates ==
    ASSUME TypeOK, Inv, step = "insert", NEW k \in left PROVE ~TemplatesFull
  <1> DEFINE three == (active - 1) .. (active + 1)
             all == three \X Keys
  <1>1. active \in Gens /\ active + 1 \in Gens /\ next \in Options
    BY WritingFacts
  <1>2. ASSUME NEW gk \in Written PROVE gk[1] \in three /\ gk \in Gens \X Keys
    <2>1. gk \in Gens \X Keys /\ templates[gk[1]][gk[2]] # NoOptions
      BY DEF Written
    <2>2. PICK g \in Gens, q \in Keys : gk = <<g, q>>
      BY <2>1
    <2>3. templates[g][q] # NoOptions
      BY <2>1, <2>2
    <2>4. templates[g] # Blank
      BY <2>3 DEF Blank
    <2>5. CASE g <= active
      <3>1. configs[g] # NoOptions
        BY <2>4, <2>5 DEF Inv, MapInv, Below
      <3>2. g + 1 >= active
        BY <3>1 DEF Inv, MapInv, Retained
      <3> QED BY <2>1, <2>2, <2>5, <3>2, <1>1 DEF Gens
    <2>6. CASE g > active
      <3>1. g = active + 1
        BY <2>4, <2>6 DEF Inv, MapInv, Above
      <3> QED BY <2>1, <2>2, <3>1, <1>1 DEF Gens
    <2> QED BY <2>5, <2>6, <1>1 DEF Gens
  <1>3. Written \subseteq all
    BY <1>2
  <1>4. k \in Keys /\ <<active + 1, k>> \in all
    BY <1>1 DEF TypeOK, Gens
  <1>5. <<active + 1, k>> \notin Written
    <2>1. templates[active + 1][k] = NoOptions
      BY <1>4 DEF Inv, MapInv, Writing, Written1
    <2> QED BY <2>1 DEF Written
  <1>6. IsFiniteSet(three) /\ Cardinality(three) = 3
    <2>1. active - 1 \in Int /\ active + 1 \in Int
      BY <1>1 DEF Gens
    <2>2. IsFiniteSet(three) /\ Cardinality(three) = IF active - 1 > active + 1 THEN 0
                                                    ELSE (active + 1) - (active - 1) + 1
      BY <2>1, FS_Interval
    <2> QED BY <1>1, <2>2 DEF Gens
  <1> HIDE DEF three
  <1>7. IsFiniteSet(all) /\ Cardinality(all) = 3 * ((RuleCount + 1) * Variants)
    BY <1>6, KeyCount, FS_Product
  <1> HIDE DEF all
  <1>8. Cardinality(Written) <= Cardinality(all) /\ Cardinality(Written) # Cardinality(all) /\ IsFiniteSet(Written)
    BY <1>3, <1>4, <1>5, <1>7, FS_Subset
  <1>9. Cardinality(Written) \in Nat /\ Cardinality(all) \in Nat
    BY <1>7, <1>8, FS_CardinalityType
  <1>10. Cardinality(all) <= TemplateEntries
    BY <1>7, <1>9, CapacityAssumption
  <1> QED BY <1>8, <1>9, <1>10 DEF TemplatesFull

LEMMA RoomForConfigs ==
    ASSUME TypeOK, Inv, step = "config" PROVE ~ConfigsFull
  <1> DEFINE two == (active - 1) .. active
  <1>1. active \in Gens /\ active + 1 \in Gens
    BY WritingFacts
  <1>2. ASSUME NEW g \in Configured PROVE g \in two
    <2>1. g \in Gens /\ configs[g] # NoOptions
      BY DEF Configured
    <2>2. g + 1 >= active
      BY <2>1 DEF Inv, MapInv, Retained
    <2>3. g # active + 1
      BY <2>1 DEF Inv, MapInv, Writing
    <2>4. g <= active
      BY <2>1, <2>3 DEF Inv, MapInv, Above, TypeOK, Gens
    <2> QED BY <2>1, <2>2, <2>4, <1>1 DEF Gens
  <1>3. IsFiniteSet(two) /\ Cardinality(two) = 2
    <2>1. active - 1 \in Int /\ active \in Int
      BY <1>1 DEF Gens
    <2>2. IsFiniteSet(two) /\ Cardinality(two) = IF active - 1 > active THEN 0
                                                ELSE active - (active - 1) + 1
      BY <2>1, FS_Interval
    <2> QED BY <1>1, <2>2 DEF Gens
  <1> HIDE DEF two
  <1>4. Cardinality(Configured) <= 2 /\ IsFiniteSet(Configured)
    BY <1>2, <1>3, FS_Subset
  <1>5. Cardinality(Configured) \in Nat
    BY <1>4, FS_CardinalityType
  <1> QED BY <1>4, <1>5, CapacityAssumption DEF ConfigsFull

LEMMA Roomy == TypeOK /\ Inv => NeverFull
  <1> SUFFICES ASSUME TypeOK, Inv PROVE NeverFull
    OBVIOUS
  <1> QED BY RoomForTemplates, RoomForConfigs DEF NeverFull

----------------------------------------------------------------------------
(* The theorems.                                                           *)

\* Every variable of the publication and of the CPUs keeps its type, for any
\* number of CPUs, connections, rules, variants and reloads.
THEOREM TypeCorrect == Spec => []TypeOK
  <1> QED BY Invariant, PTL

\* A request of the active or the previous generation finds its template,
\* provided its configuration has the plan (lifecycle.c:161-164).
THEOREM ServesRequests == Spec => []RequestsAreServed
  <1> QED BY Invariant, Served, PTL

\* A request is built with the bytes of its own configuration or not at all
\* (docs/ebpf-implementation-spec.md:374).
THEOREM NeverMixes == Spec => []NoMixedBytes
  <1> QED BY Invariant, Unmixed, PTL

\* Between two reloads the maps hold complete generations only, and none above
\* the active one (lifecycle.c:167-168, 195-198).
THEOREM PublishesWhole == Spec => []PublishedOrAbsent
  <1> QED BY Invariant, AllOrNothing, PTL

\* 448 templates and 16 configurations are always enough (maps.h:39-43).
THEOREM HasRoom == Spec => []NeverFull
  <1> QED BY Invariant, Roomy, PTL
=============================================================================
