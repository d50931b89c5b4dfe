------------------------------ MODULE Shutdown ------------------------------
(***************************************************************************)
(* The end of ff_run() on top of the running datapath of Injection: the    *)
(* lease is switched off (Stop), drain_requests() watches the request map  *)
(* until it was empty twice or two seconds are over, then the hooks go.    *)
(*                                                                         *)
(* The kernel does not tell whether a CPU is inside emit().  Two looks     *)
(* with a pause of 10 ms after each stand for that: what had passed its    *)
(* lease check before the lease went is over by then.                      *)
(***************************************************************************)
EXTENDS Injection

CONSTANT Polls    \* two seconds in pauses of 10 ms

ASSUME ShutdownAssumption == Polls \in Nat \ {0}

VARIABLES
    polls,      \* looks at the map so far
    empty,      \* the last ones in a row that found nothing
    pausing,    \* in nanosleep()
    detached    \* links destroyed and filters detached

daemon == <<polls, empty, pausing, detached>>
shutdownVars == <<vars, daemon>>

ShutdownInit ==
    /\ Init
    /\ polls = 0
    /\ empty = 0
    /\ pausing = FALSE
    /\ detached = FALSE

\* No CPU is inside emit().
Quiet == \A p \in Cpus : pc[p] = "idle"

\* A mutant that is content with one look.
EmptyOnce == empty >= 1

Drained == empty >= 2

Draining == stopping /\ ~pausing /\ ~detached

\* One round of drain_requests().
Poll ==
    /\ Draining /\ ~Drained /\ polls < Polls
    /\ polls' = polls + 1
    /\ empty' = IF Live = {} THEN empty + 1 ELSE 0
    /\ pausing' = TRUE
    /\ UNCHANGED <<vars, detached>>

\* 10 ms later.  A hook runs for microseconds, and none gets into emit() after
\* Stop: by the end of the second pause those that were there have left.
Wake ==
    /\ pausing
    /\ polls >= 2 => Quiet
    /\ pausing' = FALSE
    /\ UNCHANGED <<vars, polls, empty, detached>>

GivenUp == polls = Polls

\* The loop is over, by emptiness or by the clock, and the hooks are removed.
Detach ==
    /\ Draining /\ (Drained \/ GivenUp)
    /\ detached' = TRUE
    /\ UNCHANGED <<vars, polls, empty, pausing>>

\* A clone that is still on its way meets no hook any more; a hook that was
\* running comes to its end.
Slip(id) == detached /\ (Depart(id, "escaped") \/ Reclaim(id)) /\ UNCHANGED daemon

Datapath == ~detached /\ Next /\ UNCHANGED daemon

ShutdownNext ==
    \/ Datapath
    \/ Poll \/ Wake \/ Detach
    \/ \E id \in Ids : Slip(id)

ShutdownSpec == ShutdownInit /\ [][ShutdownNext]_shutdownVars

\* The CPUs and the clones of Injection, and the daemon, which has nothing
\* else to do at its end.
ShutdownFairness ==
    /\ \A p \in Cpus : WF_shutdownVars(pc[p] # "idle" /\ Emit(p) /\ Datapath)
    /\ \A id \in Ids : WF_shutdownVars((Cross(id) /\ Datapath) \/ Slip(id))
    /\ WF_shutdownVars(Poll \/ Wake \/ Detach)

FairShutdownSpec == ShutdownSpec /\ ShutdownFairness

----------------------------------------------------------------------------
\* When the drain ends because the map was empty, nothing is under way at the
\* moment the hooks go: no CPU inside emit(), no request, and no fake that would
\* cross the WAN without its credential check (lifecycle.c:57-65, :446-448;
\* docs/ebpf-implementation-spec.md:397).
DrainedMeansQuiet ==
    Draining /\ Drained => Quiet /\ Live = {} /\ \A id \in Ids : fate[id] # "wire"

\* The daemon gets to its end whatever clones were lost, and the only requests
\* it leaves behind are those of clones that never crossed a hook.
Drains ==
    stopping ~> detached /\ \A id \in Live : fate[id] \in {"lost", "escaped"}
=============================================================================
