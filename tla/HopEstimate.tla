---------------------------- MODULE HopEstimate -----------------------------
(***************************************************************************)
(* The head of emit(): the TTL of the decoys from the TTL the peer's       *)
(* packet arrived with.                                                    *)
(***************************************************************************)
EXTENDS Integers

\* The least of the usual initial values that can have become this one.
Initial(remote) == IF remote <= 64 THEN 64 ELSE IF remote <= 128 THEN 128 ELSE 255

Hops(remote) == Initial(remote) - remote

Dynamic(remote, percent) == (Hops(remote) * percent) \div 100

\* A mutant that lets a decoy through that dies at the peer's own hop.
NearerOrThere(remote, ttl) == ttl > Hops(remote)

Near(remote, ttl) == ttl >= Hops(remote)

Larger(a, b) == IF a > b THEN a ELSE b

\* Without a TTL of the peer, the configured one; 0 for no decoy at all.
DecoyTtl(remote, estimate, percent, ttl) ==
    IF ~estimate \/ remote = 0 THEN ttl
    ELSE LET best == Larger(Dynamic(remote, percent), ttl)
         IN  IF Near(remote, best) THEN 0 ELSE best
=============================================================================
