-------------------------- MODULE Injection_proof --------------------------
(***************************************************************************)
(* Proofs about Injection, for any number of CPUs, copies and request      *)
(* slots, and with every fault of the environment, and about Shutdown on   *)
(* top of it: what Injection promises holds through the drain and the      *)
(* teardown, and a drain that ends by emptiness has waited for everything  *)
(* that was under way.                                                     *)
(***************************************************************************)
EXTENDS Shutdown, TLAPS

\* A CPU is busy while a request id is in its cb.
Busy(p) == pc[p] \notin {"idle", "next"}

\* Ids that were not drawn yet are untouched.
Fresh == \A id \in Ids : id > seq => fate[id] = "none" /\ requests[id].state = Absent

\* Every busy CPU has an id of its own.
Owners == \A p \in Cpus : Busy(p) => cur[p] \in 1 .. seq

\* A copy is under way only while the loop has one left.
Bounded == \A p \in Cpus : Busy(p) => copies[p] < Repeat

Disjoint == \A p, q \in Cpus : p # q /\ Busy(p) /\ Busy(q) => cur[p] # cur[q]

\* Before the build is done, the fake is only asked for.
Asked == \A p \in Cpus :
    pc[p] \in {"insert", "clone", "build", "finish"} => fate[cur[p]] = "asked"

\* A clone on its way has its credential in the map.
Credentialed == \A id \in Ids : fate[id] = "wire" => requests[id].state = 2

\* A producer that misses its request does not have a clone on its way.
Missed == \A p \in Cpus : pc[p] = "settle" /\ ~hit[p] => fate[cur[p]] # "wire"

Inv == Fresh /\ Owners /\ Bounded /\ Disjoint /\ Asked /\ Credentialed /\ Missed

\* A step of Injection, or a clone that leaves without a hook on its way:
\* Shutdown adds the latter.
Slips(id) == Depart(id, "escaped") \/ Reclaim(id)
Step == [Next]_vars \/ \E id \in Ids : Slips(id)

\* What a step may do to a clone that was handed to the WAN.
Moves(id) == \/ Spend(id) \/ Reclaim(id)
             \/ \E place \in {"lost", "escaped", "reobserved"} : Depart(id, place)

USE InjectionAssumption

LEMMA CrossMoves == ASSUME NEW id \in Ids, Cross(id) \/ Slips(id)
                    PROVE  Moves(id)
  BY DEF Cross, PassBy, Unspent, Escape, Lose, Slips, Moves

----------------------------------------------------------------------------
(* Updates of the functions the state is made of.                          *)

LEMMA GotoType == ASSUME TypeOK, NEW p \in Cpus, NEW step \in Steps, Goto(p, step)
                  PROVE  pc' \in [Cpus -> Steps]
  BY DEF TypeOK, Goto

LEMMA PlaceType == ASSUME TypeOK, NEW id \in Ids, NEW place \in Places, Place(id, place)
                   PROVE  fate' \in [Ids -> Places]
  BY DEF TypeOK, Place

LEMMA CountType == ASSUME TypeOK, NEW p \in Cpus, NEW some \in SUBSET Counters,
                          tally' = [tally EXCEPT ![p] = @ \cup some]
                   PROVE  tally' \in [Cpus -> SUBSET Counters]
  BY Zenon DEF TypeOK

LEMMA RequestType ==
    ASSUME TypeOK, NEW id \in Ids, NEW state \in Absent .. 3,
           requests' = [requests EXCEPT ![id].state = state]
    PROVE  requests' \in [Ids -> Request]
  <1>1. requests[id] \in Request
    BY DEF TypeOK
  <1>2. [requests[id] EXCEPT !.state = state] \in Request
    BY <1>1 DEF Request
  <1>3. requests' = [requests EXCEPT ![id] = [requests[id] EXCEPT !.state = state]]
    BY DEF TypeOK
  <1> QED BY <1>2, <1>3 DEF TypeOK

LEMMA RecordType ==
    ASSUME TypeOK, NEW id \in Ids, NEW record \in Request,
           requests' = [requests EXCEPT ![id] = record]
    PROVE  requests' \in [Ids -> Request]
  BY DEF TypeOK

LEMMA NoRequestType == NoRequest \in Request
  BY DEF NoRequest, Request, Absent

LEMMA ShotType == ASSUME TypeOK, NEW p \in Cpus, cur[p] \in Ids, Shot(p)
                  PROVE  /\ fate' \in [Ids -> Places]
                         /\ rc' \in [Cpus -> BOOLEAN]
                         /\ pc' \in [Cpus -> Steps]
  <1>1. Place(cur[p], "dropped") /\ Goto(p, "lookup")
        /\ \E error \in BOOLEAN : rc' = [rc EXCEPT ![p] = error]
    BY DEF Shot
  <1>2. "dropped" \in Places /\ "lookup" \in Steps
    BY DEF Places, Steps
  <1>3. rc' \in [Cpus -> BOOLEAN]
    BY <1>1 DEF TypeOK
  <1> QED BY <1>1, <1>2, <1>3, PlaceType, GotoType

LEMMA NextCopyType == ASSUME TypeOK, NEW p \in Cpus, copies[p] < Repeat, NextCopy(p)
                      PROVE  /\ copies' \in [Cpus -> 0 .. Repeat]
                             /\ rc' \in [Cpus -> BOOLEAN]
                             /\ hit' \in [Cpus -> BOOLEAN]
                             /\ tally' \in [Cpus -> SUBSET Counters]
                             /\ pc' \in [Cpus -> Steps]
  <1>1. copies' \in [Cpus -> 0 .. Repeat]
    BY DEF TypeOK, NextCopy
  <1>2. rc' \in [Cpus -> BOOLEAN] /\ hit' \in [Cpus -> BOOLEAN]
    BY DEF TypeOK, NextCopy
  <1>3. tally' \in [Cpus -> SUBSET Counters]
    BY Zenon DEF TypeOK, NextCopy
  <1>4. pc' \in [Cpus -> Steps]
    BY GotoType DEF NextCopy, Steps
  <1> QED BY <1>1, <1>2, <1>3, <1>4

----------------------------------------------------------------------------
(* Type correctness.                                                       *)

\* The actions of a CPU keep the types.
LEMMA EmitType ==
    ASSUME TypeOK, Owners, Bounded, NEW p \in Cpus, Emit(p)
    PROVE  TypeOK'
  <1>0. Busy(p) => cur[p] \in Ids /\ copies[p] < Repeat
    BY DEF TypeOK, Owners, Bounded, Ids
  <1> USE DEF world, lease, link, cpus, history
  <1>1. CASE Observe(p)
    <2>1. "next" \in Steps
      BY DEF Steps
    <2>2. pc' \in [Cpus -> Steps]
      BY <1>1, <2>1, GotoType DEF Observe
    <2>3. ctx' \in [Cpus -> [now : 0 .. MaxClock, ifgen : 0 .. MaxEpoch]]
      BY <1>1 DEF Observe, TypeOK
    <2> QED BY <1>1, <2>2, <2>3 DEF Observe, TypeOK
  <1>2. CASE Attempt(p)
    <2>1. "insert" \in Steps /\ "asked" \in Places
      BY DEF Steps, Places
    <2>2. seq + 1 \in Ids /\ seq' = seq + 1
      BY <1>2 DEF Attempt, TypeOK, Ids
    <2>3. pc' \in [Cpus -> Steps] /\ fate' \in [Ids -> Places]
      BY <1>2, <2>1, <2>2, GotoType, PlaceType DEF Attempt
    <2>4. cur' \in [Cpus -> 0 .. MaxSeq]
      BY <1>2, <2>2 DEF Attempt, TypeOK, Ids
    <2> QED BY <1>2, <2>2, <2>3, <2>4 DEF Attempt, TypeOK, Ids
  <1>3. CASE Leave(p)
    <2>1. "idle" \in Steps
      BY DEF Steps
    <2>2. pc' \in [Cpus -> Steps]
      BY <1>3, <2>1, GotoType DEF Leave
    <2>3. ctx' \in [Cpus -> [now : 0 .. MaxClock, ifgen : 0 .. MaxEpoch]]
      BY <1>3 DEF Leave, TypeOK
    <2>4. cur' \in [Cpus -> 0 .. MaxSeq] /\ copies' \in [Cpus -> 0 .. Repeat]
      BY <1>3 DEF Leave, TypeOK
    <2>5. reported' \in BOOLEAN
      BY <1>3 DEF Leave
    <2> QED BY <1>3, <2>2, <2>3, <2>4, <2>5 DEF Leave, TypeOK
  <1>4. CASE Insert(p)
    <2>1. "clone" \in Steps /\ Busy(p)
      BY <1>4 DEF Steps, Insert, Busy
    <2>2. pc' \in [Cpus -> Steps]
      BY <1>4, <2>1, GotoType DEF Insert
    <2>3. [state |-> 0, ifgen |-> ctx[p].ifgen, expires |-> ctx[p].now + RequestTicks] \in Request
      BY DEF TypeOK, Request, Absent
    <2>4. requests' \in [Ids -> Request]
      BY <1>0, <1>4, <2>1, <2>3, RecordType DEF Insert
    <2>5. late' \in [Cpus -> Nat]
      BY <1>4 DEF Insert, TypeOK
    <2> QED BY <1>4, <2>2, <2>4, <2>5 DEF Insert, TypeOK
  <1>5. CASE MapFull(p)
    <2>1. "dropped" \in Places /\ Busy(p)
      BY <1>5 DEF Places, MapFull, Busy
    <2>2. fate' \in [Ids -> Places]
      BY <1>0, <1>5, <2>1, PlaceType DEF MapFull
    <2> QED BY <1>0, <1>5, <2>1, <2>2, NextCopyType DEF MapFull, TypeOK
  <1>6. CASE CloneFails(p)
    <2>1. Busy(p)
      BY <1>6 DEF CloneFails, Busy
    <2> QED BY <1>0, <1>6, <2>1, ShotType DEF CloneFails, TypeOK
  <1>7. CASE Refuse(p)
    <2>1. Busy(p)
      BY <1>7 DEF Refuse, Busy
    <2>2. tally' \in [Cpus -> SUBSET Counters]
      BY <1>7, CountType DEF Refuse, Count, Counters
    <2>3. reported' \in BOOLEAN
      BY <1>7 DEF Refuse
    <2> QED BY <1>0, <1>7, <2>1, <2>2, <2>3, ShotType DEF Refuse, TypeOK
  <1>8. CASE Disown(p)
    <2>1. Busy(p)
      BY <1>8 DEF Disown, Busy
    <2> QED BY <1>0, <1>8, <2>1, ShotType DEF Disown, TypeOK
  <1>9. CASE Accept(p)
    <2>1. Busy(p) /\ "build" \in Steps /\ 1 \in Absent .. 3
      BY <1>9 DEF Accept, Busy, Steps, Absent
    <2>2. requests' \in [Ids -> Request]
      BY <1>0, <1>9, <2>1, RequestType DEF Accept
    <2>3. pc' \in [Cpus -> Steps]
      BY <1>9, <2>1, GotoType DEF Accept
    <2> QED BY <1>9, <2>2, <2>3 DEF Accept, TypeOK
  <1>10. CASE BuildFails(p)
    <2>1. Busy(p)
      BY <1>10 DEF BuildFails, Busy
    <2>2. tally' \in [Cpus -> SUBSET Counters]
      BY <1>10, CountType DEF BuildFails, Count, Counters
    <2> QED BY <1>0, <1>10, <2>1, <2>2, ShotType DEF BuildFails, TypeOK
  <1>11. CASE BuildSucceeds(p)
    <2>1. "finish" \in Steps
      BY DEF Steps
    <2>2. pc' \in [Cpus -> Steps]
      BY <1>11, <2>1, GotoType DEF BuildSucceeds
    <2> QED BY <1>11, <2>2 DEF BuildSucceeds, TypeOK
  <1>12. CASE Submit(p)
    <2>1. Busy(p) /\ "lookup" \in Steps /\ "wire" \in Places /\ 2 \in Absent .. 3
      BY <1>12 DEF Submit, Busy, Steps, Places, Absent
    <2>2. requests' \in [Ids -> Request]
      BY <1>0, <1>12, <2>1, RequestType DEF Submit
    <2>3. pc' \in [Cpus -> Steps] /\ fate' \in [Ids -> Places]
      BY <1>0, <1>12, <2>1, GotoType, PlaceType DEF Submit
    <2>4. tally' \in [Cpus -> SUBSET Counters]
      BY <1>12, CountType DEF Submit, Count, Counters
    <2>5. rc' \in [Cpus -> BOOLEAN]
      BY <1>12 DEF Submit, TypeOK
    <2> QED BY <1>12, <2>2, <2>3, <2>4, <2>5 DEF Submit, TypeOK
  <1>13. CASE Abandon(p)
    <2>1. Busy(p)
      BY <1>13 DEF Abandon, Busy
    <2>2. tally' \in [Cpus -> SUBSET Counters]
      <3>1. CASE reported
        BY <1>13, <3>1 DEF Abandon, TypeOK
      <3>2. CASE ~reported
        BY <1>13, <3>2, CountType DEF Abandon, Count, Counters
      <3> QED BY <3>1, <3>2
    <2> QED BY <1>0, <1>13, <2>1, <2>2, ShotType DEF Abandon, TypeOK
  <1>14. CASE Lookup(p)
    <2>1. "settle" \in Steps
      BY DEF Steps
    <2>2. pc' \in [Cpus -> Steps]
      BY <1>14, <2>1, GotoType DEF Lookup
    <2>3. hit' \in [Cpus -> BOOLEAN]
      BY <1>14 DEF Lookup, TypeOK
    <2> QED BY <1>14, <2>2, <2>3 DEF Lookup, TypeOK
  <1>15. CASE Settle(p)
    <2>1. Busy(p) /\ "booked" \in Steps
      BY <1>15 DEF Settle, Busy, Steps
    <2>2. pc' \in [Cpus -> Steps]
      BY <1>15, <2>1, GotoType DEF Settle
    <2>3. \A error, found, state : Verdict(error, found, state) \in SUBSET Counters
      BY DEF Verdict, Counters
    <2>4. tally' \in [Cpus -> SUBSET Counters]
      BY <1>15, <2>3, CountType DEF Settle
    <2>5. requests' \in [Ids -> Request]
      BY <1>0, <1>15, <2>1, NoRequestType, RecordType DEF Settle, TypeOK
    <2> QED BY <1>15, <2>2, <2>4, <2>5 DEF Settle, TypeOK
  <1>16. CASE EndOfBody(p)
    <2>1. Busy(p)
      BY <1>16 DEF EndOfBody, Busy
    <2> QED BY <1>0, <1>16, <2>1, NextCopyType DEF EndOfBody, TypeOK
  <1> QED
    BY <1>1, <1>2, <1>3, <1>4, <1>5, <1>6, <1>7, <1>8, <1>9, <1>10, <1>11, <1>12,
       <1>13, <1>14, <1>15, <1>16 DEF Emit

\* The other actions keep the types too.
LEMMA OtherType ==
    ASSUME TypeOK, Tick \/ RenewLease \/ Stop \/ Forget \/ Attach \/ Lapsed
    PROVE  TypeOK'
  <1> USE DEF TypeOK, world, lease, link, cpus, history
  <1>1. CASE Tick
    BY <1>1 DEF Tick
  <1>2. CASE RenewLease
    <2>1. until' \in Nat
      BY <1>2 DEF RenewLease
    <2>2. reported' \in BOOLEAN
      BY <1>2, Zenon DEF RenewLease
    <2> QED BY <1>2, <2>1, <2>2 DEF RenewLease
  <1>3. CASE Stop
    BY <1>3 DEF Stop
  <1>4. CASE Forget
    BY <1>4 DEF Forget
  <1>5. CASE Attach
    BY <1>5 DEF Attach
  <1>6. CASE Lapsed
    BY <1>6 DEF Lapsed
  <1> QED BY <1>1, <1>2, <1>3, <1>4, <1>5, <1>6

LEMMA CrossType ==
    ASSUME TypeOK, NEW id \in Ids, Moves(id)
    PROVE  TypeOK'
  <1> USE DEF world, lease, link, cpus, history
  <1>0. {"crossing", "sent", "escaped", "lost", "reobserved"} \subseteq Places /\ 3 \in Absent .. 3
    BY DEF Places, Absent
  <1>1. CASE Spend(id)
    <2>1. requests' \in [Ids -> Request]
      BY <1>0, <1>1, RequestType DEF Spend
    <2>2. fate' \in [Ids -> Places]
      BY <1>0, <1>1, PlaceType DEF Spend
    <2> QED BY <1>1, <2>1, <2>2 DEF Spend, TypeOK
  <1>2. CASE Reclaim(id)
    <2>1. requests' \in [Ids -> Request]
      BY <1>2, NoRequestType, RecordType DEF Reclaim
    <2>2. fate' \in [Ids -> Places]
      BY <1>0, <1>2, PlaceType DEF Reclaim
    <2> QED BY <1>2, <2>1, <2>2 DEF Reclaim, TypeOK
  <1>3. ASSUME NEW place \in {"lost", "escaped", "reobserved"}, Depart(id, place)
        PROVE  TypeOK'
    <2>1. fate' \in [Ids -> Places]
      BY <1>0, <1>3, PlaceType DEF Depart
    <2> QED BY <1>3, <2>1 DEF Depart, TypeOK
  <1> QED BY <1>1, <1>2, <1>3 DEF Moves

----------------------------------------------------------------------------
(* The invariant behind NoReinjection.                                     *)

\* A step inside the loop's body does not change who owns which id.
LEMMA OwnersStay ==
    ASSUME TypeOK, Inv, NEW p \in Cpus, Busy(p), NEW step, step \notin {"idle", "next"},
           pc' = [pc EXCEPT ![p] = step],
           UNCHANGED <<seq, cur, copies>>
    PROVE  Owners' /\ Bounded' /\ Disjoint'
  <1>1. \A q \in Cpus : Busy(q)' => Busy(q)
    BY DEF TypeOK, Busy
  <1>2. cur' = cur /\ seq' = seq /\ copies' = copies
    OBVIOUS
  <1> QED BY <1>1, <1>2 DEF Inv, Owners, Bounded, Disjoint

\* A clone that is shot before it was submitted.
LEMMA ShotInv ==
    ASSUME TypeOK, Inv, NEW p \in Cpus, Shot(p),
           pc[p] \in {"clone", "build", "finish"},
           UNCHANGED <<seq, requests, cur, copies, hit>>
    PROVE  Inv'
  <1>1. Busy(p)
    BY DEF Busy
  <1>2. \A q \in Cpus : Busy(q) => cur[q] \in Ids
    BY DEF TypeOK, Inv, Owners, Ids
  <1>3. fate[cur[p]] = "asked"
    BY DEF Inv, Asked
  <1>4. fate' = [fate EXCEPT ![cur[p]] = "dropped"]
    BY DEF Shot, Place
  <1>5. pc' = [pc EXCEPT ![p] = "lookup"]
    BY DEF Shot, Goto
  <1>6. /\ \A id \in Ids : fate'[id] = IF id = cur[p] THEN "dropped" ELSE fate[id]
        /\ \A q \in Cpus : pc'[q] = IF q = p THEN "lookup" ELSE pc[q]
    BY <1>1, <1>2, <1>4, <1>5 DEF TypeOK
  <1>7. Owners' /\ Bounded' /\ Disjoint'
    BY <1>1, <1>5, OwnersStay
  <1>8. Fresh' /\ Credentialed'
    BY <1>3, <1>6 DEF Inv, Fresh, Credentialed
  <1>9. Asked'
    BY <1>1, <1>2, <1>6 DEF Inv, Asked, Disjoint, Busy
  <1>10. Missed'
    BY <1>1, <1>2, <1>6 DEF Inv, Missed, Busy
  <1> QED BY <1>7, <1>8, <1>9, <1>10 DEF Inv

LEMMA EmitInv ==
    ASSUME TypeOK, TypeOK', Inv, NEW p \in Cpus, Emit(p)
    PROVE  Inv'
  <1>0. /\ Busy(p) => cur[p] \in Ids
        /\ \A q \in Cpus : Busy(q) => cur[q] \in Ids
        /\ \A id \in Ids : id \in Nat
        /\ seq \in Nat
    BY DEF TypeOK, Inv, Owners, Ids
  <1> USE DEF Inv, Fresh, Owners, Bounded, Disjoint, Asked, Credentialed, Missed, Busy,
              world, lease, link, cpus, history, Goto, Place
  <1>1. CASE Observe(p)
    BY <1>0, <1>1 DEF Observe, TypeOK
  <1>2. CASE Attempt(p)
    BY <1>0, <1>2 DEF Attempt, TypeOK, MoreCopies, Absent
  <1>3. CASE Leave(p)
    BY <1>0, <1>3 DEF Leave, TypeOK
  <1>4. CASE Insert(p)
    BY <1>0, <1>4 DEF Insert, TypeOK, Absent
  <1>5. CASE MapFull(p)
    BY <1>0, <1>5 DEF MapFull, NextCopy, TypeOK
  <1>6. CASE CloneFails(p)
    BY <1>6, ShotInv DEF CloneFails
  <1>7. CASE Refuse(p)
    BY <1>7, ShotInv DEF Refuse
  <1>8. CASE Disown(p)
    BY <1>8, ShotInv DEF Disown
  <1>9. CASE Accept(p)
    BY <1>0, <1>9 DEF Accept, TypeOK, Absent
  <1>10. CASE BuildFails(p)
    BY <1>10, ShotInv DEF BuildFails
  <1>11. CASE BuildSucceeds(p)
    BY <1>0, <1>11 DEF BuildSucceeds, TypeOK
  <1>12. CASE Submit(p)
    <2>1. /\ cur[p] \in Ids /\ fate[cur[p]] = "asked"
          /\ \A id \in Ids : fate'[id] = IF id = cur[p] THEN "wire" ELSE fate[id]
          /\ \A q \in Cpus : pc'[q] = IF q = p THEN "lookup" ELSE pc[q]
          /\ UNCHANGED <<seq, cur, copies, hit>>
      BY <1>0, <1>12 DEF Submit, TypeOK
    <2>2. /\ requests'[cur[p]].state = 2
          /\ \A id \in Ids : id # cur[p] => requests'[id] = requests[id]
      BY <1>0, <1>12 DEF Submit, TypeOK, Request
    <2>3. Fresh' /\ Credentialed'
      BY <1>0, <2>1, <2>2
    <2>4. Owners' /\ Bounded' /\ Disjoint'
      BY <1>12, OwnersStay DEF Submit
    <2>5. Asked'
      BY <1>0, <1>12, <2>1 DEF Submit
    <2>6. Missed'
      BY <1>0, <1>12, <2>1 DEF Submit
    <2> QED BY <2>3, <2>4, <2>5, <2>6
  <1>13. CASE Abandon(p)
    BY <1>13, ShotInv DEF Abandon
  <1>14. CASE Lookup(p)
    <2>1. /\ \A q \in Cpus : pc'[q] = IF q = p THEN "settle" ELSE pc[q]
          /\ \A q \in Cpus : q # p => hit'[q] = hit[q]
          /\ hit'[p] = (requests[cur[p]].state # Absent)
          /\ UNCHANGED <<seq, requests, fate, cur, copies>>
          /\ pc[p] = "lookup"
      BY <1>14 DEF Lookup, TypeOK
    <2>2. Fresh' /\ Owners' /\ Bounded' /\ Disjoint' /\ Asked' /\ Credentialed'
      BY <2>1
    <2>3. Missed'
      <3>1. fate[cur[p]] = "wire" => requests[cur[p]].state = 2
        BY <1>0, <2>1
      <3>2. 2 # Absent
        BY DEF Absent
      <3>3. ~hit'[p] => fate[cur[p]] # "wire"
        BY <3>1, <3>2, <2>1
      <3> QED BY <2>1, <3>3
    <2> QED BY <2>2, <2>3
  <1>15. CASE Settle(p)
    BY <1>0, <1>15 DEF Settle, SeenStates, Kept, TypeOK, Absent, NoRequest
  <1>16. CASE EndOfBody(p)
    BY <1>0, <1>16 DEF EndOfBody, NextCopy, TypeOK
  <1> QED
    BY <1>1, <1>2, <1>3, <1>4, <1>5, <1>6, <1>7, <1>8, <1>9, <1>10, <1>11, <1>12,
       <1>13, <1>14, <1>15, <1>16 DEF Emit

LEMMA CrossInv ==
    ASSUME TypeOK, TypeOK', Inv, NEW id \in Ids, Moves(id)
    PROVE  Inv'
  <1>0. /\ \A q \in Cpus : Busy(q) => cur[q] \in Ids
        /\ seq \in Nat
    BY DEF TypeOK, Inv, Owners, Ids
  <1> USE DEF Inv, Fresh, Owners, Bounded, Disjoint, Asked, Credentialed, Missed, Busy,
              world, lease, link, cpus, history, Place
  <1>1. CASE Spend(id)
    BY <1>0, <1>1 DEF Spend, TypeOK, Absent
  <1>2. CASE Reclaim(id)
    BY <1>0, <1>2 DEF Reclaim, TypeOK, Absent, NoRequest
  <1>3. ASSUME NEW place \in {"lost", "escaped", "reobserved"}, Depart(id, place)
        PROVE  Inv'
    BY <1>0, <1>3 DEF Depart, TypeOK
  <1> QED BY <1>1, <1>2, <1>3 DEF Moves

LEMMA OtherInv ==
    ASSUME Inv, UNCHANGED <<seq, requests, fate, cpus>>
    PROVE  Inv'
  BY DEF Inv, Fresh, Owners, Bounded, Disjoint, Asked, Credentialed, Missed, Busy, cpus

\* Types and ownership hold at the start and are kept together.
LEMMA InvInit == Init => TypeOK /\ Inv
  <1> SUFFICES ASSUME Init PROVE TypeOK /\ Inv
    OBVIOUS
  <1>1. /\ requests \in [Ids -> Request] /\ fate \in [Ids -> Places]
        /\ tally \in [Cpus -> SUBSET Counters] /\ pc \in [Cpus -> Steps]
    BY NoRequestType DEF Init, Places, Steps
  <1>2. /\ cur \in [Cpus -> 0 .. MaxSeq] /\ copies \in [Cpus -> 0 .. Repeat]
        /\ ctx \in [Cpus -> [now : 0 .. MaxClock, ifgen : 0 .. MaxEpoch]]
        /\ late \in [Cpus -> Nat]
    BY DEF Init
  <1>3. /\ rc \in [Cpus -> BOOLEAN] /\ hit \in [Cpus -> BOOLEAN]
        /\ reported \in BOOLEAN /\ stopping \in BOOLEAN
    BY DEF Init
  <1>4. TypeOK
    BY <1>1, <1>2, <1>3 DEF Init, TypeOK
  <1>5. \A p \in Cpus : pc[p] = "idle"
    BY DEF Init
  <1>6. \A id \in Ids : fate[id] = "none" /\ requests[id].state = Absent
    BY DEF Init, NoRequest
  <1>7. Inv
    BY <1>5, <1>6 DEF Inv, Fresh, Owners, Bounded, Disjoint, Asked, Credentialed, Missed, Busy
  <1> QED BY <1>4, <1>7

LEMMA InvStep ==
    ASSUME TypeOK, Inv, Step
    PROVE  TypeOK' /\ Inv'
  <1>1. ASSUME NEW p \in Cpus, Emit(p) PROVE TypeOK' /\ Inv'
    BY <1>1, EmitType, EmitInv DEF Inv
  <1>2. ASSUME NEW id \in Ids, Cross(id) \/ Slips(id) PROVE TypeOK' /\ Inv'
    BY <1>2, CrossMoves, CrossType, CrossInv
  <1>3. CASE Tick \/ RenewLease \/ Stop \/ Forget \/ Attach \/ Lapsed
    <2>1. UNCHANGED <<seq, requests, fate, cpus>>
      BY <1>3 DEF Tick, RenewLease, Stop, Forget, Attach, Lapsed, lease, link
    <2> QED BY <1>3, <2>1, OtherType, OtherInv
  <1>4. CASE UNCHANGED vars
    <2>1. UNCHANGED <<seq, requests, fate, cpus>>
      BY <1>4 DEF vars, world
    <2>2. TypeOK'
      BY <1>4 DEF vars, world, lease, link, cpus, history, TypeOK
    <2> QED BY <2>1, <2>2, OtherInv
  <1> QED BY <1>1, <1>2, <1>3, <1>4 DEF Step, Next

LEMMA Inductive == Spec => [](TypeOK /\ Inv)
  <1>1. TypeOK /\ Inv /\ [Next]_vars => (TypeOK /\ Inv)'
    BY InvStep DEF Step
  <1> QED BY <1>1, InvInit, PTL DEF Spec

\* Every variable of the protocol keeps its type.
THEOREM TypeCorrect == Spec => []TypeOK
  BY Inductive, PTL

----------------------------------------------------------------------------
\* A clone comes to ff_egress with its credential.
LEMMA NoReinjectionStep ==
    ASSUME TypeOK, Inv, NoReinjection, Step
    PROVE  NoReinjection'
  <1>1. ASSUME NEW id \in Ids, NEW place \in Places \ {"reobserved"}, Place(id, place)
        PROVE  NoReinjection'
    BY <1>1 DEF Place, NoReinjection, TypeOK
  <1>2. ASSUME UNCHANGED fate PROVE NoReinjection'
    BY <1>2 DEF NoReinjection
  <1>3. ASSUME NEW p \in Cpus, Emit(p) PROVE NoReinjection'
    <2>1. (\E id \in Ids, place \in Places \ {"reobserved"} : Place(id, place))
          \/ UNCHANGED fate
      <3>1. Busy(p) => cur[p] \in Ids
        BY DEF TypeOK, Inv, Owners, Ids
      <3>2. {"asked", "dropped", "wire"} \subseteq Places \ {"reobserved"}
        BY DEF Places
      <3>3. CASE Attempt(p)
        <4>1. seq + 1 \in Ids
          BY <3>3 DEF Attempt, TypeOK, Ids
        <4> QED BY <3>2, <3>3, <4>1 DEF Attempt
      <3>4. ASSUME Shot(p), Busy(p) PROVE Place(cur[p], "dropped") /\ cur[p] \in Ids
        BY <3>1, <3>4 DEF Shot
      <3>5. CASE CloneFails(p) \/ Refuse(p) \/ Disown(p) \/ BuildFails(p) \/ Abandon(p)
        <4>1. Shot(p) /\ Busy(p)
          BY <3>5 DEF CloneFails, Refuse, Disown, BuildFails, Abandon, Busy
        <4> QED BY <3>2, <3>4, <4>1
      <3>6. CASE MapFull(p) \/ Submit(p)
        BY <3>1, <3>2, <3>6 DEF MapFull, Submit, Busy
      <3>7. CASE Observe(p) \/ Leave(p) \/ Insert(p) \/ Accept(p) \/ BuildSucceeds(p)
                 \/ Lookup(p) \/ Settle(p) \/ EndOfBody(p)
        BY <3>7 DEF Observe, Leave, Insert, Accept, BuildSucceeds, Lookup, Settle, EndOfBody
      <3> QED BY <1>3, <3>3, <3>5, <3>6, <3>7 DEF Emit
    <2> QED BY <1>1, <1>2, <2>1
  <1>4. ASSUME NEW id \in Ids, Cross(id) \/ Slips(id) PROVE NoReinjection'
    <2>1. {"crossing", "sent", "escaped", "lost"} \subseteq Places \ {"reobserved"}
      BY DEF Places
    <2>2. PassBy(id) => Depart(id, "lost")
      BY DEF PassBy, Unspent, Depart, Inv, Credentialed
    <2> QED BY <1>1, <1>4, <2>1, <2>2
            DEF Cross, Slips, Spend, Reclaim, Escape, Lose, Depart
  <1>5. CASE Tick \/ RenewLease \/ Stop \/ Forget \/ Attach \/ Lapsed
    BY <1>2, <1>5 DEF Tick, RenewLease, Stop, Forget, Attach, Lapsed
  <1> QED BY <1>2, <1>3, <1>4, <1>5 DEF Step, Next, vars

\* No fake is ever taken for traffic: a clone that comes to ff_egress finds
\* its credential there, because the producer leaves it alone and nobody else
\* deletes it before the clone has spent it.
THEOREM FakesAreNotReinjected == Spec => []NoReinjection
  <1>1. Init => NoReinjection
    BY DEF Init, NoReinjection
  <1>2. TypeOK /\ Inv /\ NoReinjection /\ [Next]_vars => NoReinjection'
    BY NoReinjectionStep DEF Step
  <1> QED BY <1>1, <1>2, Inductive, PTL DEF Spec

----------------------------------------------------------------------------
(* The protocol implements FakeDelivery.                                   *)

\* A clone that changes its place changes its stage accordingly.
LEMMA StageMoves ==
    ASSUME TypeOK, NEW id \in Ids, NEW place \in Places, Place(id, place)
    PROVE  Stage' = [Stage EXCEPT ![id] = StageOf(place)]
  <1>1. \A other \in Ids : fate'[other] = IF other = id THEN place ELSE fate[other]
    BY DEF TypeOK, Place
  <1>2. \A other \in Ids : StageOf(fate'[other]) =
            IF other = id THEN StageOf(place) ELSE StageOf(fate[other])
    BY <1>1
  <1> QED BY <1>2 DEF Stage

\* A move of the implementation between places is a move of the abstract fake.
LEMMA StageStep ==
    ASSUME TypeOK, NEW id \in Ids, NEW place \in Places, Place(id, place),
           \/ fate[id] = "none" /\ place = "asked"
           \/ fate[id] = "asked" /\ place \in {"wire", "dropped"}
           \/ fate[id] = "wire" /\ place \in {"crossing", "escaped", "lost"}
           \/ fate[id] = "crossing" /\ place = "sent"
    PROVE  [Delivery!Next]_Stage
  <1>1. Stage' = [Stage EXCEPT ![id] = StageOf(place)]
    BY StageMoves
  <1>2. Stage[id] = StageOf(fate[id])
    BY DEF Stage
  <1>3. CASE fate[id] = "none" /\ place = "asked"
    <2>1. Delivery!Ask(id)
      BY <1>1, <1>2, <1>3 DEF Delivery!Ask, Delivery!Move, StageOf
    <2> QED BY <2>1 DEF Delivery!Next
  <1>4. CASE fate[id] = "asked" /\ place = "wire"
    <2>1. Delivery!Submit(id)
      BY <1>1, <1>2, <1>4 DEF Delivery!Submit, Delivery!Move, StageOf
    <2> QED BY <2>1 DEF Delivery!Next
  <1>5. CASE \/ fate[id] = "asked" /\ place = "dropped"
             \/ fate[id] = "wire" /\ place = "lost"
    <2>1. Delivery!Drop(id)
      BY <1>1, <1>2, <1>5 DEF Delivery!Drop, Delivery!Move, StageOf
    <2> QED BY <2>1 DEF Delivery!Next
  <1>6. CASE \/ fate[id] = "wire" /\ place = "escaped"
             \/ fate[id] = "crossing" /\ place = "sent"
    <2>1. Delivery!Send(id)
      BY <1>1, <1>2, <1>6 DEF Delivery!Send, Delivery!Move, StageOf
    <2> QED BY <2>1 DEF Delivery!Next
  <1>7. CASE fate[id] = "wire" /\ place = "crossing"
    <2>1. StageOf(place) = Stage[id]
      BY <1>2, <1>7 DEF StageOf
    <2>2. Stage' = Stage
      BY <1>1, <2>1 DEF Stage
    <2> QED BY <2>2
  <1> QED BY <1>3, <1>4, <1>5, <1>6, <1>7

\* Every step is one of FakeDelivery, or none.
LEMMA DeliveryStep ==
    ASSUME TypeOK, Inv, Step
    PROVE  [Delivery!Next]_Stage
  <1>1. ASSUME UNCHANGED fate PROVE [Delivery!Next]_Stage
    BY <1>1 DEF Stage
  <1>2. ASSUME NEW p \in Cpus, Emit(p) PROVE [Delivery!Next]_Stage
    <2>1. Busy(p) => cur[p] \in Ids
      BY DEF TypeOK, Inv, Owners, Ids
    <2>2. {"asked", "dropped", "wire"} \subseteq Places
      BY DEF Places
    <2>3. CASE Attempt(p)
      <3>1. seq + 1 \in Ids /\ seq + 1 > seq
        BY <2>3 DEF Attempt, TypeOK, Ids
      <3>2. fate[seq + 1] = "none"
        BY <3>1 DEF Inv, Fresh
      <3> QED BY <2>2, <2>3, <3>1, <3>2, StageStep DEF Attempt
    <2>4. ASSUME Place(cur[p], "dropped"), pc[p] \in {"insert", "clone", "build", "finish"}
          PROVE  [Delivery!Next]_Stage
      <3>1. fate[cur[p]] = "asked" /\ cur[p] \in Ids
        BY <2>1, <2>4 DEF Inv, Asked, Busy
      <3> QED BY <2>2, <2>4, <3>1, StageStep
    <2>5. CASE CloneFails(p) \/ Refuse(p) \/ Disown(p) \/ BuildFails(p) \/ Abandon(p)
               \/ MapFull(p)
      BY <2>4, <2>5
         DEF CloneFails, Refuse, Disown, BuildFails, Abandon, MapFull, Shot
    <2>6. CASE Submit(p)
      <3>1. fate[cur[p]] = "asked" /\ cur[p] \in Ids
        BY <2>1, <2>6 DEF Inv, Asked, Busy, Submit
      <3> QED BY <2>2, <2>6, <3>1, StageStep DEF Submit
    <2>7. CASE Observe(p) \/ Leave(p) \/ Insert(p) \/ Accept(p) \/ BuildSucceeds(p)
               \/ Lookup(p) \/ Settle(p) \/ EndOfBody(p)
      BY <1>1, <2>7
         DEF Observe, Leave, Insert, Accept, BuildSucceeds, Lookup, Settle, EndOfBody
    <2> QED BY <1>2, <2>3, <2>5, <2>6, <2>7 DEF Emit
  <1>3. ASSUME NEW id \in Ids, Cross(id) \/ Slips(id) PROVE [Delivery!Next]_Stage
    <2>1. {"crossing", "sent", "escaped", "lost"} \subseteq Places
      BY DEF Places
    <2>2. PassBy(id) => Depart(id, "lost")
      BY DEF PassBy, Unspent, Depart, Inv, Credentialed
    <2> QED BY <1>3, <2>1, <2>2, StageStep
            DEF Cross, Slips, Spend, Reclaim, Escape, Lose, Depart
  <1>4. CASE Tick \/ RenewLease \/ Stop \/ Forget \/ Attach \/ Lapsed
    BY <1>1, <1>4 DEF Tick, RenewLease, Stop, Forget, Attach, Lapsed
  <1> QED BY <1>1, <1>2, <1>3, <1>4 DEF Step, Next, vars

\* Every behaviour of the request protocol is a delivery of fakes as promised:
\* asked for once, submitted at most once, sent at most once, never anything
\* but a fake.
THEOREM DeliversFakes == Spec => DeliverySpec
  <1>1. Init => Delivery!Init
    BY DEF Init, Delivery!Init, Stage, StageOf
  <1>2. TypeOK /\ Inv /\ [Next]_vars => [Delivery!Next]_Stage
    BY DeliveryStep DEF Step
  <1> QED BY <1>1, <1>2, Inductive, PTL DEF Spec, DeliverySpec, Delivery!Spec

----------------------------------------------------------------------------
(* After the stop.                                                         *)

\* The lease is off for good, nothing was counted before, and a CPU that has
\* made its last request is not about to make another.
Stopped ==
    /\ stopping => until = 0
    /\ \A p \in Cpus : /\ ~stopping => late[p] = 0
                       /\ late[p] <= 1
                       /\ late[p] = 1 => pc[p] # "insert"

LEMMA StoppedInit == Init => Stopped
  BY DEF Init, Stopped

LEMMA StoppedStep ==
    ASSUME TypeOK, Stopped, Step
    PROVE  Stopped'
  <1> USE DEF world, lease, link, cpus, history, Goto
  <1>1. ASSUME UNCHANGED <<until, stopping, late>>,
               NEW p \in Cpus, NEW step \in Steps \ {"insert"}, pc' = [pc EXCEPT ![p] = step]
        PROVE  Stopped'
    BY <1>1 DEF Stopped, TypeOK
  <1>2. ASSUME UNCHANGED <<until, stopping, late, pc>> PROVE Stopped'
    BY <1>2 DEF Stopped
  <1>3. ASSUME NEW p \in Cpus, Emit(p) PROVE Stopped'
    <2>1. {"idle", "next", "clone", "build", "finish", "lookup", "settle", "booked"}
              \subseteq Steps \ {"insert"}
      BY DEF Steps
    <2>2. CASE Attempt(p)
      <3>1. ~stopping
        BY <2>2 DEF Attempt, MayAttempt, Alive, Stopped, TypeOK
      <3>2. \A q \in Cpus : late'[q] = 0
        BY <2>2, <3>1 DEF Attempt, Stopped
      <3> QED BY <2>2, <3>1, <3>2 DEF Attempt, Stopped
    <2>3. CASE Insert(p)
      <3>0. late[p] \in Nat /\ late[p] <= 1 /\ late[p] # 1
        BY <2>3 DEF Insert, Stopped, TypeOK
      <3>1. late[p] = 0
        BY <3>0
      <3>2. \A q \in Cpus : /\ pc'[q] = IF q = p THEN "clone" ELSE pc[q]
                            /\ late'[q] = IF q = p /\ stopping THEN 1 ELSE late[q]
        BY <2>3, <3>1 DEF Insert, TypeOK
      <3> QED BY <2>3, <3>2 DEF Insert, Stopped
    <2>4. CASE CloneFails(p) \/ Refuse(p) \/ Disown(p) \/ BuildFails(p) \/ Abandon(p)
      <3>1. UNCHANGED <<until, stopping, late>> /\ pc' = [pc EXCEPT ![p] = "lookup"]
        BY <2>4 DEF CloneFails, Refuse, Disown, BuildFails, Abandon, Shot
      <3> QED BY <1>1, <2>1, <3>1
    <2>5. CASE Observe(p) \/ Leave(p) \/ Accept(p) \/ BuildSucceeds(p) \/ Submit(p)
      BY <1>1, <2>1, <2>5 DEF Observe, Leave, Accept, BuildSucceeds, Submit
    <2>6. CASE MapFull(p) \/ Lookup(p) \/ Settle(p) \/ EndOfBody(p)
      BY <1>1, <2>1, <2>6 DEF MapFull, Lookup, Settle, EndOfBody, NextCopy
    <2> QED BY <1>3, <2>2, <2>3, <2>4, <2>5, <2>6 DEF Emit
  <1>4. ASSUME NEW id \in Ids, Cross(id) \/ Slips(id) PROVE Stopped'
    BY <1>2, <1>4 DEF Cross, Slips, Spend, Reclaim, PassBy, Escape, Lose, Depart
  <1>5. CASE Stop
    BY <1>5 DEF Stop, Stopped
  <1>6. CASE RenewLease
    BY <1>6 DEF RenewLease, Stopped
  <1>7. CASE Tick \/ Forget \/ Attach \/ Lapsed
    BY <1>2, <1>7 DEF Tick, Forget, Attach, Lapsed
  <1>8. CASE UNCHANGED vars
    BY <1>2, <1>8 DEF vars
  <1> QED BY <1>3, <1>4, <1>5, <1>6, <1>7, <1>8 DEF Step, Next

\* After the stop no CPU inserts more than the request it had already passed
\* the lease check for, so drain_requests() waits for finitely many.
THEOREM FewLastRequests == Spec => []LastRequests
  <1>1. Init => Stopped
    BY StoppedInit
  <1>2. TypeOK /\ Stopped /\ [Next]_vars => Stopped'
    BY StoppedStep DEF Step
  <1>3. Stopped => LastRequests
    BY DEF Stopped, LastRequests
  <1> QED BY <1>1, <1>2, <1>3, Inductive, PTL DEF Spec

----------------------------------------------------------------------------
(* What is booked as submitted.                                            *)

\* The builder has not handed over the clone of p's present request.
Unbuilt(p) ==
    \/ pc[p] \in {"clone", "build", "finish"}
    \/ pc[p] \in {"lookup", "settle"} /\ "build_ok" \notin tally[p]

\* Such a request is still in the map, as far as the builder got with it, and
\* its producer finds it.
Found(p) ==
    /\ requests[cur[p]].state \in {0, 1}
    /\ fate[cur[p]] \in {"asked", "dropped"}
    /\ pc[p] = "settle" => hit[p]

Booked == SubmitMeansBuilt /\ \A p \in Cpus : Unbuilt(p) => Found(p)

\* Another actor's step on another id leaves a producer's request alone.
LEMMA BookedElsewhere ==
    ASSUME TypeOK, Inv, Booked, NEW q \in Cpus,
           pc'[q] = pc[q], cur'[q] = cur[q], hit'[q] = hit[q], tally'[q] = tally[q],
           Busy(q) => /\ requests'[cur[q]] = requests[cur[q]]
                      /\ fate'[cur[q]] = fate[cur[q]]
    PROVE  (Unbuilt(q) => Found(q))' /\ ("submit_ok" \in tally'[q] => "build_ok" \in tally'[q])
  BY DEF Booked, SubmitMeansBuilt, Unbuilt, Found, Busy

\* A step of p that works on p's own id only.
LEMMA BookedOthers ==
    ASSUME TypeOK, Inv, Booked, NEW p \in Cpus,
           \A q \in Cpus : q # p =>
               /\ pc'[q] = pc[q] /\ cur'[q] = cur[q] /\ hit'[q] = hit[q] /\ tally'[q] = tally[q]
               /\ Busy(q) => /\ requests'[cur[q]] = requests[cur[q]]
                             /\ fate'[cur[q]] = fate[cur[q]],
           (Unbuilt(p) => Found(p))',
           "submit_ok" \in tally'[p] => "build_ok" \in tally'[p]
    PROVE  Booked'
  <1>1. \A q \in Cpus : q # p =>
            (Unbuilt(q) => Found(q))' /\ ("submit_ok" \in tally'[q] => "build_ok" \in tally'[q])
    BY BookedElsewhere
  <1> QED BY <1>1 DEF Booked, SubmitMeansBuilt


\* A clone that is shot before it was submitted.
LEMMA BookedShot ==
    ASSUME TypeOK, Inv, Booked, NEW p \in Cpus, Shot(p),
           pc[p] \in {"clone", "build", "finish"},
           UNCHANGED <<requests, cur, hit>>,
           NEW some \in SUBSET (Counters \ {"submit_ok"}),
           tally' = [tally EXCEPT ![p] = @ \cup some]
    PROVE  Booked'
  <1>1. \A q \in Cpus : Busy(q) => cur[q] \in Ids
    BY DEF TypeOK, Inv, Owners, Ids
  <1>2. Busy(p) /\ Unbuilt(p) /\ Found(p)
    BY DEF Busy, Unbuilt, Booked
  <1>3. \A id \in Ids : fate'[id] = IF id = cur[p] THEN "dropped" ELSE fate[id]
    BY DEF Shot, Place, TypeOK
  <1>4. \A q \in Cpus : pc'[q] = IF q = p THEN "lookup" ELSE pc[q]
    BY DEF Shot, Goto, TypeOK
  <1>5. \A q \in Cpus : q # p => tally'[q] = tally[q]
    BY Zenon DEF TypeOK
  <1>6. tally'[p] = tally[p] \cup some
    BY Zenon DEF TypeOK
  <1>7. "submit_ok" \in tally'[p] => "build_ok" \in tally'[p]
    BY <1>6, Zenon DEF Booked, SubmitMeansBuilt
  <1>8. \A q \in Cpus : q # p /\ Busy(q) => cur[q] # cur[p]
    BY <1>2 DEF Inv, Disjoint
  <1>9. (Unbuilt(p) => Found(p))'
    BY <1>1, <1>2, <1>3, <1>4 DEF Found
  <1>10. \A q \in Cpus : q # p => /\ pc'[q] = pc[q]
                                  /\ Busy(q) => fate'[cur[q]] = fate[cur[q]]
    BY <1>1, <1>3, <1>4, <1>8
  <1> QED BY <1>5, <1>7, <1>9, <1>10, BookedOthers

\* The next copy starts with no counter.
LEMMA BookedNext ==
    ASSUME TypeOK, Inv, Booked, NEW p \in Cpus, Busy(p), NextCopy(p), UNCHANGED <<requests, cur>>,
           \A id \in Ids : id # cur[p] => fate'[id] = fate[id]
    PROVE  Booked'
  <1>1. \A q \in Cpus : Busy(q) => cur[q] \in Ids
    BY DEF TypeOK, Inv, Owners, Ids
  <1>2. /\ pc'[p] = "next"
        /\ \A q \in Cpus : q # p => pc'[q] = pc[q] /\ hit'[q] = hit[q]
    BY DEF NextCopy, Goto, TypeOK
  <1>3. tally'[p] = {} /\ \A q \in Cpus : q # p => tally'[q] = tally[q]
    BY Zenon DEF NextCopy, TypeOK
  <1>4. \A q \in Cpus : q # p /\ Busy(q) => fate'[cur[q]] = fate[cur[q]]
    BY <1>1 DEF Inv, Disjoint
  <1>5. (Unbuilt(p) => Found(p))'
    BY <1>2 DEF Unbuilt
  <1>6. "submit_ok" \in tally'[p] => "build_ok" \in tally'[p]
    BY <1>3
  <1> QED BY <1>2, <1>3, <1>4, <1>5, <1>6, BookedOthers

LEMMA BookedEmit ==
    ASSUME TypeOK, Inv, Booked, NEW p \in Cpus, Emit(p)
    PROVE  Booked'
  <1>0. \A q \in Cpus : Busy(q) => cur[q] \in Ids
    BY DEF TypeOK, Inv, Owners, Ids
  <1> USE DEF world, lease, link, cpus, history, Goto, Place
  <1>1. "submit_ok" \in tally[p] => "build_ok" \in tally[p]
    BY DEF Booked, SubmitMeansBuilt
  <1>2. CASE Observe(p)
    <2>1. /\ UNCHANGED <<requests, fate, cur, hit, tally>>
          /\ \A q \in Cpus : pc'[q] = IF q = p THEN "next" ELSE pc[q]
      BY <1>2 DEF Observe, TypeOK
    <2> QED BY <1>1, <2>1, BookedOthers DEF Unbuilt
  <1>3. CASE Attempt(p)
    <2>1. /\ UNCHANGED <<requests, hit, tally>>
          /\ \A q \in Cpus : pc'[q] = IF q = p THEN "insert" ELSE pc[q]
          /\ \A q \in Cpus : q # p => cur'[q] = cur[q]
          /\ \A id \in Ids : id # seq + 1 => fate'[id] = fate[id]
      BY <1>3 DEF Attempt, TypeOK
    <2>2. \A q \in Cpus : Busy(q) => cur[q] # seq + 1
      BY DEF Inv, Owners, TypeOK
    <2> QED BY <1>0, <1>1, <2>1, <2>2, BookedOthers DEF Unbuilt
  <1>4. CASE Leave(p)
    <2>1. /\ UNCHANGED <<requests, fate, hit, tally>>
          /\ \A q \in Cpus : pc'[q] = IF q = p THEN "idle" ELSE pc[q]
          /\ \A q \in Cpus : q # p => cur'[q] = cur[q]
      BY <1>4 DEF Leave, TypeOK
    <2> QED BY <1>1, <2>1, BookedOthers DEF Unbuilt
  <1>5. CASE Insert(p)
    <2>1. Busy(p) /\ cur[p] \in Ids /\ fate[cur[p]] = "asked"
      BY <1>0, <1>5 DEF Insert, Busy, Inv, Asked
    <2>2. /\ UNCHANGED <<fate, cur, hit, tally>>
          /\ \A q \in Cpus : pc'[q] = IF q = p THEN "clone" ELSE pc[q]
          /\ \A id \in Ids : id # cur[p] => requests'[id] = requests[id]
          /\ requests'[cur[p]].state = 0
      BY <1>5, <2>1 DEF Insert, TypeOK
    <2>3. \A q \in Cpus : q # p /\ Busy(q) => cur[q] # cur[p]
      BY <2>1 DEF Inv, Disjoint
    <2> QED BY <1>0, <1>1, <2>1, <2>2, <2>3, BookedOthers DEF Found
  <1>6. CASE MapFull(p)
    <2>1. \A id \in Ids : id # cur[p] => fate'[id] = fate[id]
      BY <1>6 DEF MapFull, TypeOK
    <2> QED BY <1>6, <2>1, BookedNext DEF MapFull, Busy
  <1>7. CASE CloneFails(p) \/ Disown(p)
    <2>1. tally' = [tally EXCEPT ![p] = @ \cup {}]
      BY <1>7, Zenon DEF CloneFails, Disown, TypeOK
    <2>2. {} \in SUBSET (Counters \ {"submit_ok"})
      OBVIOUS
    <2>3. Shot(p) /\ pc[p] = "clone" /\ UNCHANGED <<requests, cur, hit>>
      BY <1>7 DEF CloneFails, Disown
    <2> QED BY <2>1, <2>2, <2>3, BookedShot
  <1>8. CASE Refuse(p)
    BY <1>8, BookedShot DEF Refuse, Count, Counters
  <1>9. CASE Accept(p)
    <2>1. Busy(p) /\ cur[p] \in Ids /\ fate[cur[p]] = "asked"
      BY <1>0, <1>9 DEF Accept, Busy, Inv, Asked
    <2>2. /\ UNCHANGED <<fate, cur, hit, tally>>
          /\ \A q \in Cpus : pc'[q] = IF q = p THEN "build" ELSE pc[q]
          /\ \A id \in Ids : id # cur[p] => requests'[id] = requests[id]
          /\ requests'[cur[p]].state = 1
      BY <1>9, <2>1 DEF Accept, TypeOK, Request
    <2>3. \A q \in Cpus : q # p /\ Busy(q) => cur[q] # cur[p]
      BY <2>1 DEF Inv, Disjoint
    <2> QED BY <1>0, <1>1, <2>1, <2>2, <2>3, BookedOthers DEF Found
  <1>10. CASE BuildFails(p)
    BY <1>10, BookedShot DEF BuildFails, Count, Counters
  <1>11. CASE BuildSucceeds(p)
    <2>1. Found(p)
      BY <1>11 DEF BuildSucceeds, Booked, Unbuilt
    <2>2. /\ UNCHANGED <<requests, fate, cur, hit, tally>>
          /\ \A q \in Cpus : pc'[q] = IF q = p THEN "finish" ELSE pc[q]
      BY <1>11 DEF BuildSucceeds, TypeOK
    <2> QED BY <1>1, <2>1, <2>2, BookedOthers DEF Found
  <1>12. CASE Submit(p)
    <2>1. Busy(p) /\ cur[p] \in Ids
      BY <1>0, <1>12 DEF Submit, Busy
    <2>2. /\ UNCHANGED <<cur, hit>>
          /\ \A q \in Cpus : pc'[q] = IF q = p THEN "lookup" ELSE pc[q]
          /\ \A id \in Ids : id # cur[p] => /\ requests'[id] = requests[id]
                                            /\ fate'[id] = fate[id]
      BY <1>12, <2>1 DEF Submit, TypeOK
    <2>3. "build_ok" \in tally'[p] /\ \A q \in Cpus : q # p => tally'[q] = tally[q]
      BY <1>12, Zenon DEF Submit, Count, TypeOK
    <2>4. \A q \in Cpus : q # p /\ Busy(q) => cur[q] # cur[p]
      BY <2>1 DEF Inv, Disjoint
    <2>5. (Unbuilt(p) => Found(p))'
      BY <2>2, <2>3 DEF Unbuilt
    <2> QED BY <1>0, <2>2, <2>3, <2>4, <2>5, BookedOthers
  <1>13. CASE Abandon(p)
    <2>1. \E some \in SUBSET (Counters \ {"submit_ok"}) : tally' = [tally EXCEPT ![p] = @ \cup some]
      <3>1. CASE reported
        <4>1. tally' = [tally EXCEPT ![p] = @ \cup {}]
          BY <1>13, <3>1, Zenon DEF Abandon, TypeOK
        <4> QED BY <4>1
      <3>2. CASE ~reported
        BY <1>13, <3>2 DEF Abandon, Count, Counters
      <3> QED BY <3>1, <3>2
    <2> QED BY <1>13, <2>1, BookedShot DEF Abandon
  <1>14. CASE Lookup(p)
    <2>1. Busy(p)
      BY <1>14 DEF Lookup, Busy
    <2>2. /\ UNCHANGED <<requests, fate, cur, tally>>
          /\ \A q \in Cpus : pc'[q] = IF q = p THEN "settle" ELSE pc[q]
          /\ \A q \in Cpus : q # p => hit'[q] = hit[q]
          /\ hit'[p] = (requests[cur[p]].state # Absent)
      BY <1>14 DEF Lookup, TypeOK
    <2>3. Unbuilt(p)' => Unbuilt(p)
      BY <1>14, <2>2 DEF Unbuilt, Lookup
    <2>4. ASSUME Unbuilt(p)' PROVE Found(p)'
      <3>1. requests[cur[p]].state \in {0, 1} /\ fate[cur[p]] \in {"asked", "dropped"}
        BY <2>3, <2>4 DEF Booked, Found
      <3>2. requests[cur[p]].state # Absent
        BY <3>1 DEF Absent
      <3>3. hit'[p]
        BY <2>2, <3>2, Zenon
      <3> QED BY <2>2, <3>1, <3>3 DEF Found
    <2> QED BY <1>1, <2>2, <2>4, BookedOthers
  <1>15. CASE Settle(p)
    <2>1. Busy(p) /\ cur[p] \in Ids
      BY <1>0, <1>15 DEF Settle, Busy
    <2>2. PICK state \in SeenStates(cur[p]) :
              /\ tally' = [tally EXCEPT ![p] = @ \cup Verdict(rc[p], hit[p], state)]
              /\ requests' = IF Kept(hit[p], state) THEN requests
                             ELSE [requests EXCEPT ![cur[p]] = NoRequest]
      BY <1>15 DEF Settle
    <2>3. /\ UNCHANGED <<fate, cur, hit>>
          /\ \A q \in Cpus : pc'[q] = IF q = p THEN "booked" ELSE pc[q]
      BY <1>15 DEF Settle, TypeOK
    <2>4. \A id \in Ids : id # cur[p] => requests'[id] = requests[id]
      BY <2>1, <2>2 DEF TypeOK
    <2>5. /\ tally'[p] = tally[p] \cup Verdict(rc[p], hit[p], state)
          /\ \A q \in Cpus : q # p => tally'[q] = tally[q]
      BY <2>2, Zenon DEF TypeOK
    <2>6. CASE "build_ok" \in tally[p]
      <3>1. "build_ok" \in tally'[p]
        BY <2>5, <2>6
      <3> QED BY <1>0, <2>1, <2>3, <2>4, <2>5, <3>1, BookedOthers DEF Inv, Disjoint, Unbuilt
    <2>7. CASE "build_ok" \notin tally[p]
      <3>1. hit[p] /\ requests[cur[p]].state \in {0, 1}
        BY <1>15, <2>7 DEF Settle, Booked, Unbuilt, Found
      <3>2. state \in {0, 1}
        BY <3>1 DEF SeenStates, Absent
      <3>3. "submit_ok" \notin Verdict(rc[p], hit[p], state)
        BY <3>1, <3>2 DEF Verdict, Submitted
      <3>4. "submit_ok" \notin tally'[p]
        BY <1>1, <2>5, <2>7, <3>3
      <3> QED BY <1>0, <2>1, <2>3, <2>4, <2>5, <3>4, BookedOthers DEF Inv, Disjoint, Unbuilt
    <2> QED BY <2>6, <2>7
  <1>16. CASE EndOfBody(p)
    BY <1>16, BookedNext DEF EndOfBody, Busy
  <1> QED
    BY <1>2, <1>3, <1>4, <1>5, <1>6, <1>7, <1>8, <1>9, <1>10, <1>11, <1>12, <1>13,
       <1>14, <1>15, <1>16 DEF Emit

LEMMA BookedInit == Init => Booked
  BY DEF Init, Booked, SubmitMeansBuilt, Unbuilt

LEMMA BookedStep ==
    ASSUME TypeOK, Inv, Booked, Step
    PROVE  Booked'
  <1>1. ASSUME UNCHANGED <<requests, fate, cpus>> PROVE Booked'
    BY <1>1 DEF Booked, SubmitMeansBuilt, Unbuilt, Found, cpus
  <1>2. ASSUME NEW p \in Cpus, Emit(p) PROVE Booked'
    BY <1>2, BookedEmit
  <1>3. ASSUME NEW id \in Ids, Cross(id) \/ Slips(id) PROVE Booked'
    <2>1. fate[id] \in {"wire", "crossing"} /\ UNCHANGED cpus
      BY <1>3 DEF Cross, Slips, Spend, Reclaim, PassBy, Escape, Lose, Depart
    <2>2. \A other \in Ids : other # id => /\ requests'[other] = requests[other]
                                           /\ fate'[other] = fate[other]
      BY <1>3 DEF Cross, Slips, Spend, Reclaim, PassBy, Escape, Lose, Depart, Place, TypeOK
    <2>3. \A p \in Cpus : Unbuilt(p) => cur[p] \in Ids /\ cur[p] # id
      <3>1. ASSUME NEW p \in Cpus, Unbuilt(p) PROVE cur[p] \in Ids
        <4>1. Busy(p)
          BY <3>1 DEF Unbuilt, Busy
        <4> QED BY <4>1 DEF Inv, Owners, TypeOK, Ids
      <3>2. ASSUME NEW p \in Cpus, Unbuilt(p) PROVE cur[p] # id
        BY <2>1, <3>2 DEF Booked, Found
      <3> QED BY <3>1, <3>2
    <2> QED BY <2>1, <2>2, <2>3 DEF Booked, SubmitMeansBuilt, Unbuilt, Found, cpus
  <1>4. CASE Tick \/ RenewLease \/ Stop \/ Forget \/ Attach \/ Lapsed
    BY <1>1, <1>4 DEF Tick, RenewLease, Stop, Forget, Attach, Lapsed, lease, link
  <1>5. CASE UNCHANGED vars
    BY <1>1, <1>5 DEF vars
  <1> QED BY <1>2, <1>3, <1>4, <1>5 DEF Step, Next

LEMMA BookedInductive == Spec => []Booked
  <1>1. Init => Booked
    BY BookedInit
  <1>2. TypeOK /\ Inv /\ Booked /\ [Next]_vars => Booked'
    BY BookedStep DEF Step
  <1> QED BY <1>1, <1>2, Inductive, PTL DEF Spec

\* What is counted as submitted was built and handed over: a producer whose
\* clone was not finds its own request, in the state the builder left it in.
THEOREM SubmittedMeansBuilt == Spec => []SubmitMeansBuilt
  <1>1. Booked => SubmitMeansBuilt
    BY DEF Booked
  <1> QED BY <1>1, BookedInductive, PTL


----------------------------------------------------------------------------
(* Forgotten interfaces.                                                   *)

\* The entry in interfaces, if there is one, has the latest generation.
Latest == ifgen \in {0, epoch}

\* CPUs and requests have generations of entries that there were.
Dated ==
    /\ \A p \in Cpus : pc[p] # "idle" => ctx[p].ifgen \in 1 .. epoch
    /\ \A id \in Ids : requests[id].state # Absent => requests[id].ifgen \in 1 .. epoch

\* A fake that was under way when its interface was forgotten is not of the
\* generation there is now, nor is the request that is still to be made for it.
Outdated ==
    /\ \A id \in doomed : /\ id <= seq
                          /\ requests[id].state # Absent => requests[id].ifgen # ifgen
    /\ \A p \in Cpus : pc[p] = "insert" /\ cur[p] \in doomed => ctx[p].ifgen # ifgen

Generations == Latest /\ Dated /\ Outdated

\* Steps that keep the generations and only move CPUs on, change the states of
\* requests or delete them.
LEMMA GenerationsStay ==
    ASSUME TypeOK, Generations, UNCHANGED <<ifgen, epoch, doomed, ctx, seq, cur>>,
           \A id \in Ids : \/ requests'[id].state = Absent
                           \/ /\ requests[id].state # Absent
                              /\ requests'[id].ifgen = requests[id].ifgen,
           \A q \in Cpus : /\ pc'[q] # "idle" => pc[q] # "idle"
                           /\ pc'[q] = "insert" => pc[q] = "insert"
    PROVE  Generations'
  BY DEF Generations, Latest, Dated, Outdated, TypeOK

LEMMA GenerationsEmit ==
    ASSUME TypeOK, Inv, Booked, Generations, NEW p \in Cpus, Emit(p)
    PROVE  Generations'
  <1>0. \A q \in Cpus : Busy(q) => cur[q] \in Ids
    BY DEF TypeOK, Inv, Owners, Ids
  <1>1. \A id \in Ids : requests[id] \in Request
    BY DEF TypeOK
  <1> USE DEF world, lease, link, cpus, history, Goto
  <1>2. CASE Observe(p)
    <2>1. /\ UNCHANGED <<ifgen, epoch, doomed, seq, cur, requests>>
          /\ \A q \in Cpus : pc'[q] = IF q = p THEN "next" ELSE pc[q]
          /\ \A q \in Cpus : ctx'[q] = IF q = p THEN [now |-> clock, ifgen |-> ifgen] ELSE ctx[q]
          /\ ifgen # 0
      BY <1>2 DEF Observe, TypeOK
    <2>2. ifgen \in 1 .. epoch
      BY <2>1 DEF Generations, Latest, TypeOK
    <2> QED BY <2>1, <2>2 DEF Generations, Latest, Dated, Outdated
  <1>3. CASE Attempt(p)
    <2>1. /\ UNCHANGED <<ifgen, epoch, doomed, ctx, requests>>
          /\ pc[p] = "next"
          /\ \A q \in Cpus : pc'[q] = IF q = p THEN "insert" ELSE pc[q]
          /\ \A q \in Cpus : cur'[q] = IF q = p THEN seq + 1 ELSE cur[q]
          /\ seq' = seq + 1 /\ seq \in Nat /\ doomed \subseteq Nat
      BY <1>3 DEF Attempt, TypeOK, Ids
    <2>2. seq + 1 \notin doomed /\ \A id \in doomed : id <= seq'
      BY <2>1 DEF Generations, Outdated
    <2> QED BY <2>1, <2>2 DEF Generations, Latest, Dated, Outdated
  <1>4. CASE Leave(p)
    <2>1. /\ UNCHANGED <<ifgen, epoch, doomed, seq, requests>>
          /\ \A q \in Cpus : pc'[q] = IF q = p THEN "idle" ELSE pc[q]
          /\ \A q \in Cpus : q # p => cur'[q] = cur[q] /\ ctx'[q] = ctx[q]
      BY <1>4 DEF Leave, TypeOK
    <2> QED BY <2>1 DEF Generations, Latest, Dated, Outdated
  <1>5. CASE Insert(p)
    <2>1. /\ UNCHANGED <<ifgen, epoch, doomed, ctx, seq, cur>>
          /\ pc[p] = "insert"
          /\ \A q \in Cpus : pc'[q] = IF q = p THEN "clone" ELSE pc[q]
      BY <1>5 DEF Insert, TypeOK
    <2>2. cur[p] \in Ids
      BY <1>0, <2>1 DEF Busy
    <2>3. \A id \in Ids : IF id = cur[p] THEN requests'[id].ifgen = ctx[p].ifgen
                                         ELSE requests'[id] = requests[id]
      BY <1>5, <2>2 DEF Insert, TypeOK
    <2>4. ctx[p].ifgen \in 1 .. epoch
      BY <2>1 DEF Generations, Dated
    <2>5. Latest' /\ Dated'
      BY <2>1, <2>3, <2>4 DEF Generations, Latest, Dated
    <2>6. Outdated'
      BY <2>1, <2>3 DEF Generations, Outdated, TypeOK
    <2> QED BY <2>5, <2>6 DEF Generations
  <1>6. CASE Settle(p)
    <2>1. cur[p] \in Ids
      BY <1>0, <1>6 DEF Settle, Busy
    <2>2. \A id \in Ids : requests'[id] \in {requests[id], NoRequest}
      BY <1>6, <2>1 DEF Settle, TypeOK
    <2>3. \A q \in Cpus : pc'[q] = IF q = p THEN "booked" ELSE pc[q]
      BY <1>6 DEF Settle, TypeOK
    <2>4. pc[p] = "settle" /\ UNCHANGED <<ifgen, epoch, doomed, ctx, seq, cur>>
      BY <1>6 DEF Settle
    <2> QED BY <2>2, <2>3, <2>4, GenerationsStay DEF NoRequest
  <1>7. CASE Accept(p) \/ Submit(p)
    <2>1. Busy(p) /\ cur[p] \in Ids
      BY <1>0, <1>7 DEF Accept, Submit, Busy
    <2>2. requests[cur[p]].state # Absent
      <3>1. CASE Accept(p)
        BY <3>1 DEF Accept, Absent
      <3>2. CASE Submit(p)
        BY <3>2 DEF Submit, Booked, Unbuilt, Found, Absent
      <3> QED BY <1>7, <3>1, <3>2
    <2>3. \A id \in Ids : IF id = cur[p] THEN requests'[id].ifgen = requests[id].ifgen
                                         ELSE requests'[id] = requests[id]
      BY <1>1, <1>7, <2>1 DEF Accept, Submit, TypeOK, Request
    <2>4. /\ \A q \in Cpus : q # p => pc'[q] = pc[q]
          /\ pc[p] # "idle" /\ pc'[p] # "insert"
          /\ UNCHANGED <<ifgen, epoch, doomed, ctx, seq, cur>>
      BY <1>7 DEF Accept, Submit, TypeOK
    <2> QED BY <2>2, <2>3, <2>4, GenerationsStay
  <1>8. CASE \/ MapFull(p) \/ CloneFails(p) \/ Refuse(p) \/ Disown(p) \/ BuildFails(p)
             \/ BuildSucceeds(p) \/ Abandon(p) \/ Lookup(p) \/ EndOfBody(p)
    <2>1. UNCHANGED <<ifgen, epoch, doomed, ctx, seq, cur, requests>> /\ pc[p] # "idle"
      BY <1>8 DEF MapFull, CloneFails, Refuse, Disown, BuildFails, BuildSucceeds, Abandon,
                  Lookup, EndOfBody
    <2>2. \E step \in {"next", "lookup", "finish", "settle"} : pc' = [pc EXCEPT ![p] = step]
      BY <1>8 DEF MapFull, CloneFails, Refuse, Disown, BuildFails, BuildSucceeds, Abandon,
                  Lookup, EndOfBody, NextCopy, Shot
    <2>3. \A q \in Cpus : /\ pc'[q] # "idle" => pc[q] # "idle"
                          /\ pc'[q] = "insert" => pc[q] = "insert"
      BY <2>1, <2>2 DEF TypeOK
    <2> QED BY <2>1, <2>3, GenerationsStay
  <1> QED BY <1>2, <1>3, <1>4, <1>5, <1>6, <1>7, <1>8 DEF Emit


LEMMA GenerationsInit == Init => Generations
  <1> SUFFICES ASSUME Init PROVE Generations
    OBVIOUS
  <1>1. ifgen = 1 /\ epoch = 1 /\ doomed = {} /\ \A p \in Cpus : pc[p] = "idle"
    BY DEF Init
  <1>2. \A id \in Ids : requests[id].state = Absent
    BY DEF Init, NoRequest
  <1> QED BY <1>1, <1>2 DEF Generations, Latest, Dated, Outdated

LEMMA GenerationsStep ==
    ASSUME TypeOK, Inv, Booked, Generations, Step
    PROVE  Generations'
  <1>1. ASSUME UNCHANGED <<link, seq, requests, cpus, doomed>> PROVE Generations'
    BY <1>1 DEF Generations, Latest, Dated, Outdated, link, cpus
  <1>2. ASSUME NEW p \in Cpus, Emit(p) PROVE Generations'
    BY <1>2, GenerationsEmit
  <1>3. ASSUME NEW id \in Ids, Cross(id) \/ Slips(id) PROVE Generations'
    <2>1. UNCHANGED <<ifgen, epoch, doomed, ctx, seq, cur, pc>>
      BY <1>3 DEF Cross, Slips, Spend, Reclaim, PassBy, Escape, Lose, Depart, world, link, cpus, history
    <2>2. CASE Spend(id)
      <3>1. requests[id] \in Request /\ requests[id].state = 2
        BY <2>2 DEF Spend, TypeOK
      <3>2. requests'[id].ifgen = requests[id].ifgen
            /\ \A other \in Ids : other # id => requests'[other] = requests[other]
        BY <2>2, <3>1 DEF Spend, TypeOK, Request
      <3> QED BY <2>1, <3>1, <3>2, GenerationsStay DEF Absent
    <2>3. CASE Reclaim(id)
      <3>1. \A other \in Ids : requests'[other] \in {requests[other], NoRequest}
        BY <2>3 DEF Reclaim, TypeOK
      <3> QED BY <2>1, <3>1, GenerationsStay DEF NoRequest
    <2>4. CASE UNCHANGED requests
      BY <2>1, <2>4, GenerationsStay
    <2> QED BY <1>3, <2>2, <2>3, <2>4, CrossMoves DEF Moves, Depart
  <1>4. CASE Forget
    <2>1. /\ ifgen' = 0 /\ ifgen # 0
          /\ doomed' = doomed \cup {id \in Ids : fate[id] \in {"asked", "wire"}}
          /\ UNCHANGED <<epoch, seq, requests, pc, cur, ctx>>
      BY <1>4 DEF Forget, cpus
    <2>2. \A id \in Ids : fate[id] # "none" => id <= seq
      BY DEF Inv, Fresh, TypeOK, Ids
    <2>3. \A id \in doomed' : id <= seq
      BY <2>1, <2>2 DEF Generations, Outdated
    <2>4. \A id \in doomed' : id \in Ids
      BY <2>1 DEF TypeOK
    <2> QED BY <2>1, <2>3, <2>4 DEF Generations, Latest, Dated, Outdated
  <1>5. CASE Attach
    <2>1. /\ ifgen' = epoch + 1 /\ epoch' = epoch + 1 /\ epoch \in Nat
          /\ UNCHANGED <<doomed, seq, requests, pc, cur, ctx>>
      BY <1>5 DEF Attach, TypeOK, cpus, history
    <2>2. Latest' /\ Dated'
      BY <2>1 DEF Generations, Latest, Dated
    <2>3. Outdated'
      BY <2>1 DEF Generations, Dated, Outdated, TypeOK
    <2> QED BY <2>2, <2>3 DEF Generations
  <1>6. CASE Tick \/ RenewLease \/ Stop \/ Lapsed
    BY <1>1, <1>6 DEF Tick, RenewLease, Stop, Lapsed, history
  <1>7. CASE UNCHANGED vars
    BY <1>1, <1>7 DEF vars, world, history
  <1> QED BY <1>2, <1>3, <1>4, <1>5, <1>6, <1>7 DEF Step, Next

LEMMA GenerationsInductive == Spec => []Generations
  <1>1. Init => Generations
    BY GenerationsInit
  <1>2. TypeOK /\ Inv /\ Booked /\ Generations /\ [Next]_vars => Generations'
    BY GenerationsStep DEF Step
  <1> QED BY <1>1, <1>2, Inductive, BookedInductive, PTL DEF Spec

\* The request of a forgotten fake is of an older generation.
LEMMA ForgottenStep ==
    ASSUME TypeOK, Inv, Generations, Step, NEW id \in doomed, fate'[id] = "crossing"
    PROVE  fate[id] = "crossing"
  <1>1. id \in Ids
    BY DEF TypeOK
  <1>2. ASSUME NEW other \in Ids, NEW place \in Places \ {"crossing"}, Place(other, place)
        PROVE  fate[id] = "crossing"
    BY <1>1, <1>2 DEF Place, TypeOK
  <1>3. ASSUME NEW p \in Cpus, Emit(p) PROVE fate[id] = "crossing"
    <2>1. Busy(p) => cur[p] \in Ids
      BY DEF TypeOK, Inv, Owners, Ids
    <2>2. {"asked", "dropped", "wire"} \subseteq Places \ {"crossing"}
      BY DEF Places
    <2>3. CASE Attempt(p)
      <3>1. seq + 1 \in Ids
        BY <2>3 DEF Attempt, TypeOK, Ids
      <3> QED BY <1>2, <2>2, <2>3, <3>1 DEF Attempt
    <2>4. CASE CloneFails(p) \/ Refuse(p) \/ Disown(p) \/ BuildFails(p) \/ Abandon(p)
               \/ MapFull(p)
      <3>1. Place(cur[p], "dropped") /\ Busy(p)
        BY <2>4 DEF CloneFails, Refuse, Disown, BuildFails, Abandon, MapFull, Shot, Busy
      <3> QED BY <1>2, <2>1, <2>2, <3>1
    <2>5. CASE Submit(p)
      BY <1>2, <2>1, <2>2, <2>5 DEF Submit, Busy
    <2>6. CASE Observe(p) \/ Leave(p) \/ Insert(p) \/ Accept(p) \/ BuildSucceeds(p)
               \/ Lookup(p) \/ Settle(p) \/ EndOfBody(p)
      BY <2>6 DEF Observe, Leave, Insert, Accept, BuildSucceeds, Lookup, Settle, EndOfBody
    <2> QED BY <1>3, <2>3, <2>4, <2>5, <2>6 DEF Emit
  <1>4. ASSUME NEW other \in Ids, Cross(other) \/ Slips(other) PROVE fate[id] = "crossing"
    <2>1. {"sent", "escaped", "lost", "reobserved"} \subseteq Places \ {"crossing"}
      BY DEF Places
    <2>2. CASE Spend(other)
      <3>1. other # id
        BY <2>2 DEF Spend, SameInterface, Generations, Outdated, Absent
      <3> QED BY <1>1, <2>2, <3>1 DEF Spend, Place, TypeOK
    <2>3. CASE Reclaim(other)
      BY <1>2, <2>1, <2>3 DEF Reclaim
    <2>4. CASE \E place \in {"lost", "escaped", "reobserved"} : Depart(other, place)
      BY <1>2, <2>1, <2>4 DEF Depart
    <2> QED BY <1>4, <2>2, <2>3, <2>4, CrossMoves DEF Moves
  <1>5. CASE Tick \/ RenewLease \/ Stop \/ Forget \/ Attach \/ Lapsed
    BY <1>5 DEF Tick, RenewLease, Stop, Forget, Attach, Lapsed
  <1> QED BY <1>3, <1>4, <1>5 DEF Step, Next, vars

\* A fake that was under way when its interface was forgotten does not cross
\* ff_egress of a later one: its request has the old generation, and the
\* generations only grow.
THEOREM ForgottenNeverCross == Spec => ForgottenStayForgotten
  <1>1. TypeOK /\ Inv /\ Generations /\ [Next]_vars
        => [\A id \in doomed : fate'[id] = "crossing" => fate[id] = "crossing"]_vars
    BY ForgottenStep DEF Step
  <1> QED BY <1>1, Inductive, GenerationsInductive, PTL DEF Spec, ForgottenStayForgotten

----------------------------------------------------------------------------
(* The end of the daemon, for any number of looks.                         *)

\* What holds of the datapath at every moment, the hooks attached or not.
Datapaths == TypeOK /\ Inv /\ NoReinjection /\ Stopped /\ Booked /\ Generations

\* The daemon's own variables.
DaemonType ==
    /\ polls \in Nat
    /\ empty \in Nat
    /\ pausing \in BOOLEAN
    /\ detached \in BOOLEAN

\* The daemon drains after the stop only, and looks before it wakes.
DrainsLate == (polls > 0 \/ empty > 0 \/ pausing \/ detached) => stopping
Counted == empty <= polls

\* Once a look has found the map empty, no clone has a credential and every
\* request was made by a CPU that had passed its lease check before the stop;
\* the builder refuses it, and its producer takes it back.
Expiring == \A id \in Live :
    \E p \in Cpus : cur[p] = id /\ pc[p] \in {"clone", "lookup", "settle"} /\ requests[id].state = 0
Emptied ==
    (empty > 0 /\ ~detached) =>
        /\ \A id \in Ids : fate[id] # "wire"
        /\ \A p \in Cpus : pc[p] \notin {"build", "finish"}
        /\ Expiring

\* The second pause is longer than any hook.
Waited == (polls >= 2 /\ ~pausing /\ ~detached) => Quiet

DrainInv == DaemonType /\ DrainsLate /\ Counted /\ Emptied /\ Waited

USE ShutdownAssumption

----------------------------------------------------------------------------
\* A step of Shutdown is one of the datapath, a clone that slips, or the
\* daemon's, which leaves the datapath alone.
LEMMA ShutdownSteps == ASSUME [ShutdownNext]_shutdownVars
                       PROVE  Step
  BY DEF ShutdownNext, Datapath, Poll, Wake, Detach, Slip, shutdownVars, Step, Slips

LEMMA DatapathsStep ==
    ASSUME Datapaths, [ShutdownNext]_shutdownVars
    PROVE  Datapaths'
  BY ShutdownSteps, InvStep, NoReinjectionStep, StoppedStep, BookedStep, GenerationsStep
     DEF Datapaths

LEMMA DatapathsInductive == ShutdownSpec => []Datapaths
  <1>1. ShutdownInit => Datapaths
    <2> SUFFICES ASSUME Init PROVE Datapaths
      BY DEF ShutdownInit
    <2>1. NoReinjection
      BY DEF Init, NoReinjection
    <2> QED BY <2>1, InvInit, StoppedInit, BookedInit, GenerationsInit DEF Datapaths
  <1>2. Datapaths /\ [ShutdownNext]_shutdownVars => Datapaths'
    BY DatapathsStep
  <1> QED BY <1>1, <1>2, PTL DEF ShutdownSpec

\* The promises of Injection outlive the stop: no fake is taken for traffic,
\* what is counted as submitted was built, a CPU makes at most one request
\* after the stop, and clones that leave when the hooks are gone are still
\* delivered once, as FakeDelivery has it.
THEOREM PromisesOutliveTheStop ==
    ShutdownSpec => /\ []NoReinjection
                    /\ []SubmitMeansBuilt
                    /\ []LastRequests
                    /\ ForgottenStayForgotten
                    /\ DeliverySpec
  <1>1. Datapaths => NoReinjection /\ SubmitMeansBuilt /\ LastRequests
    BY DEF Datapaths, Booked, Stopped, LastRequests
  <1>2. Datapaths /\ [ShutdownNext]_shutdownVars
        => [\A id \in doomed : fate'[id] = "crossing" => fate[id] = "crossing"]_vars
    BY ShutdownSteps, ForgottenStep DEF Datapaths
  <1>3. ShutdownInit => Delivery!Init
    BY DEF ShutdownInit, Init, Delivery!Init, Stage, StageOf
  <1>4. Datapaths /\ [ShutdownNext]_shutdownVars => [Delivery!Next]_Stage
    BY ShutdownSteps, DeliveryStep DEF Datapaths
  <1> QED BY <1>1, <1>2, <1>3, <1>4, DatapathsInductive, PTL
          DEF ShutdownSpec, ForgottenStayForgotten, DeliverySpec, Delivery!Spec

----------------------------------------------------------------------------
(* The drain.                                                              *)

\* Nothing of the datapath can undo what a look at an empty map has shown.
LEMMA EmptiedEmit ==
    ASSUME Datapaths, stopping, ~detached, empty > 0, Emptied,
           NEW p \in Cpus, Emit(p), UNCHANGED daemon
    PROVE  Emptied'
  <1>0. /\ ~Alive
        /\ \A q \in Cpus : Busy(q) => cur[q] \in Ids
        /\ \A q, r \in Cpus : q # r /\ Busy(q) /\ Busy(r) => cur[q] # cur[r]
        /\ \A q \in Cpus : pc[q] \in {"insert", "clone"} => fate[cur[q]] = "asked"
        /\ \A id \in Ids : requests[id] \in Request
    BY DEF Datapaths, Stopped, Alive, Inv, Owners, Disjoint, Asked, TypeOK, Ids
  <1>1. /\ \A id \in Ids : fate[id] # "wire"
        /\ \A q \in Cpus : pc[q] \notin {"build", "finish"}
        /\ Expiring
    BY DEF Emptied
  <1> SUFFICES ASSUME TRUE
               PROVE  /\ \A id \in Ids : fate'[id] # "wire"
                      /\ \A q \in Cpus : pc'[q] \notin {"build", "finish"}
                      /\ Expiring'
    BY DEF Emptied
  <1> USE DEF world, lease, link, cpus, history, Goto, Place
  <1>2. ASSUME NEW step \in {"idle", "next", "insert", "clone", "lookup", "settle", "booked"},
               pc' = [pc EXCEPT ![p] = step]
        PROVE  /\ \A q \in Cpus : pc'[q] = IF q = p THEN step ELSE pc[q]
               /\ \A q \in Cpus : pc'[q] \notin {"build", "finish"}
    BY <1>1, <1>2 DEF Datapaths, TypeOK
  \* A CPU that goes on from its clone keeps its request, if it has one.
  <1>3. ASSUME UNCHANGED <<requests, cur>>, \A q \in Cpus : q # p => pc'[q] = pc[q],
               pc[p] \in {"clone", "lookup"} => pc'[p] \in {"lookup", "settle"},
               pc[p] # "settle"
        PROVE  Expiring'
    BY <1>1, <1>3 DEF Expiring, Live
  <1>4. CASE Observe(p) \/ Attempt(p)
    BY <1>0, <1>4 DEF Observe, Attempt, MayAttempt
  <1>5. CASE Leave(p)
    <2>1. pc' = [pc EXCEPT ![p] = "idle"] /\ pc[p] = "next"
          /\ UNCHANGED <<requests, fate>> /\ \A q \in Cpus : q # p => cur'[q] = cur[q]
      BY <1>5 DEF Leave, Datapaths, TypeOK
    <2> QED BY <1>1, <1>2, <2>1 DEF Expiring, Live
  <1>6. CASE Insert(p)
    <2>1. /\ pc' = [pc EXCEPT ![p] = "clone"] /\ pc[p] = "insert" /\ UNCHANGED <<fate, cur>>
          /\ \A id \in Ids : id # cur[p] => requests'[id] = requests[id]
          /\ requests'[cur[p]].state = 0
      BY <1>0, <1>6 DEF Insert, Datapaths, TypeOK, Busy
    <2>2. \A q \in Cpus : pc'[q] = IF q = p THEN "clone" ELSE pc[q]
      BY <1>2, <2>1
    <2> QED BY <1>1, <1>2, <2>1, <2>2 DEF Expiring, Live
  <1>7. CASE MapFull(p)
    <2>1. pc' = [pc EXCEPT ![p] = "next"] /\ pc[p] = "insert" /\ UNCHANGED <<requests, cur>>
      BY <1>7 DEF MapFull, NextCopy
    <2>2. \A id \in Ids : fate'[id] # "wire"
      BY <1>1, <1>7 DEF MapFull, Datapaths, TypeOK
    <2> QED BY <1>2, <1>3, <2>1, <2>2
  <1>8. CASE CloneFails(p) \/ Refuse(p) \/ Disown(p) \/ BuildFails(p) \/ Abandon(p)
    <2>1. Shot(p) /\ pc[p] = "clone" /\ UNCHANGED <<requests, cur>>
      BY <1>1, <1>8 DEF CloneFails, Refuse, Disown, BuildFails, Abandon
    <2>2. pc' = [pc EXCEPT ![p] = "lookup"] /\ fate' = [fate EXCEPT ![cur[p]] = "dropped"]
      BY <2>1 DEF Shot
    <2>3. \A id \in Ids : fate'[id] # "wire"
      BY <1>1, <2>2 DEF Datapaths, TypeOK
    <2> QED BY <1>2, <1>3, <2>1, <2>2, <2>3
  <1>9. CASE Accept(p) \/ BuildSucceeds(p) \/ Submit(p)
    BY <1>0, <1>1, <1>9 DEF Accept, BuildSucceeds, Submit
  <1>10. CASE Lookup(p)
    <2>1. pc' = [pc EXCEPT ![p] = "settle"] /\ pc[p] = "lookup" /\ UNCHANGED <<requests, fate, cur>>
      BY <1>10 DEF Lookup
    <2> QED BY <1>1, <1>2, <1>3, <2>1
  <1>11. CASE Settle(p)
    <2>1. pc' = [pc EXCEPT ![p] = "booked"] /\ pc[p] = "settle" /\ UNCHANGED <<fate, cur>>
      BY <1>11 DEF Settle
    <2>2. cur[p] \in Ids
      BY <1>0, <2>1 DEF Busy
    <2>3. \A id \in Ids : id # cur[p] => requests'[id] = requests[id]
      BY <1>11, <2>2 DEF Settle, Datapaths, TypeOK
    <2>4. requests'[cur[p]].state = Absent
      <3>1. PICK state \in SeenStates(cur[p]) :
                requests' = IF Kept(hit[p], state) THEN requests
                            ELSE [requests EXCEPT ![cur[p]] = NoRequest]
        BY <1>11 DEF Settle
      <3>2. CASE requests[cur[p]].state = Absent
        BY <2>2, <3>1, <3>2 DEF Datapaths, TypeOK, NoRequest
      <3>3. CASE requests[cur[p]].state # Absent
        <4>1. requests[cur[p]].state = 0
          BY <1>1, <2>2, <3>3 DEF Expiring, Live
        <4>2. state = 0
          BY <3>3, <4>1 DEF SeenStates
        <4>3. requests' = [requests EXCEPT ![cur[p]] = NoRequest]
          BY <3>1, <4>2 DEF Kept
        <4> QED BY <2>2, <4>3 DEF Datapaths, TypeOK, NoRequest
      <3> QED BY <3>2, <3>3
    <2>5. \A q \in Cpus : pc'[q] = IF q = p THEN "booked" ELSE pc[q]
      BY <1>2, <2>1
    <2>6. Expiring'
      BY <1>1, <2>1, <2>3, <2>4, <2>5 DEF Expiring, Live
    <2> QED BY <1>1, <1>2, <2>1, <2>6
  <1>12. CASE EndOfBody(p)
    <2>1. pc' = [pc EXCEPT ![p] = "next"] /\ pc[p] = "booked" /\ UNCHANGED <<requests, fate, cur>>
      BY <1>12 DEF EndOfBody, NextCopy
    <2> QED BY <1>1, <1>2, <1>3, <2>1
  <1> QED
    BY <1>4, <1>5, <1>6, <1>7, <1>8, <1>9, <1>10, <1>11, <1>12 DEF Emit

\* Nor can a clone: there is none on the wire, and one that is crossing only
\* gives its request back.
LEMMA EmptiedCross ==
    ASSUME Datapaths, Emptied, empty > 0, ~detached,
           NEW id \in Ids, Cross(id), UNCHANGED daemon
    PROVE  Emptied'
  <1>1. fate[id] # "wire"
    BY DEF Emptied
  <1>2. Reclaim(id)
    BY <1>1 DEF Cross, Spend, PassBy, Escape, Lose, Depart
  <1>3. /\ UNCHANGED <<pc, cur>>
        /\ \A other \in Ids : requests'[other] \in {requests[other], NoRequest}
        /\ \A other \in Ids : fate'[other] \in {fate[other], "sent"}
    BY <1>2 DEF Reclaim, Place, cpus, Datapaths, TypeOK
  <1>4. \A other \in Ids : requests'[other].state # Absent => requests'[other] = requests[other]
    BY <1>3 DEF NoRequest
  <1>5. Live' \subseteq Live
    BY <1>4 DEF Live
  <1>6. Expiring'
    BY <1>3, <1>4, <1>5 DEF Emptied, Expiring, Live
  <1> QED BY <1>3, <1>6 DEF Emptied

\* No CPU gets into emit() after the stop.
LEMMA QuietStays ==
    ASSUME Datapaths, stopping, Quiet, Next
    PROVE  Quiet'
  <1>1. ~Alive
    BY DEF Datapaths, Stopped, Alive, TypeOK
  <1>2. ASSUME NEW p \in Cpus, Emit(p) PROVE FALSE
    BY <1>1, <1>2 DEF Quiet, Emit, Observe, Attempt, Leave, Insert, MapFull, CloneFails, Refuse,
                      Disown, Accept, BuildFails, BuildSucceeds, Submit, Abandon, Lookup, Settle,
                      EndOfBody
  <1>3. UNCHANGED pc
    BY <1>2 DEF Next, Tick, RenewLease, Stop, Forget, Attach, Lapsed, Cross, Spend, Reclaim,
                PassBy, Escape, Lose, Depart, cpus
  <1> QED BY <1>3 DEF Quiet

LEMMA DatapathDrains ==
    ASSUME Datapaths, DrainInv, Datapath
    PROVE  DrainInv'
  <1>1. ~detached /\ Next /\ UNCHANGED <<polls, empty, pausing, detached>>
    BY DEF Datapath, daemon
  <1>2. stopping => stopping'
    BY <1>1 DEF Next, Tick, RenewLease, Stop, Forget, Attach, Lapsed, Emit, Observe, Attempt, Leave,
                Insert, MapFull, CloneFails, Refuse, Disown, Accept, BuildFails, BuildSucceeds,
                Submit, Abandon, Lookup, Settle, EndOfBody, Cross, Spend, Reclaim, PassBy, Escape,
                Lose, Depart, world, lease, link
  <1>3. DaemonType' /\ DrainsLate' /\ Counted'
    BY <1>1, <1>2 DEF DrainInv, DaemonType, DrainsLate, Counted
  <1>4. Emptied'
    <2>1. CASE ~(empty > 0)
      BY <1>1, <2>1 DEF Emptied
    <2>2. CASE empty > 0
      <3>1. stopping
        BY <2>2 DEF DrainInv, DrainsLate
      <3>2. ASSUME NEW p \in Cpus, Emit(p) PROVE Emptied'
        BY <1>1, <2>2, <3>1, <3>2, EmptiedEmit DEF DrainInv, daemon
      <3>3. ASSUME NEW id \in Ids, Cross(id) PROVE Emptied'
        BY <1>1, <2>2, <3>3, EmptiedCross DEF DrainInv, daemon
      <3>4. CASE Tick \/ RenewLease \/ Stop \/ Forget \/ Attach \/ Lapsed
        <4>1. UNCHANGED <<requests, fate, pc, cur>>
          BY <3>4 DEF Tick, RenewLease, Stop, Forget, Attach, Lapsed, cpus
        <4> QED BY <1>1, <4>1 DEF DrainInv, Emptied, Expiring, Live
      <3> QED BY <1>1, <3>2, <3>3, <3>4 DEF Next
    <2> QED BY <2>1, <2>2
  <1>5. Waited'
    <2>1. polls > 0 => stopping
      BY DEF DrainInv, DrainsLate
    <2>2. CASE polls >= 2 /\ ~pausing
      BY <1>1, <2>1, <2>2, QuietStays DEF DrainInv, DaemonType, Waited
    <2>3. CASE ~(polls >= 2 /\ ~pausing)
      BY <1>1, <2>3 DEF Waited
    <2> QED BY <2>2, <2>3
  <1> QED BY <1>3, <1>4, <1>5 DEF DrainInv

LEMMA DrainInductive == ShutdownSpec => []DrainInv
  <1>1. ShutdownInit => DrainInv
    <2> SUFFICES ASSUME ShutdownInit PROVE DrainInv
      OBVIOUS
    <2>1. polls = 0 /\ empty = 0 /\ ~pausing /\ ~detached
          /\ pausing \in BOOLEAN /\ detached \in BOOLEAN
      BY DEF ShutdownInit
    <2>2. DaemonType /\ DrainsLate /\ Counted
      BY <2>1 DEF DaemonType, DrainsLate, Counted
    <2>3. Emptied /\ Waited
      BY <2>1 DEF Emptied, Waited
    <2> QED BY <2>2, <2>3 DEF DrainInv
  <1>2. Datapaths /\ DrainInv /\ [ShutdownNext]_shutdownVars => DrainInv'
    <2> SUFFICES ASSUME Datapaths, DrainInv, [ShutdownNext]_shutdownVars PROVE DrainInv'
      OBVIOUS
    <2> USE DEF daemon
    <2>1. CASE Datapath
      BY <2>1, DatapathDrains
    <2>2. CASE Poll
      <3>1. /\ stopping /\ ~pausing /\ ~detached
            /\ polls' = polls + 1 /\ pausing' = TRUE /\ UNCHANGED <<vars, detached>>
            /\ empty' = IF Live = {} THEN empty + 1 ELSE 0
        BY <2>2 DEF Poll, Draining
      <3>2. UNCHANGED <<stopping, requests, fate, pc, cur>>
        BY <3>1 DEF vars, world, lease, cpus
      <3>3. DaemonType' /\ DrainsLate' /\ Counted' /\ Waited'
        BY <3>1, <3>2 DEF DrainInv, DaemonType, DrainsLate, Counted, Waited
      <3>4. CASE Live = {}
        <4>1. \A id \in Ids : requests[id].state = Absent
          BY <3>4 DEF Live
        <4>2. \A id \in Ids : fate[id] # "wire"
          BY <4>1 DEF Datapaths, Inv, Credentialed, Absent
        <4>3. \A p \in Cpus : pc[p] \notin {"build", "finish"}
          <5> SUFFICES ASSUME NEW p \in Cpus, pc[p] \in {"build", "finish"} PROVE FALSE
            OBVIOUS
          <5>1. cur[p] \in Ids
            <6>1. cur[p] \in 1 .. seq
              BY DEF Datapaths, Inv, Owners, Busy
            <6>2. seq \in 0 .. MaxSeq
              BY DEF Datapaths, TypeOK
            <6> QED BY <6>1, <6>2, InjectionAssumption DEF Ids
          <5>2. requests[cur[p]].state \in {0, 1}
            BY DEF Datapaths, Booked, Unbuilt, Found
          <5> QED BY <4>1, <5>1, <5>2 DEF Absent
        <4>4. Expiring
          BY <3>4 DEF Expiring
        <4> QED BY <3>2, <3>3, <4>2, <4>3, <4>4 DEF DrainInv, Emptied, Expiring, Live
      <3>5. CASE Live # {}
        BY <3>1, <3>3, <3>5 DEF DrainInv, Emptied
      <3> QED BY <3>4, <3>5
    <2>3. CASE Wake
      <3>1. UNCHANGED <<stopping, requests, fate, pc, cur>>
        BY <2>3 DEF Wake, vars, world, lease, cpus
      <3> QED BY <2>3, <3>1
              DEF Wake, DrainInv, DaemonType, DrainsLate, Counted, Emptied, Waited, Quiet, Expiring, Live
    <2>4. CASE Detach
      <3>1. UNCHANGED stopping /\ stopping
        BY <2>4 DEF Detach, Draining, vars, world, lease
      <3> QED BY <2>4, <3>1
              DEF Detach, DrainInv, DaemonType, DrainsLate, Counted, Emptied, Waited
    <2>5. ASSUME NEW id \in Ids, Slip(id) PROVE DrainInv'
      <3>1. detached /\ UNCHANGED <<polls, empty, pausing, detached, stopping>>
        BY <2>5 DEF Slip, Depart, Reclaim, world, lease
      <3> QED BY <3>1 DEF DrainInv, DaemonType, DrainsLate, Counted, Emptied, Waited
    <2>6. CASE UNCHANGED shutdownVars
      <3>1. UNCHANGED <<polls, empty, pausing, detached, stopping, requests, fate, pc, cur>>
        BY <2>6 DEF shutdownVars, vars, world, lease, cpus
      <3> QED BY <3>1
              DEF DrainInv, DaemonType, DrainsLate, Counted, Emptied, Waited, Quiet, Expiring, Live
    <2> QED BY <2>1, <2>2, <2>3, <2>4, <2>5, <2>6 DEF ShutdownNext
  <1> QED BY <1>1, <1>2, DatapathsInductive, PTL DEF ShutdownSpec

\* When the drain ends because the map was empty twice, no CPU is inside
\* emit(), no request is left and no clone is on the wire: what the first look
\* could not see was refused by the lease and is over at the second.
THEOREM QuietAfterDrain == ShutdownSpec => []DrainedMeansQuiet
  <1>1. DrainInv => DrainedMeansQuiet
    <2> SUFFICES ASSUME DrainInv, Draining, Drained
                 PROVE  Quiet /\ Live = {} /\ \A id \in Ids : fate[id] # "wire"
      BY DEF DrainedMeansQuiet
    <2>1. Quiet
      BY DEF DrainInv, DaemonType, Counted, Waited, Draining, Drained
    <2>2. Expiring /\ \A id \in Ids : fate[id] # "wire"
      BY DEF DrainInv, DaemonType, Emptied, Draining, Drained
    <2>3. Live = {}
      BY <2>1, <2>2 DEF Quiet, Expiring
    <2> QED BY <2>1, <2>2, <2>3
  <1> QED BY <1>1, DrainInductive, PTL
=============================================================================
