-------------------------- MODULE ClusterMapProofs --------------------------
(***************************************************************************)
(* Whatever messages arrive, whatever is dropped and whoever moves: a      *)
(* grant of the map has an owner in the map that lists it.  Each part of a *)
(* change keeps that, and so does their composition.                       *)
(*                                                                         *)
(* And the view is the truth, within its exceptions: as long as the lists  *)
(* say what the owners do (Exact), what the parts of a change make of a    *)
(* grant, one after the other, is the fate the message declares for it.    *)
(* The lookup by key follows.                                              *)
(***************************************************************************)
EXTENDS ClusterMap, TLAPS

Good(m) == m \in Map /\ WellFormed(m)

(* A set of instances is a function to endpoints from some of the consumers.*)
LEMMA InstancesAre ==
  ASSUME NEW f
  PROVE  f \in Instances <=> \E known \in SUBSET Consumer : f \in [known -> Endpoint]
BY DEF Instances

(* What is entered, taken over or taken out leaves such functions.         *)
LEMMA OverInstances ==
  ASSUME NEW f \in Instances, NEW h \in Instances
  PROVE  /\ Over(f, h) \in Instances
         /\ DOMAIN Over(f, h) = DOMAIN f \union DOMAIN h
<1>1. PICK knownF \in SUBSET Consumer : f \in [knownF -> Endpoint]
  BY InstancesAre
<1>2. PICK knownH \in SUBSET Consumer : h \in [knownH -> Endpoint]
  BY InstancesAre
<1>3. Over(f, h) \in [knownF \union knownH -> Endpoint]
  BY <1>1, <1>2 DEF Over
<1>4. knownF \union knownH \in SUBSET Consumer
  OBVIOUS
<1>5. QED
  BY <1>1, <1>2, <1>3, <1>4, InstancesAre DEF Over

LEMMA WithoutInstances ==
  ASSUME NEW f \in Instances, NEW left
  PROVE  /\ Without(f, left) \in Instances
         /\ DOMAIN Without(f, left) = DOMAIN f \ left
<1>1. PICK known \in SUBSET Consumer : f \in [known -> Endpoint]
  BY InstancesAre
<1>2. Without(f, left) \in [known \ left -> Endpoint] /\ known \ left \in SUBSET Consumer
  BY <1>1 DEF Without
<1>3. QED
  BY <1>1, <1>2, InstancesAre DEF Without

LEMMA NobodyInstances == Nobody \in Instances /\ DOMAIN Nobody = {}
<1>1. Nobody \in [{} -> Endpoint] /\ {} \in SUBSET Consumer
  BY DEF Nobody
<1>2. QED
  BY <1>1, InstancesAre

LEMMA KnownAreConsumers ==
  ASSUME NEW f \in Instances
  PROVE  DOMAIN f \subseteq Consumer
<1>1. PICK known \in SUBSET Consumer : f \in [known -> Endpoint]
  BY InstancesAre
<1>2. QED
  BY <1>1

(* The empty map is well formed.                                           *)
LEMMA EmptyGood == Good(Empty)
  BY NobodyInstances DEF Good, Empty, Map, Grants, WellFormed, Owned

(* drop_grant takes a grant out of both sides of the map.                  *)
LEMMA DropGood ==
  ASSUME NEW m, Good(m), NEW gone
  PROVE  Good(DropGrants(m, gone))
<1> DEFINE n == DropGrants(m, gone)
<1>1. /\ n.instance = m.instance /\ n.shards = m.shards
      /\ n.grants = [g \in GrantId |-> IF g \in gone THEN NoEntry ELSE m.grants[g]]
      /\ n.listed = [c \in Consumer |-> m.listed[c] \ (gone \intersect OwnedBy(m.grants, c))]
  BY DEF DropGrants, Good, Map
<1>2. n \in Map
  BY DEF DropGrants, Good, Map, Grants
<1>3. ASSUME NEW g \in Owned(n.grants)
      PROVE  n.grants[g].consumer \in Known(n) /\ g \in n.listed[n.grants[g].consumer]
  <2>1. g \in Owned(m.grants) /\ g \notin gone /\ n.grants[g] = m.grants[g]
    BY <1>1, <1>3 DEF Owned
  <2>2. m.grants[g].consumer \in Known(m) /\ g \in m.listed[m.grants[g].consumer]
    BY <2>1 DEF Good, WellFormed
  <2>3. m.grants[g].consumer \in Consumer
    BY <2>1 DEF Good, Map, Grants, Entry, Owned
  <2>4. QED
    BY <1>1, <2>1, <2>2, <2>3 DEF Known
<1>4. ASSUME NEW c \in Consumer, n.listed[c] # {}
      PROVE  c \in Known(n)
  BY <1>1, <1>4 DEF Good, WellFormed, Known
<1>5. WellFormed(n)
  BY <1>3, <1>4 DEF WellFormed
<1>6. QED
  BY <1>2, <1>5 DEF Good

(* A new set of shards drops grants, and nothing else.                     *)
LEMMA ShardsGood ==
  ASSUME NEW m, Good(m), NEW shards \in SUBSET Shard
  PROVE  Good(KeepShards(m, shards))
<1>1. Good([m EXCEPT !.shards = shards])
  BY DEF Good, Map, WellFormed, Known
<1>2. QED
  BY <1>1, DropGood DEF KeepShards

(* apply_assignment enters the owner with the grant.                       *)
LEMMA AssignGood ==
  ASSUME NEW m, Good(m), NEW instance \in Instances, NEW assigned \in Grants,
         \A g \in Owned(assigned) : assigned[g].consumer \in DOMAIN instance
  PROVE  Good(Assign(m, instance, assigned))
<1> DEFINE n == Assign(m, instance, assigned)
<1>0. m.instance \in Instances /\ Over(m.instance, instance) \in Instances
      /\ DOMAIN Over(m.instance, instance) = Known(m) \union DOMAIN instance
  BY OverInstances DEF Good, Map, Known
<1>1. /\ n.instance = Over(m.instance, instance) /\ n.shards = m.shards
      /\ Known(n) = Known(m) \union DOMAIN instance
      /\ n.listed = [c \in Consumer |-> m.listed[c] \union OwnedBy(assigned, c)]
      /\ n.grants = [g \in GrantId |->
                       IF g \in Owned(assigned) THEN assigned[g] ELSE m.grants[g]]
  BY <1>0 DEF Assign, Good, Map, Known
<1>2. \A c \in Consumer : OwnedBy(assigned, c) \subseteq GrantId
  BY DEF OwnedBy, Owned
<1>3. n \in Map
  BY <1>0, <1>2 DEF Assign, Good, Map, Grants, Owned
<1>4. ASSUME NEW g \in Owned(n.grants)
      PROVE  n.grants[g].consumer \in Known(n) /\ g \in n.listed[n.grants[g].consumer]
  <2>1. CASE g \in Owned(assigned)
    <3>1. n.grants[g] = assigned[g] /\ assigned[g].consumer \in DOMAIN instance
      BY <1>1, <2>1 DEF Owned
    <3>2. g \in OwnedBy(assigned, assigned[g].consumer)
      BY <2>1 DEF OwnedBy
    <3>3. assigned[g].consumer \in Consumer
      BY <3>1, KnownAreConsumers
    <3>4. QED
      BY <1>1, <3>1, <3>2, <3>3
  <2>2. CASE g \notin Owned(assigned)
    <3>1. g \in Owned(m.grants) /\ n.grants[g] = m.grants[g]
      BY <1>1, <1>4, <2>2 DEF Owned
    <3>2. m.grants[g].consumer \in Known(m) /\ g \in m.listed[m.grants[g].consumer]
      BY <3>1 DEF Good, WellFormed
    <3>3. Known(m) \subseteq Consumer
      BY <1>0, KnownAreConsumers DEF Known
    <3>4. QED
      BY <1>1, <3>1, <3>2, <3>3
  <2>3. QED
    BY <2>1, <2>2
<1>5. ASSUME NEW c \in Consumer, n.listed[c] # {}
      PROVE  c \in Known(n)
  <2>1. CASE m.listed[c] # {}
    BY <1>1, <2>1 DEF Good, WellFormed
  <2>2. CASE OwnedBy(assigned, c) # {}
    BY <1>1, <2>2 DEF OwnedBy
  <2>3. QED
    BY <1>1, <1>5, <2>1, <2>2
<1>6. WellFormed(n)
  BY <1>4, <1>5 DEF WellFormed
<1>7. QED
  BY <1>3, <1>6 DEF Good

(* update_grant leaves the owners alone.                                   *)
LEMMA UpdateGood ==
  ASSUME NEW m, Good(m), NEW updates \in Updates
  PROVE  Good(Update(m, updates))
<1> DEFINE n == Update(m, updates)
           New(g) == [consumer |-> m.grants[g].consumer, shard |-> updates[g].shard,
                      state |-> updates[g].state]
<1>1. /\ n.instance = m.instance /\ n.shards = m.shards /\ n.listed = m.listed
      /\ n.grants = [g \in GrantId |->
                       IF g \in Owned(m.grants) /\ g \in DOMAIN updates
                       THEN New(g) ELSE m.grants[g]]
  BY DEF Update, Good, Map
<1>2. \A g \in DOMAIN updates : updates[g] \in [shard : Shard, state : State]
  BY DEF Updates
<1>3. \A g \in Owned(m.grants) : m.grants[g] \in Entry
  BY DEF Good, Map, Grants, Owned
<1>4. \A g \in Owned(m.grants) \intersect DOMAIN updates :
        New(g) \in Entry /\ New(g).consumer = m.grants[g].consumer
  BY <1>2, <1>3 DEF Entry
<1>5. n.grants \in Grants
  BY <1>1, <1>4 DEF Grants, Good, Map
<1>6. n \in Map
  BY <1>5 DEF Update, Good, Map
<1>7. Owned(n.grants) \subseteq Owned(m.grants)
  BY <1>1 DEF Owned
<1>8. \A g \in Owned(n.grants) : n.grants[g].consumer = m.grants[g].consumer
  BY <1>1, <1>4, <1>7 DEF Owned
<1>9. WellFormed(n)
  BY <1>1, <1>7, <1>8 DEF Good, WellFormed, Known
<1>10. QED
  BY <1>6, <1>9 DEF Good

(* remove_consumer finds in the consumer's list every grant it owns.       *)
LEMMA RemoveGood ==
  ASSUME NEW m, Good(m), NEW left \in SUBSET Consumer
  PROVE  Good(RemoveConsumers(m, left))
<1> DEFINE n == RemoveConsumers(m, left)
           gone == UNION {m.listed[c] : c \in left \intersect Known(m)}
<1>0. m.instance \in Instances /\ Without(m.instance, left) \in Instances
      /\ DOMAIN Without(m.instance, left) = Known(m) \ left
  BY WithoutInstances DEF Good, Map, Known
<1>1. /\ n.instance = Without(m.instance, left) /\ n.shards = m.shards
      /\ Known(n) = Known(m) \ left
      /\ n.grants = [g \in GrantId |-> IF g \in gone THEN NoEntry ELSE m.grants[g]]
      /\ n.listed = [c \in Consumer |-> IF c \in left THEN {} ELSE m.listed[c]]
  BY <1>0 DEF RemoveConsumers, Good, Map, Known
<1>2. n \in Map
  BY <1>0 DEF RemoveConsumers, Good, Map, Grants
<1>3. \A g \in Owned(n.grants) : g \in Owned(m.grants) /\ g \notin gone
                                  /\ n.grants[g] = m.grants[g]
  BY <1>1 DEF Owned
<1>4. \A g \in Owned(n.grants) : n.grants[g].consumer \in Known(m) \ left
  BY <1>3 DEF Good, WellFormed
<1>5. \A c \in Consumer : n.listed[c] # {} => c \in Known(n)
  BY <1>1 DEF Good, WellFormed
<1>6. \A g \in Owned(n.grants) : g \in n.listed[n.grants[g].consumer]
  <2>1. Known(m) \subseteq Consumer
    BY <1>0, KnownAreConsumers DEF Known
  <2>2. \A g \in Owned(n.grants) : g \in m.listed[m.grants[g].consumer]
    BY <1>3 DEF Good, WellFormed
  <2>3. QED
    BY <1>1, <1>3, <1>4, <2>1, <2>2
<1>7. WellFormed(n)
  BY <1>1, <1>4, <1>5, <1>6 DEF WellFormed
<1>8. QED
  BY <1>2, <1>7 DEF Good

(* A whole change, in the order of the code.                               *)
LEMMA ChangeGood ==
  ASSUME NEW m, Good(m), NEW change \in Change
  PROVE  Good(ApplyChange(m, change))
<1> DEFINE sharded  == IF change.reshards THEN KeepShards(m, change.shards) ELSE m
           assigned == Assign(sharded, change.instance, change.assigned)
           updated  == Update(assigned, change.updates)
           dropped  == DropGrants(updated, change.unassigned)
<1>1. /\ change.shards \in SUBSET Shard /\ change.instance \in Instances
      /\ change.assigned \in Grants /\ change.updates \in Updates
      /\ change.left \in SUBSET Consumer
      /\ \A g \in Owned(change.assigned) : change.assigned[g].consumer \in DOMAIN change.instance
  BY DEF Change
<1>2. Good(sharded)
  BY <1>1, ShardsGood
<1> HIDE DEF sharded
<1>3. Good(assigned)
  BY <1>1, <1>2, AssignGood
<1> HIDE DEF assigned
<1>4. Good(updated)
  BY <1>1, <1>3, UpdateGood
<1> HIDE DEF updated
<1>5. Good(dropped)
  BY <1>4, DropGood
<1> HIDE DEF dropped
<1>6. Good(RemoveConsumers(dropped, change.left))
  BY <1>1, <1>5, RemoveGood
<1>7. QED
  BY <1>6 DEF ApplyChange, dropped, updated, assigned, sharded

(* A snapshot, from nothing.                                               *)
LEMMA SnapshotGood ==
  ASSUME NEW change \in Change
  PROVE  Good(ApplySnapshot(change))
<1>1. /\ change.shards \in SUBSET Shard /\ change.instance \in Instances
      /\ change.assigned \in Grants
      /\ \A g \in Owned(change.assigned) : change.assigned[g].consumer \in DOMAIN change.instance
  BY DEF Change
<1>2. Good([Empty EXCEPT !.shards = change.shards])
  BY <1>1, EmptyGood DEF Good, Map, WellFormed, Known
<1>3. QED
  BY <1>1, <1>2, AssignGood DEF ApplySnapshot

(* What the messages describe is a cluster.                                *)
LEMMA FateTyped ==
  ASSUME NEW was \in Described, NEW change \in Change, NEW g \in GrantId
  PROVE  Fate(was, change, g) \in Entry \union {NoEntry}
<1> DEFINE word == IF g \in Owned(change.assigned) THEN change.assigned[g] ELSE was.grants[g]
<1>1. change.assigned \in Grants /\ was.grants \in Grants
  BY DEF Change, Described
<1>2. Stands(was, change, g) => word \in Entry
  BY <1>1 DEF Stands, Owned, Grants
<1>3. g \in DOMAIN change.updates => change.updates[g] \in [shard : Shard, state : State]
  BY DEF Change, Updates
<1>4. ASSUME word \in Entry, g \in DOMAIN change.updates
      PROVE  [consumer |-> word.consumer, shard |-> change.updates[g].shard,
              state |-> change.updates[g].state] \in Entry
  <2> HIDE DEF word
  <2>1. QED
    BY <1>3, <1>4 DEF Entry
<1>5. QED
  BY <1>2, <1>4 DEF Fate

LEMMA MeantTyped ==
  ASSUME NEW was \in Described, NEW change \in Change
  PROVE  Meant(was, change) \in Described
<1> DEFINE instance == [c \in (DOMAIN was.instance \union DOMAIN change.instance) \ change.left |->
                          IF c \in DOMAIN change.instance THEN change.instance[c]
                          ELSE was.instance[c]]
<1>1. was.instance \in Instances /\ change.instance \in Instances
  BY DEF Described, Change
<1>2. instance = Without(Over(change.instance, was.instance), change.left)
  <2>1. DOMAIN Over(change.instance, was.instance) = DOMAIN was.instance \union DOMAIN change.instance
    BY DEF Over
  <2>2. \A c \in DOMAIN was.instance \union DOMAIN change.instance :
          Over(change.instance, was.instance)[c]
            = IF c \in DOMAIN change.instance THEN change.instance[c] ELSE was.instance[c]
    BY DEF Over
  <2>3. Without(Over(change.instance, was.instance), change.left)
          = [c \in (DOMAIN was.instance \union DOMAIN change.instance) \ change.left |->
               Over(change.instance, was.instance)[c]]
    BY <2>1 DEF Without
  <2>4. QED
    BY <2>2, <2>3
<1> HIDE DEF instance
<1>3. instance \in Instances
  BY <1>1, <1>2, OverInstances, WithoutInstances
<1>4. [g \in GrantId |-> Fate(was, change, g)] \in Grants
  BY FateTyped DEF Grants
<1>5. (IF change.reshards THEN change.shards ELSE was.shards) \in SUBSET Shard
  BY DEF Change, Described
<1>6. QED
  BY <1>3, <1>4, <1>5 DEF Meant, Described, instance

LEMMA NothingTyped == Nothing \in Described
  BY NobodyInstances DEF Nothing, Described, Grants

LEMMA ToldTyped ==
  ASSUME NEW change \in Change
  PROVE  Told(change) \in Described
BY DEF Told, Described, Change

IInv == TypeOK /\ Good(view)

(* Every message keeps the map well formed.                                *)
LEMMA StepIInv == IInv /\ [Next]_vars => IInv'
<1> SUFFICES ASSUME IInv, [Next]_vars PROVE IInv'
  OBVIOUS
<1>1. ASSUME NEW change \in Sent, ReceiveChange(change) PROVE IInv'
  <2>1. change \in Change
    BY SentAssumption
  <2>2. Good(view') /\ truth' \in Described
    BY <1>1, <2>1, ChangeGood, MeantTyped DEF ReceiveChange, Follow, IInv, TypeOK
  <2>3. moved' \in BOOLEAN /\ stale' \subseteq Consumer
    <3>1. change.instance \in Instances
      BY <2>1 DEF Change
    <3>2. Readdressed(change) \subseteq Consumer
      BY <3>1, KnownAreConsumers DEF Readdressed
    <3>3. QED
      BY <1>1, <3>2 DEF ReceiveChange, Follow, IInv, TypeOK
  <2>4. QED
    BY <1>1, <2>2, <2>3 DEF ReceiveChange, IInv, TypeOK, Good
<1>2. ASSUME NEW change \in Sent, ReceiveSnapshot(change) PROVE IInv'
  <2>1. change \in Change
    BY SentAssumption
  <2>2. Good(view') /\ truth' \in Described
    BY <1>2, <2>1, SnapshotGood, ToldTyped DEF ReceiveSnapshot
  <2>3. QED
    BY <1>2, <2>2 DEF ReceiveSnapshot, IInv, TypeOK, Good
<1>3. ASSUME NEW change \in Sent, DropMessage(change) PROVE IInv'
  <2>1. truth' \in Described
    BY <1>3, NothingTyped DEF DropMessage
  <2>2. QED
    BY <1>3, <2>1 DEF DropMessage, IInv, TypeOK, Good, Known
<1>4. CASE UNCHANGED vars
  BY <1>4 DEF vars, IInv, TypeOK, Good, WellFormed, Known
<1>5. QED
  BY <1>1, <1>2, <1>3, <1>4 DEF Next

(* For any consumers, grants, shards and messages: a grant that can be     *)
(* looked up belongs to a consumer of the map that lists it                *)
(* (cluster.rs:87-145, 203-266).                                           *)
THEOREM OwnersAlwaysKnown == Spec => []OwnersKnown
<1>1. Init => IInv
  BY EmptyGood, NothingTyped DEF Init, IInv, TypeOK, Good
<1>2. IInv /\ [Next]_vars => IInv'
  BY StepIInv
<1>3. IInv => OwnersKnown
  BY DEF IInv, Good, OwnersKnown
<1>4. QED
  BY <1>1, <1>2, <1>3, PTL DEF Spec
-----------------------------------------------------------------------------
(* The view against the truth.  A map is exact if a consumer's list names  *)
(* what it owns, and nothing else; a change keeps it exact, unless it      *)
(* assigns a grant away.                                                   *)
Exact(m) == \A c \in Consumer : m.listed[c] = OwnedBy(m.grants, c)

\* What each part makes of the grants of an exact map.
Dropped(grants, gone) ==
  [g \in GrantId |-> IF g \in gone THEN NoEntry ELSE grants[g]]
Swept(grants, shards) ==
  Dropped(grants, {g \in Owned(grants) : grants[g].shard \notin shards})
Assigned(grants, assigned) ==
  [g \in GrantId |-> IF g \in Owned(assigned) THEN assigned[g] ELSE grants[g]]
Updated(grants, updates) ==
  [g \in GrantId |-> IF g \in Owned(grants) /\ g \in DOMAIN updates
                     THEN [consumer |-> grants[g].consumer, shard |-> updates[g].shard,
                           state |-> updates[g].state]
                     ELSE grants[g]]
Deserted(grants, left) ==
  Dropped(grants, {g \in GrantId : \E c \in left : g \in OwnedBy(grants, c)})

LEMMA DropExact ==
  ASSUME NEW m, Good(m), Exact(m), NEW gone
  PROVE  /\ Exact(DropGrants(m, gone))
         /\ DropGrants(m, gone).grants = Dropped(m.grants, gone)
<1> DEFINE n == DropGrants(m, gone)
<1>1. /\ n.grants = [g \in GrantId |-> IF g \in gone THEN NoEntry ELSE m.grants[g]]
      /\ n.listed = [c \in Consumer |-> m.listed[c] \ (gone \intersect OwnedBy(m.grants, c))]
  BY DEF DropGrants, Good, Map
<1> HIDE DEF n
<1>2. \A c \in Consumer : OwnedBy(n.grants, c) = OwnedBy(m.grants, c) \ gone
  BY <1>1 DEF OwnedBy, Owned
<1>3. ASSUME NEW c \in Consumer
      PROVE  n.listed[c] = OwnedBy(n.grants, c)
  <2>1. n.listed[c] = OwnedBy(m.grants, c) \ (gone \intersect OwnedBy(m.grants, c))
    BY <1>1 DEF Exact
  <2>2. QED
    BY <1>2, <2>1
<1>4. QED
  BY <1>1, <1>3 DEF n, Dropped, Exact

LEMMA ShardsExact ==
  ASSUME NEW m, Good(m), Exact(m), NEW shards \in SUBSET Shard
  PROVE  /\ Exact(KeepShards(m, shards))
         /\ KeepShards(m, shards).grants = Swept(m.grants, shards)
<1> DEFINE mm   == [m EXCEPT !.shards = shards]
           gone == {g \in Owned(m.grants) : m.grants[g].shard \notin shards}
<1>1. mm.grants = m.grants /\ mm.listed = m.listed
  BY DEF Good, Map
<1>2. Good(mm)
  BY DEF Good, Map, WellFormed, Known
<1>3. KeepShards(m, shards) = DropGrants(mm, gone)
  BY DEF KeepShards
<1>4. Swept(m.grants, shards) = Dropped(m.grants, gone)
  BY DEF Swept
<1> HIDE DEF mm, gone
<1>5. Exact(mm)
  BY <1>1 DEF Exact
<1>6. QED
  BY <1>1, <1>2, <1>3, <1>4, <1>5, DropExact

\* An owner is added to the lists by its grants, as long as none moves.
Stays(grants, assigned) ==
  \A g \in Owned(assigned) \intersect Owned(grants) :
    assigned[g].consumer = grants[g].consumer

LEMMA AssignExact ==
  ASSUME NEW m, Good(m), Exact(m), NEW instance \in Instances, NEW assigned \in Grants,
         Stays(m.grants, assigned)
  PROVE  /\ Exact(Assign(m, instance, assigned))
         /\ Assign(m, instance, assigned).grants = Assigned(m.grants, assigned)
<1> DEFINE n == Assign(m, instance, assigned)
<1>1. /\ n.listed = [c \in Consumer |-> m.listed[c] \union OwnedBy(assigned, c)]
      /\ n.grants = [g \in GrantId |->
                       IF g \in Owned(assigned) THEN assigned[g] ELSE m.grants[g]]
  BY DEF Assign, Good, Map
<1> HIDE DEF n
<1>2. ASSUME NEW c \in Consumer
      PROVE  OwnedBy(n.grants, c) = OwnedBy(m.grants, c) \union OwnedBy(assigned, c)
  BY <1>1 DEF OwnedBy, Owned, Stays
<1>3. Exact(n)
  BY <1>1, <1>2 DEF Exact
<1>4. QED
  BY <1>1, <1>3 DEF n, Assigned

LEMMA UpdateExact ==
  ASSUME NEW m, Good(m), Exact(m), NEW updates \in Updates
  PROVE  /\ Exact(Update(m, updates))
         /\ Update(m, updates).grants = Updated(m.grants, updates)
<1> DEFINE n == Update(m, updates)
           New(g) == [consumer |-> m.grants[g].consumer, shard |-> updates[g].shard,
                      state |-> updates[g].state]
<1>1. /\ n.listed = m.listed
      /\ n.grants = [g \in GrantId |->
                       IF g \in Owned(m.grants) /\ g \in DOMAIN updates
                       THEN New(g) ELSE m.grants[g]]
  BY DEF Update, Good, Map
<1>2. \A g \in GrantId : New(g) # NoEntry /\ New(g).consumer = m.grants[g].consumer
  BY DEF NoEntry
<1>3. Exact(n)
  <2> HIDE DEF n, New
  <2>1. \A c \in Consumer : OwnedBy(n.grants, c) = OwnedBy(m.grants, c)
    BY <1>1, <1>2 DEF OwnedBy, Owned
  <2>2. QED
    BY <1>1, <2>1 DEF Exact
<1>4. n.grants = Updated(m.grants, updates)
  BY <1>1 DEF Updated
<1>5. QED
  BY <1>3, <1>4

\* In an exact map a consumer that leaves takes with it what it owns.
LEMMA RemoveExact ==
  ASSUME NEW m, Good(m), Exact(m), NEW left \in SUBSET Consumer
  PROVE  /\ Exact(RemoveConsumers(m, left))
         /\ RemoveConsumers(m, left).grants = Deserted(m.grants, left)
<1> DEFINE n     == RemoveConsumers(m, left)
           gone  == UNION {m.listed[c] : c \in left \intersect Known(m)}
           owned == {g \in GrantId : \E c \in left : g \in OwnedBy(m.grants, c)}
<1>1. /\ n.grants = [g \in GrantId |-> IF g \in gone THEN NoEntry ELSE m.grants[g]]
      /\ n.listed = [c \in Consumer |-> IF c \in left THEN {} ELSE m.listed[c]]
  BY DEF RemoveConsumers, Good, Map
<1>2. \A c \in left : m.listed[c] = OwnedBy(m.grants, c) /\ (m.listed[c] # {} => c \in Known(m))
  BY DEF Exact, Good, WellFormed
<1>3. \A g \in GrantId : g \in gone <=> g \in owned
  BY <1>2
<1> HIDE DEF n, gone
<1>4. n.grants = Dropped(m.grants, owned)
  BY <1>1, <1>3 DEF Dropped
<1> HIDE DEF owned
<1>5. ASSUME NEW c \in Consumer
      PROVE  n.listed[c] = OwnedBy(n.grants, c)
  <2>1. \A g \in GrantId : g \in OwnedBy(n.grants, c) <=> g \in OwnedBy(m.grants, c) /\ g \notin owned
    BY <1>4 DEF OwnedBy, Owned, Dropped
  <2>2. \A g \in OwnedBy(m.grants, c) : g \in GrantId /\ (g \in owned <=> c \in left)
    BY DEF OwnedBy, Owned, owned
  <2>3. OwnedBy(n.grants, c) \subseteq GrantId
    BY DEF OwnedBy, Owned
  <2>4. m.listed[c] = OwnedBy(m.grants, c)
    BY DEF Exact
  <2>5. n.listed[c] = IF c \in left THEN {} ELSE OwnedBy(m.grants, c)
    BY <1>1, <2>4
  <2>6. CASE c \in left
    BY <2>1, <2>2, <2>3, <2>5, <2>6
  <2>7. CASE c \notin left
    BY <2>1, <2>2, <2>3, <2>5, <2>7
  <2>8. QED
    BY <2>6, <2>7
<1>6. QED
  BY <1>4, <1>5 DEF Exact, n, owned, Deserted

\* A change up to the consumers that leave.
BeforeLeave(m, change) ==
  LET sharded  == IF change.reshards THEN KeepShards(m, change.shards) ELSE m
      assigned == Assign(sharded, change.instance, change.assigned)
      updated  == Update(assigned, change.updates)
  IN DropGrants(updated, change.unassigned)

\* What a change makes of the instances and the shards.
LEMMA ChangeInstance ==
  ASSUME NEW m, Good(m), NEW change \in Change
  PROVE  /\ ApplyChange(m, change) = RemoveConsumers(BeforeLeave(m, change), change.left)
         /\ Good(BeforeLeave(m, change))
         /\ BeforeLeave(m, change).instance = Over(m.instance, change.instance)
         /\ ApplyChange(m, change).instance
              = Without(Over(m.instance, change.instance), change.left)
         /\ ApplyChange(m, change).shards
              = IF change.reshards THEN change.shards ELSE m.shards
<1> DEFINE sharded  == IF change.reshards THEN KeepShards(m, change.shards) ELSE m
           assigned == Assign(sharded, change.instance, change.assigned)
           updated  == Update(assigned, change.updates)
           dropped  == DropGrants(updated, change.unassigned)
<1>1. /\ change.shards \in SUBSET Shard /\ change.instance \in Instances
      /\ change.assigned \in Grants /\ change.updates \in Updates
      /\ \A g \in Owned(change.assigned) : change.assigned[g].consumer \in DOMAIN change.instance
  BY DEF Change
<1>2. /\ Good(sharded) /\ sharded.instance = m.instance
      /\ sharded.shards = IF change.reshards THEN change.shards ELSE m.shards
  <2>1. Good(sharded)
    BY <1>1, ShardsGood
  <2>2. /\ sharded.instance = m.instance
        /\ sharded.shards = IF change.reshards THEN change.shards ELSE m.shards
    BY DEF KeepShards, DropGrants, Good, Map
  <2>3. QED
    BY <2>1, <2>2
<1> HIDE DEF sharded
<1>3. /\ Good(assigned) /\ assigned.instance = Over(m.instance, change.instance)
      /\ assigned.shards = sharded.shards
  <2>1. /\ assigned.instance = Over(sharded.instance, change.instance)
        /\ assigned.shards = sharded.shards
    BY <1>2 DEF Assign, Good, Map
  <2>2. QED
    BY <1>1, <1>2, <2>1, AssignGood
<1> HIDE DEF assigned
<1>4. Good(updated) /\ updated.instance = assigned.instance /\ updated.shards = assigned.shards
  <2>1. Good(updated)
    BY <1>1, <1>3, UpdateGood
  <2>2. updated.instance = assigned.instance /\ updated.shards = assigned.shards
    BY <1>3 DEF Update, Good, Map
  <2>3. QED
    BY <2>1, <2>2
<1> HIDE DEF updated
<1>5. Good(dropped) /\ dropped.instance = updated.instance /\ dropped.shards = updated.shards
  <2>1. Good(dropped)
    BY <1>4, DropGood
  <2>2. dropped.instance = updated.instance /\ dropped.shards = updated.shards
    BY <1>4 DEF DropGrants, Good, Map
  <2>3. QED
    BY <2>1, <2>2
<1> HIDE DEF dropped
<1>6. /\ RemoveConsumers(dropped, change.left).instance = Without(dropped.instance, change.left)
      /\ RemoveConsumers(dropped, change.left).shards = dropped.shards
  BY <1>5 DEF RemoveConsumers, Good, Map
<1>7. BeforeLeave(m, change) = dropped
  BY DEF BeforeLeave, dropped, updated, assigned, sharded
<1>8. ApplyChange(m, change) = RemoveConsumers(dropped, change.left)
  BY DEF ApplyChange, dropped, updated, assigned, sharded
<1>9. QED
  BY <1>2, <1>3, <1>4, <1>5, <1>6, <1>7, <1>8

\* What the parts of a change make of the grants of an exact map, in the order
\* of the code.
Kept(grants, change) ==
  IF change.reshards THEN Swept(grants, change.shards) ELSE grants
Heard(grants, change) ==
  Dropped(Updated(Assigned(Kept(grants, change), change.assigned), change.updates),
          change.unassigned)
Worked(grants, change) == Deserted(Heard(grants, change), change.left)

LEMMA ChangeExact ==
  ASSUME NEW m, Good(m), Exact(m), NEW change \in Change, Stays(m.grants, change.assigned)
  PROVE  /\ Exact(ApplyChange(m, change))
         /\ ApplyChange(m, change).grants = Worked(m.grants, change)
<1> DEFINE sharded  == IF change.reshards THEN KeepShards(m, change.shards) ELSE m
           assigned == Assign(sharded, change.instance, change.assigned)
           updated  == Update(assigned, change.updates)
           dropped  == DropGrants(updated, change.unassigned)
<1>1. /\ change.shards \in SUBSET Shard /\ change.instance \in Instances
      /\ change.assigned \in Grants /\ change.updates \in Updates
      /\ change.left \in SUBSET Consumer
      /\ \A g \in Owned(change.assigned) : change.assigned[g].consumer \in DOMAIN change.instance
  BY DEF Change
<1>2. Good(sharded) /\ Exact(sharded) /\ sharded.grants = Kept(m.grants, change)
  BY <1>1, ShardsGood, ShardsExact DEF Kept
<1>3. Stays(sharded.grants, change.assigned)
  BY <1>2 DEF Kept, Swept, Dropped, Stays, Owned
<1>4. ApplyChange(m, change) = RemoveConsumers(dropped, change.left)
  BY DEF ApplyChange
<1> HIDE DEF sharded
<1>5. /\ Good(assigned) /\ Exact(assigned)
      /\ assigned.grants = Assigned(sharded.grants, change.assigned)
  BY <1>1, <1>2, <1>3, AssignGood, AssignExact
<1> HIDE DEF assigned
<1>6. /\ Good(updated) /\ Exact(updated)
      /\ updated.grants = Updated(assigned.grants, change.updates)
  BY <1>1, <1>5, UpdateGood, UpdateExact
<1> HIDE DEF updated
<1>7. /\ Good(dropped) /\ Exact(dropped)
      /\ dropped.grants = Dropped(updated.grants, change.unassigned)
  BY <1>6, DropGood, DropExact
<1> HIDE DEF dropped
<1>8. /\ Exact(RemoveConsumers(dropped, change.left))
      /\ RemoveConsumers(dropped, change.left).grants = Deserted(dropped.grants, change.left)
  BY <1>1, <1>7, RemoveExact
<1>9. QED
  BY <1>2, <1>4, <1>5, <1>6, <1>7, <1>8 DEF Worked, Heard

\* And that is, grant for grant, the fate that the message declares.
LEMMA WorkedIsFate ==
  ASSUME NEW was \in Described, NEW change \in Change, NEW g \in GrantId
  PROVE  Worked(was.grants, change)[g] = Fate(was, change, g)
<1> DEFINE kept  == Kept(was.grants, change)
           given == Assigned(kept, change.assigned)
           told  == Updated(given, change.updates)
           heard == Dropped(told, change.unassigned)
           word  == IF g \in Owned(change.assigned) THEN change.assigned[g] ELSE was.grants[g]
           last  == IF g \in DOMAIN change.updates
                    THEN [consumer |-> word.consumer, shard |-> change.updates[g].shard,
                          state |-> change.updates[g].state]
                    ELSE word
<1>1. change.assigned \in Grants /\ was.grants \in Grants
  BY DEF Change, Described
<1>2. given[g] = IF Stands(was, change, g) THEN word ELSE NoEntry
  <2>1. kept[g] = IF change.reshards /\ g \in Owned(was.grants)
                       /\ was.grants[g].shard \notin change.shards
                  THEN NoEntry ELSE was.grants[g]
    BY DEF Kept, Swept, Dropped
  <2> HIDE DEF kept
  <2>2. given[g] = IF g \in Owned(change.assigned) THEN change.assigned[g] ELSE kept[g]
    BY DEF Assigned
  <2>3. QED
    BY <2>1, <2>2 DEF Stands, Owned
<1>3. Stands(was, change, g) => word \in Entry
  BY <1>1 DEF Stands, Owned, Grants
<1>4. NoEntry \notin Entry
  BY DEF NoEntry, Entry
<1> HIDE DEF given, word
<1>5. g \in Owned(given) <=> Stands(was, change, g)
  BY <1>2, <1>3, <1>4 DEF Owned
<1>6. told[g] = IF g \in Owned(given) /\ g \in DOMAIN change.updates
                THEN [consumer |-> given[g].consumer, shard |-> change.updates[g].shard,
                      state |-> change.updates[g].state]
                ELSE given[g]
  BY DEF Updated
<1>7. Stands(was, change, g) => last # NoEntry /\ last.consumer = word.consumer
  <2>1. g \in DOMAIN change.updates => change.updates[g] \in [shard : Shard, state : State]
    BY DEF Change, Updates
  <2>2. word \in Entry => last \in Entry /\ last.consumer = word.consumer
    <3>1. CASE g \in DOMAIN change.updates
      BY <2>1, <3>1 DEF Entry
    <3>2. CASE g \notin DOMAIN change.updates
      BY <3>2
    <3>3. QED
      BY <3>1, <3>2
  <2> HIDE DEF last
  <2>3. QED
    BY <1>3, <1>4, <2>2
<1>8. told[g] = IF Stands(was, change, g) THEN last ELSE NoEntry
  BY <1>2, <1>3, <1>5, <1>6
<1> HIDE DEF told, last
<1>9. heard[g] = IF g \in change.unassigned THEN NoEntry ELSE told[g]
  BY DEF Dropped
<1> HIDE DEF heard
<1>10. Deserted(heard, change.left)[g]
         = IF g \in Owned(heard) /\ heard[g].consumer \in change.left THEN NoEntry ELSE heard[g]
  BY DEF Deserted, Dropped, OwnedBy, Owned
<1>11. g \in Owned(heard) <=> Stands(was, change, g) /\ g \notin change.unassigned
  BY <1>7, <1>8, <1>9 DEF Owned
<1>12. Deserted(heard, change.left)[g]
         = IF ~Stands(was, change, g) \/ g \in change.unassigned \/ word.consumer \in change.left
           THEN NoEntry ELSE last
  BY <1>7, <1>8, <1>9, <1>10, <1>11
<1>13. Worked(was.grants, change) = Deserted(heard, change.left)
  BY DEF Worked, Heard, heard, told, given, kept
<1>14. Fate(was, change, g)
         = IF ~Stands(was, change, g) \/ g \in change.unassigned \/ word.consumer \in change.left
           THEN NoEntry ELSE last
  BY DEF Fate, word, last
<1>15. QED
  BY <1>12, <1>13, <1>14

LEMMA ChangeFollowed ==
  ASSUME NEW m, Good(m), Exact(m), NEW was \in Described, m.grants = was.grants,
         NEW change \in Change, Stays(m.grants, change.assigned)
  PROVE  /\ Exact(ApplyChange(m, change))
         /\ ApplyChange(m, change).grants = Meant(was, change).grants
<1>1. /\ Exact(ApplyChange(m, change))
      /\ ApplyChange(m, change).grants = Worked(was.grants, change)
  BY ChangeExact
<1>2. Worked(was.grants, change) = [g \in GrantId |-> Worked(was.grants, change)[g]]
  BY DEF Worked, Deserted, Dropped
<1>3. Meant(was, change).grants = [g \in GrantId |-> Fate(was, change, g)]
  BY DEF Meant
<1>4. QED
  BY <1>1, <1>2, <1>3, WorkedIsFate

\* As long as the truth is followed the view has its shards and knows its
\* consumers, at the same endpoints but for those readdressed; and until a
\* grant is moved the view is exact, with the same grants.
Agree(m, n, except) ==
  /\ m.shards = n.shards
  /\ Known(m) = Known(n)
  /\ \A c \in Known(m) \ except : m.instance[c] = n.instance[c]

Followed ==
  ~skipped => /\ Agree(view, truth, stale)
              /\ ~moved => Exact(view) /\ view.grants = truth.grants

\* The consumers and their endpoints, after a change.
LEMMA ChangeAgrees ==
  ASSUME NEW change \in Change, IInv, Agree(view, truth, stale)
  PROVE  Agree(ApplyChange(view, change), Meant(truth, change),
               ((stale \ DOMAIN change.instance) \union Readdressed(change)) \ change.left)
<1> DEFINE named == change.instance
           left  == change.left
           after == ((stale \ DOMAIN named) \union Readdressed(change)) \ left
           vi    == ApplyChange(view, change).instance
           ti    == Meant(truth, change).instance
<1>1. /\ vi = Without(Over(view.instance, named), left)
      /\ ApplyChange(view, change).shards = IF change.reshards THEN change.shards ELSE view.shards
  BY ChangeInstance DEF IInv
<1>2. /\ ti = [c \in (DOMAIN truth.instance \union DOMAIN named) \ left |->
                IF c \in DOMAIN named THEN named[c] ELSE truth.instance[c]]
      /\ Meant(truth, change).shards = IF change.reshards THEN change.shards ELSE truth.shards
  BY DEF Meant
<1>3. /\ DOMAIN vi = (DOMAIN view.instance \union DOMAIN named) \ left
      /\ DOMAIN ti = (DOMAIN truth.instance \union DOMAIN named) \ left
  BY <1>1, <1>2 DEF Over, Without
<1>4. DOMAIN view.instance = DOMAIN truth.instance /\ view.shards = truth.shards
  BY DEF Agree, Known
<1>5. ASSUME NEW c \in DOMAIN vi, c \notin after
      PROVE  vi[c] = ti[c]
  <2>1. /\ c \notin left
        /\ vi[c] = IF c \in DOMAIN view.instance THEN view.instance[c] ELSE named[c]
        /\ ti[c] = IF c \in DOMAIN named THEN named[c] ELSE truth.instance[c]
    BY <1>1, <1>2, <1>3, <1>4, <1>5 DEF Over, Without
  <2>2. CASE c \in DOMAIN named
    BY <1>5, <2>1, <2>2 DEF Readdressed, Known
  <2>3. CASE c \notin DOMAIN named
    <3>1. c \in DOMAIN view.instance /\ c \notin stale
      BY <1>3, <1>5, <2>1, <2>3
    <3>2. view.instance[c] = truth.instance[c]
      BY <3>1 DEF Agree, Known
    <3>3. QED
      BY <2>1, <2>3, <3>1, <3>2
  <2>4. QED
    BY <2>2, <2>3
<1> HIDE DEF after
<1>6. QED
  BY <1>1, <1>2, <1>3, <1>4, <1>5 DEF Agree, Known, after

LEMMA SnapshotExact ==
  ASSUME NEW change \in Change
  PROVE  /\ Exact(ApplySnapshot(change))
         /\ ApplySnapshot(change).grants = Told(change).grants
         /\ Agree(ApplySnapshot(change), Told(change), {})
<1> DEFINE bare == [Empty EXCEPT !.shards = change.shards]
<1>1. /\ Good(bare) /\ Exact(bare) /\ bare.grants = [g \in GrantId |-> NoEntry]
      /\ bare.instance = Nobody /\ bare.shards = change.shards
  <2>1. change.shards \in SUBSET Shard
    BY DEF Change
  <2>2. Good(bare)
    BY <2>1, EmptyGood DEF Good, Map, WellFormed, Known
  <2>3. /\ bare.grants = [g \in GrantId |-> NoEntry]
        /\ bare.listed = [c \in Consumer |-> {}]
        /\ bare.instance = Nobody /\ bare.shards = change.shards
    BY DEF Empty
  <2>4. \A c \in Consumer : OwnedBy(bare.grants, c) = {}
    BY <2>3 DEF OwnedBy, Owned
  <2>5. QED
    BY <2>2, <2>3, <2>4 DEF Exact
<1>2. Stays(bare.grants, change.assigned)
  BY <1>1 DEF Stays, Owned
<1>3. change.instance \in Instances /\ change.assigned \in Grants
  BY DEF Change
<1> HIDE DEF bare
<1>4. /\ Exact(Assign(bare, change.instance, change.assigned))
      /\ Assign(bare, change.instance, change.assigned).grants
           = Assigned(bare.grants, change.assigned)
  BY <1>1, <1>2, <1>3, AssignExact
<1>5. Assigned(bare.grants, change.assigned) = change.assigned
  <2>1. \A g \in GrantId : Assigned(bare.grants, change.assigned)[g] = change.assigned[g]
    BY <1>1 DEF Assigned, Owned
  <2>2. change.assigned = [g \in GrantId |-> change.assigned[g]]
    BY <1>3 DEF Grants
  <2>3. Assigned(bare.grants, change.assigned)
          = [g \in GrantId |-> Assigned(bare.grants, change.assigned)[g]]
    BY DEF Assigned
  <2>4. QED
    BY <2>1, <2>2, <2>3
<1>6. /\ Assign(bare, change.instance, change.assigned).instance = Over(Nobody, change.instance)
      /\ Assign(bare, change.instance, change.assigned).shards = change.shards
  BY <1>1 DEF Assign, Good, Map
<1>7. Over(Nobody, change.instance) = change.instance
  <2>1. DOMAIN Nobody = {}
    BY DEF Nobody
  <2>2. Over(Nobody, change.instance) = [c \in DOMAIN change.instance |-> change.instance[c]]
    BY <2>1 DEF Over
  <2>3. PICK known \in SUBSET Consumer : change.instance \in [known -> Endpoint]
    BY <1>3, InstancesAre
  <2>4. QED
    BY <2>2, <2>3
<1>8. ApplySnapshot(change) = Assign(bare, change.instance, change.assigned)
  BY DEF ApplySnapshot, bare
<1>9. QED
  BY <1>4, <1>5, <1>6, <1>7, <1>8 DEF Told, Agree, Known

LEMMA StepFollowed == IInv /\ Followed /\ [Next]_vars => Followed'
<1> SUFFICES ASSUME IInv, Followed, [Next]_vars PROVE Followed'
  OBVIOUS
<1>1. ASSUME NEW change \in Sent, ReceiveChange(change), ~skipped' PROVE Followed'
  <2>1. change \in Change /\ ~skipped
    BY <1>1, SentAssumption DEF ReceiveChange
  <2>2. /\ view' = ApplyChange(view, change) /\ truth' = Meant(truth, change)
        /\ moved' = (moved \/ Moves(change))
        /\ stale' = ((stale \ DOMAIN change.instance) \union Readdressed(change)) \ change.left
    BY <1>1, <2>1 DEF ReceiveChange, Follow
  <2>3. Agree(view, truth, stale) /\ (~moved => Exact(view) /\ view.grants = truth.grants)
    BY <2>1 DEF Followed
  <2>4. Agree(view', truth', stale')
    BY <2>1, <2>2, <2>3, ChangeAgrees
  <2>5. ASSUME ~moved' PROVE Exact(view') /\ view'.grants = truth'.grants
    <3>1. ~moved /\ ~Moves(change)
      BY <2>2, <2>5
    <3>2. Exact(view) /\ view.grants = truth.grants /\ Stays(view.grants, change.assigned)
      BY <2>3, <3>1 DEF Moves, Stays
    <3>3. Good(view) /\ truth \in Described
      BY DEF IInv, TypeOK
    <3>4. QED
      BY <2>1, <2>2, <3>2, <3>3, ChangeFollowed
  <2>6. QED
    BY <2>4, <2>5 DEF Followed
<1>2. ASSUME NEW change \in Sent, ReceiveSnapshot(change) PROVE Followed'
  <2>1. view' = ApplySnapshot(change) /\ truth' = Told(change) /\ stale' = {}
    BY <1>2 DEF ReceiveSnapshot
  <2>2. change \in Change
    BY SentAssumption
  <2>3. QED
    BY <2>1, <2>2, SnapshotExact DEF Followed
<1>3. ASSUME NEW change \in Sent, DropMessage(change) PROVE Followed'
  BY <1>3 DEF DropMessage, Followed
<1>4. CASE UNCHANGED vars
  BY <1>4 DEF vars, Followed, Agree, Exact, Known
<1>5. QED
  BY <1>1, <1>2, <1>3, <1>4 DEF Next, Followed

LEMMA InitFollowed == Init => Followed
<1>1. \A c \in Consumer : OwnedBy(Empty.grants, c) = {} /\ Empty.listed[c] = {}
  BY DEF Empty, OwnedBy, Owned
<1>2. /\ Empty.grants = Nothing.grants /\ Empty.shards = Nothing.shards
      /\ Empty.instance = Nothing.instance
  BY DEF Empty, Nothing
<1>3. QED
  BY <1>1, <1>2 DEF Init, Followed, Agree, Known, Exact

(* For any consumers, grants, shards and messages: unless a change has been *)
(* dropped, the published map has the shards the coordinator described and  *)
(* the consumers, at their endpoints, and what was said of each grant,      *)
(* within the exceptions of the property (cluster.rs:87-145, 203-266).      *)
THEOREM MirrorsAlways == Spec => []MirrorsWhatArrived
<1>1. Init => IInv /\ Followed
  BY EmptyGood, NothingTyped, InitFollowed DEF Init, IInv, TypeOK, Good
<1>2. IInv /\ Followed /\ [Next]_vars => IInv' /\ Followed'
  BY StepIInv, StepFollowed
<1>3. Followed => MirrorsWhatArrived
  BY DEF Followed, MirrorsWhatArrived, Mirrors, Agree
<1>4. QED
  BY <1>1, <1>2, <1>3, PTL DEF Spec
-----------------------------------------------------------------------------
(* The lookup.  The states are asked for one after the other, so what is   *)
(* found is found for the first of them that finds anything.               *)
Hits(m, key, i) == {g \in Owned(m.grants) : m.grants[g].state = DefaultStates[i]
                                            /\ ShardCovers(m.grants[g].shard, key)}

LEMMA CoversKeys ==
  ASSUME NEW shard \in Shard, NEW key \in Key
  PROVE  ShardCovers(shard, key) <=> key \in KeysOf(shard)
<1>1. shard.from \in Nat /\ shard.to \in Nat /\ key.key \in Nat
  BY ShardAssumption
<1>2. /\ key.key \in shard.from..(IF shard.to = 0 THEN key.key ELSE shard.to - 1)
           <=> shard.from <= key.key /\ (shard.to = 0 \/ key.key < shard.to)
      /\ shard.from = 0 => shard.from <= key.key
  BY <1>1
<1>3. QED
  BY <1>2 DEF ShardCovers, KeysOf

LEMMA FirstFound ==
  ASSUME NEW m, NEW key
  PROVE  /\ Lookup(m, key, <<>>) \subseteq UNION {Hits(m, key, i) : i \in 1..4}
         /\ Lookup(m, key, <<>>) = {} => \A i \in 1..4 : Hits(m, key, i) = {}
<1> DEFINE Found(i) == Hits(m, key, i)
           first == {j \in 1..4 : \A k \in 1..(j - 1) : Found(k) = {}}
<1>1. DOMAIN DefaultStates = 1..4
  BY DEF DefaultStates
<1>2. Lookup(m, key, <<>>) = UNION {Found(i) : i \in first}
  BY <1>1 DEF Lookup, Hits
<1> HIDE DEF Found
<1>3. ASSUME UNION {Found(i) : i \in first} = {}
      PROVE  \A i \in 1..4 : Found(i) = {}
  <2>1. \A i \in first : Found(i) = {}
    BY <1>3
  <2>2. Found(1) = {}
    BY <2>1
  <2>3. Found(2) = {}
    BY <2>1, <2>2
  <2>4. Found(3) = {}
    BY <2>1, <2>2, <2>3
  <2>5. Found(4) = {}
    BY <2>1, <2>2, <2>3, <2>4
  <2>6. QED
    BY <2>2, <2>3, <2>4, <2>5
<1>4. first \subseteq 1..4
  OBVIOUS
<1> HIDE DEF first
<1>5. UNION {Found(i) : i \in first} \subseteq UNION {Found(i) : i \in 1..4}
  BY <1>4
<1>6. QED
  BY <1>2, <1>3, <1>5 DEF Found

(* For any keys, shards and messages: within the exceptions of the         *)
(* property a lookup finds an owner exactly for a key that is given out,   *)
(* and leads to its endpoint (cluster.rs:147-172, 272-289).                *)
THEOREM LookupAlwaysLeads == Spec => []LookupLeadsToOwner
<1>1. IInv /\ Followed => LookupLeadsToOwner
  <2> SUFFICES ASSUME IInv, Followed, ~skipped, ~moved, NEW key \in Key
               PROVE  /\ Lookup(view, key, <<>>) = {} <=> Given(key) = {}
                      /\ \A g \in Lookup(view, key, <<>>) :
                           /\ g \in Given(key)
                           /\ \/ truth.grants[g].consumer \in stale
                              \/ view.instance[truth.grants[g].consumer]
                                   = truth.instance[truth.grants[g].consumer]
    BY DEF LookupLeadsToOwner
  <2>1. view.grants = truth.grants /\ Agree(view, truth, stale)
    BY DEF Followed
  <2>2. \A g \in Owned(view.grants) :
          ShardCovers(view.grants[g].shard, key) <=> key \in KeysOf(view.grants[g].shard)
    <3>1. \A g \in Owned(view.grants) : view.grants[g].shard \in Shard
      BY DEF IInv, Good, Map, Grants, Entry, Owned
    <3>2. QED
      BY <3>1, CoversKeys
  <2>3. DOMAIN DefaultStates = 1..4
    BY DEF DefaultStates
  <2>4. Given(key) = UNION {Hits(view, key, i) : i \in 1..4}
    BY <2>1, <2>2, <2>3 DEF Given, Hits
  <2>5. \A g \in Given(key) : truth.grants[g].consumer \in Known(view)
    BY <2>1 DEF IInv, Good, WellFormed, Given
  <2>6. \A g \in Given(key) :
          \/ truth.grants[g].consumer \in stale
          \/ view.instance[truth.grants[g].consumer] = truth.instance[truth.grants[g].consumer]
    BY <2>1, <2>5 DEF Agree
  <2>7. Lookup(view, key, <<>>) \subseteq Given(key)
    BY <2>4, FirstFound
  <2>8. Lookup(view, key, <<>>) = {} => Given(key) = {}
    BY <2>4, FirstFound
  <2>9. QED
    BY <2>6, <2>7, <2>8
<1>2. Init => IInv /\ Followed
  BY EmptyGood, NothingTyped, InitFollowed DEF Init, IInv, TypeOK, Good
<1>3. IInv /\ Followed /\ [Next]_vars => IInv' /\ Followed'
  BY StepIInv, StepFollowed
<1>4. QED
  BY <1>1, <1>2, <1>3, PTL DEF Spec
=============================================================================
