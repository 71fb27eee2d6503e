----------------------------- MODULE ClusterMap -----------------------------
(***************************************************************************)
(* The consumer's picture of the cluster (cluster.rs): the driver applies  *)
(* every cluster message to the last map and publishes the result; a       *)
(* message that cannot be decoded leaves the map as it is.  The map holds  *)
(* ownership twice, as the owner of each grant and as the grants of each   *)
(* consumer, and the handlers read now one and now the other.              *)
(*                                                                         *)
(* The coordinator (external) is here with what its messages describe: the *)
(* consumers, the shards and the owner of each grant, without any list of  *)
(* a consumer's grants.  It is read off cluster.proto, message by message, *)
(* and shares no step with the handlers of the client.  A message names a  *)
(* grant at most once in each of its parts.  A consumer's list is a set:   *)
(* the duplicates that a repeated assignment leaves in the Vec are not     *)
(* told apart.                                                             *)
(***************************************************************************)
EXTENDS Naturals

CONSTANTS Consumer, GrantId, Endpoint,
          Shard, Key,
          State     \* the grant states that are told apart

\* A bound of a shard's range is a position in the order of the keys; the
\* empty string, which is before all keys, is 0.
ASSUME ShardAssumption ==
  /\ Shard \subseteq [domain : STRING, region : STRING, from : Nat, to : Nat]
  /\ Key \subseteq [domain : STRING, region : STRING, key : Nat]

VARIABLES
  view,      \* the map the driver has published
  truth,     \* the cluster the coordinator has described
  skipped,   \* history: a change has been dropped since the last snapshot,
             \* until which the truth is not followed
  moved,     \* history: since then an Assign has taken a grant from another
             \* consumer
  stale      \* history: the consumers whose last Assign named an Instance
             \* other than the one in the map

vars == <<view, truth, skipped, moved, stale>>

Entry == [consumer : Consumer, shard : Shard, state : State]
NoEntry == [consumer |-> {}]
Grants == [GrantId -> Entry \union {NoEntry}]
Owned(grants) == {g \in GrantId : grants[g] # NoEntry}
OwnedBy(grants, c) == {g \in Owned(grants) : grants[g].consumer = c}

\* The consumers that are known, each with the Instance it was entered with.
Instances == UNION {[known -> Endpoint] : known \in SUBSET Consumer}
Nobody == [c \in {} |-> c]

Map == [instance : Instances, shards : SUBSET Shard, grants : Grants,
        listed : [Consumer -> SUBSET GrantId]]
Known(m) == DOMAIN m.instance

\* A consumer that is not in the map lists nothing.
Empty == [instance |-> Nobody, shards |-> {}, grants |-> [g \in GrantId |-> NoEntry],
          listed |-> [c \in Consumer |-> {}]]

\* What the coordinator's messages can describe.
Described == [instance : Instances, shards : SUBSET Shard, grants : Grants]
Nothing == [instance |-> Nobody, shards |-> {}, grants |-> [g \in GrantId |-> NoEntry]]

\* One type invariant for the map and what it is a map of (cluster.rs:20-47).
TypeOK ==
  /\ view \in Map /\ truth \in Described
  /\ skipped \in BOOLEAN /\ moved \in BOOLEAN /\ stale \subseteq Consumer

Init ==
  /\ view = Empty /\ truth = Nothing
  /\ skipped = FALSE /\ moved = FALSE /\ stale = {}
-----------------------------------------------------------------------------
(* The parts of a change, each as what it does to a map.                   *)

\* drop_grant: out of the grants, and out of the list of its owner.
DropGrants(m, gone) ==
  [m EXCEPT !.grants = [g \in GrantId |-> IF g \in gone THEN NoEntry ELSE @[g]],
            !.listed = [c \in Consumer |-> @[c] \ (gone \intersect OwnedBy(m.grants, c))]]

\* Shards without a look at the grants that are there.
KeepShardsUnswept(m, shards) == [m EXCEPT !.shards = shards]

\* Shards: the new set, and no grant of a shard outside it.
KeepShards(m, shards) ==
  DropGrants([m EXCEPT !.shards = shards],
             {g \in Owned(m.grants) : m.grants[g].shard \notin shards})

\* Two sets of instances, the first of which prevails.
Over(first, second) ==
  [c \in DOMAIN first \union DOMAIN second |->
     IF c \in DOMAIN first THEN first[c] ELSE second[c]]

\* apply_assignment that does not list what it assigns.
AssignUnlisted(m, instance, assigned) ==
  [m EXCEPT !.instance = Over(@, instance),
            !.grants = [g \in GrantId |-> IF g \in Owned(assigned) THEN assigned[g] ELSE @[g]]]

\* apply_assignment: consumers are entered unless they are there, grants are
\* listed and inserted.
Assign(m, instance, assigned) ==
  [m EXCEPT !.instance = Over(@, instance),
            !.listed = [c \in Consumer |-> @[c] \union OwnedBy(assigned, c)],
            !.grants = [g \in GrantId |-> IF g \in Owned(assigned) THEN assigned[g] ELSE @[g]]]

\* update_grant, of a grant that is known.  An update that names no shard is
\* one that names the shard the grant has.
Update(m, updates) ==
  [m EXCEPT !.grants = [g \in GrantId |->
     IF g \in Owned(m.grants) /\ g \in DOMAIN updates
     THEN [consumer |-> @[g].consumer, shard |-> updates[g].shard, state |-> updates[g].state]
     ELSE @[g]]]

\* remove_consumer: with everything its own list names.
Without(instance, left) == [c \in DOMAIN instance \ left |-> instance[c]]

RemoveConsumers(m, left) ==
  LET gone == UNION {m.listed[c] : c \in left \intersect Known(m)} IN
  [m EXCEPT !.instance = Without(@, left),
            !.grants = [g \in GrantId |-> IF g \in gone THEN NoEntry ELSE @[g]],
            !.listed = [c \in Consumer |-> IF c \in left THEN {} ELSE @[c]]]

\* apply_change: the parts in the order of the code; an absent part is the
\* part that changes nothing, but for the shards.
ApplyChange(m, change) ==
  LET sharded  == IF change.reshards THEN KeepShards(m, change.shards) ELSE m
      assigned == Assign(sharded, change.instance, change.assigned)
      updated  == Update(assigned, change.updates)
      dropped  == DropGrants(updated, change.unassigned)
  IN RemoveConsumers(dropped, change.left)

\* apply_snapshot starts from nothing.
ApplySnapshot(change) ==
  Assign([Empty EXCEPT !.shards = change.shards], change.instance, change.assigned)
-----------------------------------------------------------------------------
(* The lookup by key.                                                      *)

\* The upper bound taken for part of the range.
ShardCoversEnd(shard, key) ==
  /\ shard.domain = key.domain
  /\ shard.region \in {"", key.region}
  /\ shard.from # 0 => shard.from <= key.key
  /\ shard.to # 0 => key.key <= shard.to

ShardCovers(shard, key) ==
  /\ shard.domain = key.domain
  /\ shard.region \in {"", key.region}
  /\ shard.from # 0 => shard.from <= key.key
  /\ shard.to # 0 => key.key < shard.to

DefaultStates == <<"ACTIVE", "REVOKED", "ALLOCATED_LOADED", "REVOKED_UNLOADED">>

\* The grants that a lookup may find: a HashMap is searched in any order.
Lookup(m, key, states) ==
  LET wanted  == IF states = <<>> THEN DefaultStates ELSE states
      Hits(i) == {g \in Owned(m.grants) : m.grants[g].state = wanted[i]
                                           /\ ShardCovers(m.grants[g].shard, key)}
  IN UNION {Hits(i) : i \in {j \in DOMAIN wanted : \A k \in 1..(j - 1) : Hits(k) = {}}}
-----------------------------------------------------------------------------
(* The coordinator's messages, and what they say of the cluster.           *)

Updates == UNION {[known -> [shard : Shard, state : State]] : known \in SUBSET GrantId}
Change ==
  {change \in [reshards : BOOLEAN, shards : SUBSET Shard, instance : Instances,
               assigned : Grants, updates : Updates,
               unassigned : SUBSET GrantId, left : SUBSET Consumer] :
     \A g \in Owned(change.assigned) :
       change.assigned[g].consumer \in DOMAIN change.instance}

\* A snapshot tells all there is.
Told(change) ==
  [instance |-> change.instance, shards |-> change.shards, grants |-> change.assigned]

\* A change, for each grant of the cluster it found.  The grant is in it if it
\* is newly assigned, or was there and its shard is still valid, unless it is
\* unassigned or its owner has left.  Its owner is the last one assigned, its
\* shard and state are the last ones told.  (The comments of cluster.proto do
\* not say which part of one change has the last word on a grant: here, as for
\* the client, an Update does over an Assign, and either over the Shards.)
Stands(was, change, g) ==
  \/ g \in Owned(change.assigned)
  \/ g \in Owned(was.grants) /\ (change.reshards => was.grants[g].shard \in change.shards)

Fate(was, change, g) ==
  LET word == IF g \in Owned(change.assigned) THEN change.assigned[g] ELSE was.grants[g]
  IN IF ~Stands(was, change, g) \/ g \in change.unassigned \/ word.consumer \in change.left
     THEN NoEntry
     ELSE IF g \in DOMAIN change.updates
          THEN [consumer |-> word.consumer, shard |-> change.updates[g].shard,
                state |-> change.updates[g].state]
          ELSE word

\* A consumer is at the endpoint it was last named with, until it leaves.
Meant(was, change) ==
  [instance |-> [c \in (DOMAIN was.instance \union DOMAIN change.instance) \ change.left |->
                   IF c \in DOMAIN change.instance THEN change.instance[c] ELSE was.instance[c]],
   shards   |-> IF change.reshards THEN change.shards ELSE was.shards,
   grants   |-> [g \in GrantId |-> Fate(was, change, g)]]

\* An Assign of a grant that has another owner.
Moves(change) ==
  \E g \in Owned(change.assigned) \intersect Owned(truth.grants) :
    change.assigned[g].consumer # truth.grants[g].consumer

\* Consumers whose Instance in the map is not the one they were assigned with.
Readdressed(change) ==
  {c \in DOMAIN change.instance \intersect Known(view) :
     change.instance[c] # view.instance[c]}

Follow(change) ==
  /\ truth' = Meant(truth, change)
  /\ moved' = (moved \/ Moves(change))
  /\ stale' = ((stale \ DOMAIN change.instance) \union Readdressed(change)) \ change.left

ReceiveChange(change) ==
  /\ view' = ApplyChange(view, change)
  /\ IF skipped THEN UNCHANGED <<truth, moved, stale>> ELSE Follow(change)
  /\ UNCHANGED skipped

\* A shard or an instance of the message cannot be decoded: it is logged, and
\* all of the message is dropped.
Undecodable(change) ==
  change.reshards \/ DOMAIN change.instance # {} \/ DOMAIN change.updates # {}

DropMessage(change) ==
  /\ Undecodable(change)
  /\ skipped' = TRUE
  /\ truth' = Nothing /\ moved' = FALSE /\ stale' = {}
  /\ UNCHANGED view

ReceiveSnapshot(change) ==
  /\ truth' = Told(change)
  /\ view' = ApplySnapshot(change)
  /\ skipped' = FALSE /\ moved' = FALSE /\ stale' = {}

CONSTANT Sent    \* the messages that are exercised
ASSUME SentAssumption == Sent \subseteq Change

Next == \E change \in Sent :
          ReceiveChange(change) \/ ReceiveSnapshot(change) \/ DropMessage(change)

Spec == Init /\ [][Next]_vars
-----------------------------------------------------------------------------
(* The two sides of the map agree as far as its readers need: a grant that *)
(* can be looked up belongs to a consumer of the map that lists it, so a   *)
(* lookup leads to an instance and Remove of it takes the grant away       *)
(* (cluster.rs:147-172, 203-266; resolver.rs:59-83).                       *)
WellFormed(m) ==
  /\ \A g \in Owned(m.grants) :
       /\ m.grants[g].consumer \in Known(m)
       /\ g \in m.listed[m.grants[g].consumer]
  /\ \A c \in Consumer : m.listed[c] # {} => c \in Known(m)

OwnersKnown == TypeOK /\ WellFormed(view)

(* The map the client publishes is the cluster the coordinator described,  *)
(* as long as no change had to be dropped since the last snapshot: the     *)
(* same shards; the same consumers, at the same endpoints but for those    *)
(* who were assigned with another Instance while they were known; and,     *)
(* unless a grant was assigned away from its consumer, the same grants,    *)
(* each with the owner, shard and state it was last told to have, though   *)
(* the handlers take the parts of a change one after the other and read    *)
(* the consumers' lists where the message speaks of owners (cluster.rs:    *)
(* 87-145, 203-266).                                                       *)
Mirrors ==
  /\ view.shards = truth.shards
  /\ Known(view) = Known(truth)
  /\ \A c \in Known(view) \ stale : view.instance[c] = truth.instance[c]
  /\ ~moved => view.grants = truth.grants

MirrorsWhatArrived == ~skipped => Mirrors

\* The keys of a shard, as an interval of the places in their order.
KeysOf(shard) ==
  LET places == {key.key : key \in Key}
      span   == {n \in places : n \in shard.from..(IF shard.to = 0 THEN n ELSE shard.to - 1)}
  IN {key \in Key : /\ key.domain = shard.domain
                    /\ shard.region = "" \/ shard.region = key.region
                    /\ key.key \in span}

(* A lookup finds somebody for a key exactly if the coordinator has given  *)
(* out a grant of the key's range that is served, or was; and it leads to  *)
(* the endpoint of that grant's consumer.  The exceptions are those of     *)
(* MirrorsWhatArrived (cluster.rs:147-172, 272-289; resolver.rs:59-83).    *)
Given(key) ==
  {g \in Owned(truth.grants) :
     /\ \E i \in DOMAIN DefaultStates : truth.grants[g].state = DefaultStates[i]
     /\ key \in KeysOf(truth.grants[g].shard)}

LookupLeadsToOwner ==
  ~skipped /\ ~moved =>
    \A key \in Key :
      /\ Lookup(view, key, <<>>) = {} <=> Given(key) = {}
      /\ \A g \in Lookup(view, key, <<>>) :
           LET c == truth.grants[g].consumer IN
           g \in Given(key) /\ (c \in stale \/ view.instance[c] = truth.instance[c])
=============================================================================
