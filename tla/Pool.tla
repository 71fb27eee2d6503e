-------------------------------- MODULE Pool --------------------------------
(***************************************************************************)
(* The connection pool (pool.rs): one updater task applies the cluster map *)
(* that is the latest when it looks.  apply_cluster compares the map with  *)
(* the entries under the read lock, lets the lock go, and then dials and   *)
(* drops under the write lock; lookups read the entries in between.  The   *)
(* driver (external here, see ClusterMap) may publish at any time.         *)
(*                                                                         *)
(* A map is the endpoint each consumer advertises.  Dialling is the user's *)
(* function, or tonic's lazy connect, and may fail for any endpoint.  An   *)
(* entry remembers how often its peer was dialled, modulo two: enough to   *)
(* tell a new channel from the one it replaces.                            *)
(***************************************************************************)
EXTENDS Naturals

CONSTANTS Peer,      \* the instances of the cluster
          Owner,     \* the instance that owns the pool
          Endpoint   \* the endpoints that are advertised

ASSUME OwnerAssumption == Owner \in Peer

\* A consumer that has left, and one that advertises nothing.
Absent == "absent"
Silent == "silent"

ASSUME EndpointAssumption == {Absent, Silent} \intersect Endpoint = {}

VARIABLES
  published,   \* the map in the watch channel
  changed,     \* has the updater yet to look at it?
  updater,     \* "idle", "scan" or "dial"
  snap,        \* the map the updater is applying
  plan,        \* the peers it is going to dial
  entries,     \* ConnectionPool::entries
  failed       \* history: the peers whose dial failed in the last application

poolVars == <<published, changed, updater, snap, plan, entries, failed>>
updaterVars == <<updater, snap, plan, entries, failed>>

Maps == [Peer -> Endpoint \union {Absent, Silent}]

NoEntry == [endpoint |-> Absent, dials |-> 0]
Entries == [endpoint : Endpoint, dials : {0, 1}]

\* One type invariant for the pool and its updater (pool.rs:24-40).
PoolTypeOK ==
  /\ published \in Maps /\ snap \in Maps
  /\ changed \in BOOLEAN
  /\ updater \in {"idle", "scan", "dial"}
  /\ plan \subseteq Peer /\ failed \subseteq Peer
  /\ entries \in [Peer -> Entries \union {NoEntry}]

\* build() seeds the pool with what has been published by then, and the
\* updater that follows starts with nothing seen.
PoolInit ==
  /\ published \in Maps /\ snap = published
  /\ changed = TRUE
  /\ updater = "scan"
  /\ plan = {} /\ failed = {}
  /\ entries = [p \in Peer |-> NoEntry]

Publish ==
  /\ published' \in Maps
  /\ changed' = TRUE
  /\ UNCHANGED updaterVars

\* changed(), then borrow_and_update().clone().
Look ==
  /\ updater = "idle" /\ changed
  /\ updater' = "scan" /\ changed' = FALSE
  /\ snap' = published
  /\ UNCHANGED <<published, plan, entries, failed>>

\* The peers to be kept: all that advertise an endpoint, but oneself.
Seen(map) == {p \in Peer \ {Owner} : map[p] \in Endpoint}

\* Dial everybody, whether the endpoint has changed or not.
ScanAll ==
  /\ updater = "scan" /\ updater' = "dial"
  /\ plan' = Seen(snap)
  /\ UNCHANGED <<published, changed, snap, entries, failed>>

\* Under the read lock: who is new, and whose endpoint has changed?
Scan ==
  /\ updater = "scan" /\ updater' = "dial"
  /\ plan' = {p \in Seen(snap) : entries[p].endpoint # snap[p]}
  /\ UNCHANGED <<published, changed, snap, entries, failed>>

\* The shortcut of an application that dials nobody, without the retain.
DialKeepsDeparted ==
  /\ updater = "dial" /\ updater' = "idle"
  /\ \E bad \in SUBSET plan :
       /\ failed' = bad
       /\ entries' =
            [p \in Peer |->
               IF p \in plan \ bad
               THEN [endpoint |-> snap[p], dials |-> 1 - entries[p].dials]
               ELSE IF p \in Seen(snap) \/ plan = {} THEN entries[p] ELSE NoEntry]
  /\ UNCHANGED <<published, changed, snap, plan>>

\* Under the write lock: dial and insert, keep what was there if the dial
\* fails, and retain the peers that were seen.
Dial ==
  /\ updater = "dial" /\ updater' = "idle"
  /\ \E bad \in SUBSET plan :
       /\ failed' = bad
       /\ entries' =
            [p \in Peer |->
               IF p \in plan \ bad
               THEN [endpoint |-> snap[p], dials |-> 1 - entries[p].dials]
               ELSE IF p \in Seen(snap) THEN entries[p] ELSE NoEntry]
  /\ UNCHANGED <<published, changed, snap, plan>>

PoolNext == Publish \/ Look \/ Scan \/ Dial

PoolSpec == PoolInit /\ [][PoolNext]_poolVars
-----------------------------------------------------------------------------
\* resolve(): the channel a lookup of this peer is given.
Resolve(p) == IF p = Owner THEN NoEntry ELSE entries[p]

(* An updater at rest that has seen the last map has made the pool from    *)
(* it: nobody is in it who is not to be reached, itself included, and      *)
(* everybody else is, at the endpoint the map gives, but for a peer whose  *)
(* dial has just failed (pool.rs:80-126).                                  *)
Mirrors(map) ==
  \A p \in Peer :
    /\ p \notin Seen(map) => entries[p] = NoEntry
    /\ p \in Seen(map) \ failed => Resolve(p).endpoint = map[p]

InSync == updater = "idle" => Mirrors(snap) /\ (~changed => snap = published)

(* What every step preserves: besides, the plan that is carried from the   *)
(* read lock to the write lock still is what the entries ask for, and the  *)
(* pool never holds its owner (pool.rs:87-120).                            *)
PoolIInv ==
  /\ PoolTypeOK /\ InSync
  /\ entries[Owner] = NoEntry
  /\ ~changed => snap = published
  /\ updater = "dial" => plan = {p \in Seen(snap) : entries[p].endpoint # snap[p]}

(* A peer that stays at its endpoint keeps its channel, and with it the    *)
(* connection and the calls under way (pool.rs:99-103).                    *)
ChannelsKept ==
  [][\A p \in Peer :
       entries[p] # NoEntry /\ snap[p] = entries[p].endpoint
         => entries'[p] = entries[p]]_poolVars
=============================================================================
