----------------------------- MODULE Dispatcher -----------------------------
(***************************************************************************)
(* The Dispatcher (dispatcher.rs): it joins, seeds the pool, subscribes to *)
(* the driver's broadcast of grant events and starts its background tasks; *)
(* the router hands every assigned Ownership to a task of its own that     *)
(* asks the filters one after the other.  The driver runs from the moment  *)
(* of the join and is the environment here (see Driver): it assigns,       *)
(* removes, publishes cluster maps, and leaves or fails.                   *)
(*                                                                         *)
(* The broadcast channel (tokio's, external) keeps the last Capacity       *)
(* events for a receiver; one that falls behind is told that it lagged and *)
(* goes on with the oldest event kept.  A filter is the user's code: it    *)
(* claims, declines or never answers.                                      *)
(***************************************************************************)
EXTENDS Lifecycle, SequencesExt

CONSTANTS Filters,     \* the number of filters in the chain
          Capacity,    \* capacity of the broadcast channel (256 in the code)
          MaxVersion   \* bound: cluster maps published

ASSUME DispatcherAssumption ==
  Filters \in Nat /\ Capacity \in Nat \ {0} /\ MaxVersion \in Nat

VARIABLES
  phase,      \* the Dispatcher: "joined", "seeded", "up", "draining", "down"
  driver,     \* the Join driver: "loop", "leaving", "closed", "failed"
  held,       \* the grants in its table
  queue,      \* the events kept for the router
  lagged,     \* has the router lost events it has not been told of?
  missed,     \* history: the Ownerships whose Assigned event never reached it
  router,     \* the router task: "none", "running", "aborted", "ended"
  chain,      \* where run_chain is for each Ownership
  declined,   \* how many filters have declined each Ownership
  claimed,    \* the Ownerships that a filter has claimed
  published,  \* the cluster map in the watch channel, as its version
  marked,     \* the version the updater's receiver has seen
  pool,       \* the version last applied to the pool
  closed      \* the Dispatcher's closed latch

routerVars == <<queue, lagged, missed, router>>
chainVars == <<chain, declined, claimed>>
poolVars == <<published, marked, pool>>
dispatcherVars == <<phase, driver, held, routerVars, chainVars, poolVars, closed>>
vars == <<lifecycleVars, dispatcherVars>>

Event == [kind : {"assigned", "removed"}, of : Ownership]
ChainStep == {"none", "started", "asking", "ended"}
Phases == {"joined", "seeded", "up", "draining", "down"}

\* One type invariant for the Dispatcher, its tasks and its channels
\* (dispatcher.rs:123-132).
TypeOK ==
  /\ LifecycleTypeOK
  /\ phase \in Phases
  /\ driver \in {"loop", "leaving", "closed", "failed"} /\ held \subseteq GrantId
  /\ queue \in Seq(Event) /\ Len(queue) <= Capacity
  /\ lagged \in BOOLEAN
  /\ missed \subseteq Ownership
  /\ router \in {"none", "running", "aborted", "ended"}
  /\ chain \in [Ownership -> ChainStep]
  /\ declined \in [Ownership -> 0..Filters] /\ claimed \subseteq Ownership
  /\ published \in 0..MaxVersion /\ marked \in 0..MaxVersion /\ pool \in 0..MaxVersion
  /\ closed \in BOOLEAN

\* join() has returned: the driver is running, and nobody listens to it.
Init ==
  /\ LifecycleInit
  /\ phase = "joined" /\ driver = "loop" /\ held = {}
  /\ queue = <<>> /\ lagged = FALSE /\ missed = {} /\ router = "none"
  /\ chain = [o \in Ownership |-> "none"]
  /\ declined = [o \in Ownership |-> 0] /\ claimed = {}
  /\ published = 0 /\ marked = 0 /\ pool = 0
  /\ closed = FALSE
-----------------------------------------------------------------------------
(* The driver's side of the channels.                                      *)

AssignedIn(events) ==
  {o \in Ownership : \E e \in ToSet(events) : e = [kind |-> "assigned", of |-> o]}

\* The router's receiver lives as long as its task.
Listening == router \in {"running", "aborted"}

\* A broadcast goes to the receivers that exist.
Broadcast(events) ==
  LET all == queue \o events
      over == IF Len(all) > Capacity THEN Len(all) - Capacity ELSE 0
      lost == IF Listening THEN SubSeq(all, 1, over) ELSE events
  IN
  /\ queue' = IF Listening THEN SubSeq(all, over + 1, Len(all)) ELSE queue
  /\ lagged' = (lagged \/ (Listening /\ over > 0))
  /\ missed' = missed \union AssignedIn(lost)
  /\ UNCHANGED router

Removal(g) ==
  IF g \notin held THEN <<>> ELSE <<[kind |-> "removed", of |-> <<g, gen[g]>>]>>

\* Which of the lifecycle's latches are closed matters to the filters alone,
\* except `expired`: the assigned state is ALLOCATED, nothing is signalled.
DriverAssigns(g, lapsed) ==
  /\ driver = "loop"
  /\ Assign(g, "ALLOCATED", lapsed)
  /\ held' = held \union {g}
  /\ Broadcast(Append(Removal(g), [kind |-> "assigned", of |-> <<g, gen[g] + 1>>]))
  /\ UNCHANGED <<phase, driver, chainVars, poolVars, closed>>

DriverPublishes ==
  /\ driver = "loop" /\ published < MaxVersion
  /\ published' = published + 1
  /\ UNCHANGED <<lifecycleVars, phase, driver, held, routerVars, chainVars, marked,
                 pool, closed>>

\* A lease lapses: nothing is broadcast.
LeaseLapses(o) == Expire(o) /\ UNCHANGED dispatcherVars

\* The loop breaks: every grant is expired and removed, then closed fires.
DriverLeaves ==
  /\ driver = "loop" /\ driver' = "leaving"
  /\ UNCHANGED <<lifecycleVars, phase, held, routerVars, chainVars, poolVars, closed>>

DriverRemoves(g) ==
  /\ driver = "leaving" /\ g \in held
  /\ Expire(<<g, gen[g]>>)
  /\ held' = held \ {g}
  /\ Broadcast(Removal(g))
  /\ UNCHANGED <<phase, driver, chainVars, poolVars, closed>>

DriverEnds ==
  /\ driver = "leaving" /\ held = {} /\ driver' = "closed"
  /\ UNCHANGED <<lifecycleVars, phase, held, routerVars, chainVars, poolVars, closed>>

DriverFails ==
  /\ driver = "loop" /\ driver' = "failed"
  /\ UNCHANGED <<lifecycleVars, phase, held, routerVars, chainVars, poolVars, closed>>
-----------------------------------------------------------------------------
(* build(): seed the pool, call the filters' init, subscribe, spawn.       *)

Seed ==
  /\ phase = "joined" /\ phase' = "seeded"
  /\ pool' = published
  /\ UNCHANGED <<lifecycleVars, driver, held, routerVars, chainVars, published, marked, closed>>

\* A receiver that counts what it finds at the spawn as seen.
StartMarksSeen ==
  /\ phase = "seeded" /\ phase' = "up"
  /\ router' = "running"
  /\ marked' = published
  /\ UNCHANGED <<lifecycleVars, driver, held, queue, lagged, missed, chainVars,
                 published, pool, closed>>

\* subscribe_grants() sees only what is sent from now on; the clone of the
\* cluster receiver has still seen nothing but the empty map.
Start ==
  /\ phase = "seeded" /\ phase' = "up"
  /\ router' = "running"
  /\ UNCHANGED <<lifecycleVars, driver, held, queue, lagged, missed, chainVars,
                 poolVars, closed>>
-----------------------------------------------------------------------------
(* The router and run_chain.                                               *)

\* A lagging receiver that jumps to the newest event.
RouteLaggedToTail ==
  /\ Listening /\ lagged /\ lagged' = FALSE
  /\ queue' = <<>>
  /\ UNCHANGED <<lifecycleVars, phase, driver, held, missed, router, chainVars,
                 poolVars, closed>>

\* Lagged: a warning, and on with the oldest event kept.
RouteLagged ==
  /\ Listening /\ lagged /\ lagged' = FALSE
  /\ UNCHANGED <<lifecycleVars, phase, driver, held, queue, missed, router, chainVars,
                 poolVars, closed>>

\* A router that takes a lag for the end of the stream.
RouteEventUnlessLagged ==
  /\ Listening /\ queue # <<>>
  /\ IF lagged
     THEN router' = "ended" /\ UNCHANGED <<queue, chain>>
     ELSE /\ queue' = Tail(queue) /\ UNCHANGED router
          /\ chain' = [o \in Ownership |->
                         IF o \in AssignedIn(<<Head(queue)>>) THEN "started" ELSE chain[o]]
  /\ UNCHANGED <<lifecycleVars, phase, driver, held, lagged, missed, declined,
                 claimed, poolVars, closed>>

\* Assigned spawns run_chain; Removed is only logged.
RouteEvent ==
  /\ Listening /\ ~lagged /\ queue # <<>>
  /\ queue' = Tail(queue)
  /\ chain' = [o \in Ownership |->
                 IF o \in AssignedIn(<<Head(queue)>>) THEN "started" ELSE chain[o]]
  /\ UNCHANGED <<lifecycleVars, phase, driver, held, lagged, missed, router, declined,
                 claimed, poolVars, closed>>

RouteClosed ==
  /\ Listening /\ ~lagged /\ queue = <<>> /\ driver \in {"closed", "failed"}
  /\ router' = "ended"
  /\ UNCHANGED <<lifecycleVars, phase, driver, held, queue, lagged, missed, chainVars,
                 poolVars, closed>>

\* abort() takes the task at its next wait, and its receiver with it; until
\* then a poll that is under way goes on.
AbortRouter == router' = IF router = "running" THEN "aborted" ELSE router

RouterStops ==
  /\ router = "aborted" /\ router' = "ended"
  /\ queue' = <<>> /\ lagged' = FALSE /\ missed' = missed \union AssignedIn(queue)
  /\ UNCHANGED <<lifecycleVars, phase, driver, held, chainVars, poolVars, closed>>

ChainAt(o, from, to) == chain[o] = from /\ chain' = [chain EXCEPT ![o] = to]

\* An Ownership that has expired by now is not offered to anybody.
ChainEnters(o) ==
  /\ ChainAt(o, "started", IF "expired" \in own[o] THEN "ended" ELSE "asking")
  /\ UNCHANGED <<lifecycleVars, phase, driver, held, routerVars, declined, claimed,
                 poolVars, closed>>

FilterClaims(o) ==
  /\ declined[o] < Filters /\ ChainAt(o, "asking", "ended")
  /\ claimed' = claimed \union {o}
  /\ UNCHANGED <<lifecycleVars, phase, driver, held, routerVars, declined, poolVars, closed>>

\* A chain that stops at the first refusal.
FilterDeclinesForAll(o) ==
  /\ declined[o] < Filters /\ ChainAt(o, "asking", "ended")
  /\ declined' = [declined EXCEPT ![o] = @ + 1]
  /\ UNCHANGED <<lifecycleVars, phase, driver, held, routerVars, claimed, poolVars, closed>>

FilterDeclines(o) ==
  /\ chain[o] = "asking" /\ declined[o] < Filters
  /\ declined' = [declined EXCEPT ![o] = @ + 1]
  /\ UNCHANGED <<lifecycleVars, phase, driver, held, routerVars, chain, claimed,
                 poolVars, closed>>

Relinquish(o) ==
  /\ declined[o] = Filters /\ ChainAt(o, "asking", "ended")
  /\ CloseLatch(o, "request_revoke")
  /\ UNCHANGED <<phase, driver, held, routerVars, declined, claimed, poolVars, closed>>
-----------------------------------------------------------------------------
(* The pool updater, the closed watcher, drain() and Drop.                 *)

\* changed(), then borrow_and_update().
UpdatePool ==
  /\ phase \in {"up", "draining"} /\ marked # published
  /\ marked' = published /\ pool' = published
  /\ UNCHANGED <<lifecycleVars, phase, driver, held, routerVars, chainVars, published, closed>>

WatchClosed ==
  /\ phase \in {"up", "draining"} /\ driver = "closed" /\ ~closed
  /\ closed' = TRUE
  /\ UNCHANGED <<lifecycleVars, phase, driver, held, routerVars, chainVars, poolVars>>

Drain ==
  /\ phase = "up" /\ phase' = "draining"
  /\ UNCHANGED <<lifecycleVars, driver, held, routerVars, chainVars, poolVars, closed>>

\* drain() without its timeout.
DrainReturnsLate ==
  /\ phase = "draining" /\ driver \in {"closed", "failed"} /\ phase' = "down"
  /\ AbortRouter /\ closed' = TRUE
  /\ UNCHANGED <<lifecycleVars, driver, held, queue, lagged, missed, chainVars, poolVars>>

\* shutdown() returns, or the timeout does: the tasks are aborted, and a driver
\* that has not ended is detached.  Drop does the same at any time.
DrainReturns ==
  /\ phase = "draining" /\ phase' = "down"
  /\ AbortRouter /\ closed' = TRUE
  /\ UNCHANGED <<lifecycleVars, driver, held, queue, lagged, missed, chainVars, poolVars>>

DropDispatcher ==
  /\ phase = "up" /\ phase' = "down"
  /\ AbortRouter /\ closed' = TRUE
  /\ UNCHANGED <<lifecycleVars, driver, held, queue, lagged, missed, chainVars, poolVars>>
-----------------------------------------------------------------------------
DriverStep ==
  \/ \E g \in GrantId, lapsed \in BOOLEAN : DriverAssigns(g, lapsed)
  \/ \E o \in Ownership : LeaseLapses(o)
  \/ \E g \in GrantId : DriverRemoves(g)
  \/ DriverPublishes \/ DriverLeaves \/ DriverEnds \/ DriverFails

Route == RouteLagged \/ RouteEvent \/ RouteClosed \/ RouterStops
Filter(o) == FilterClaims(o) \/ FilterDeclines(o)
Step(o) == ChainEnters(o) \/ Relinquish(o)

Next ==
  \/ DriverStep \/ Seed \/ Start \/ Route
  \/ \E o \in Ownership : Step(o) \/ Filter(o)
  \/ UpdatePool \/ WatchClosed \/ Drain \/ DrainReturns \/ DropDispatcher

Spec == Init /\ [][Next]_vars

(* build() does not wait for anything once it has joined; the tasks are    *)
(* polled; drain()'s timeout elapses.  The driver and the filters owe      *)
(* nothing.  A chain has finitely many steps, so that some chain that can  *)
(* go on does go on is enough.                                             *)
FairSpec ==
  /\ Spec
  /\ WF_vars(Seed \/ Start) /\ WF_vars(Route) /\ WF_vars(UpdatePool)
  /\ WF_vars(WatchClosed) /\ WF_vars(DrainReturns)
  /\ WF_vars(\E o \in Ownership : Step(o))
-----------------------------------------------------------------------------
Queued == AssignedIn(queue)

(* Every Ownership is accounted for once: its Assigned event waits for the *)
(* router, or has been handed to a chain, or was sent before the           *)
(* subscription or overwritten in the channel, and never two of them       *)
(* (dispatcher.rs:106, 186-209).                                           *)
Places(o) ==
  {place \in {"queued", "chained", "missed"} :
     \/ place = "queued" /\ o \in Queued
     \/ place = "chained" /\ chain[o] # "none"
     \/ place = "missed" /\ o \in missed}

Accounted ==
  \A o \in Ownership : Exists(o) => \E place \in {"queued", "chained", "missed"} : Places(o) = {place}

(* What has been queued for the router starts its chain, unless the        *)
(* channel overwrites it first or the Dispatcher goes down and the router  *)
(* with it (dispatcher.rs:169-171, 177-183, 191-207).                      *)
QueuedIsRouted ==
  \A o \in Ownership : o \in Queued ~> chain[o] # "none" \/ o \in missed

HandedBack(o) == "request_revoke" \in own[o]

(* No chain just ends: its Ownership has been claimed by a filter, or was  *)
(* over before it was offered, or is handed back, and it is handed back    *)
(* only when every filter has declined and none has claimed it             *)
(* (dispatcher.rs:217-230).                                                *)
Settled ==
  \A o \in Ownership :
    /\ chain[o] = "ended" =>
         o \in claimed \/ HandedBack(o) \/ ("expired" \in own[o] /\ declined[o] = 0)
    /\ HandedBack(o) => declined[o] = Filters /\ o \notin claimed

(* What every step preserves: what is in the channel is an assignment that *)
(* has been made, once; and what a chain has behind it at each step        *)
(* (dispatcher.rs:186-231).                                                *)
SentOnce(events) ==
  \A i, j \in DOMAIN events :
    events[i].kind = "assigned" /\ events[i] = events[j] => i = j

ChannelInv ==
  /\ \A g \in held : gen[g] # 0
  /\ SentOnce(queue)
  /\ \A o \in Ownership : Places(o) # {} => Exists(o)

Asked(o) ==
  /\ chain[o] # "ended" => o \notin claimed /\ ~HandedBack(o)
  /\ chain[o] \in {"none", "started"} => declined[o] = 0
  /\ chain[o] = "ended" =>
       \/ o \in claimed /\ ~HandedBack(o)
       \/ o \notin claimed /\ HandedBack(o) /\ declined[o] = Filters
       \/ o \notin claimed /\ ~HandedBack(o) /\ "expired" \in own[o] /\ declined[o] = 0

IInv == TypeOK /\ Accounted /\ ChannelInv /\ \A o \in Ownership : Asked(o)

(* The pool catches up with the last map the driver published, one that    *)
(* was published between the seeding and the spawn of the updater included *)
(* (dispatcher.rs:92-107, 233-243).                                        *)
PoolCatchesUp == (pool # published) ~> (pool = published \/ phase = "down")

(* The Dispatcher's closed latch fires after the driver's, and drain()     *)
(* comes to an end even if the driver never does                           *)
(* (dispatcher.rs:154-184, 245-250).                                       *)
ClosedFollows == (driver = "closed" \/ phase = "draining") ~> closed
=============================================================================
