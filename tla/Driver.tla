------------------------------- MODULE Driver -------------------------------
(***************************************************************************)
(* The consumer's Join driver (consumer.rs): one task owns the grant table *)
(* and runs a select! loop over shutdown, heartbeat and inbound messages.  *)
(* Each grant it holds has helper tasks of its own: watchers that forward  *)
(* the user's signals to the coordinator over the bounded outbound         *)
(* channel, and the expiration timer.  The coordinator (external) may send *)
(* any message at any time.                                                *)
(*                                                                         *)
(* A message with several grants is a run of messages with one grant each. *)
(* The lease deadline and the timer's steps are in LeaseTimer: here the    *)
(* timer of a live Ownership may fire at any time, and Extend moves        *)
(* nothing.                                                                *)
(***************************************************************************)
EXTENDS Grants, FiniteSets

CONSTANTS Watched,   \* the user's latches that are exercised
          Notified,  \* the counterpart's latches that are exercised
          OutCap     \* capacity of the outbound channel (64 in the code)

ASSUME DriverAssumption ==
  /\ Watched \subseteq UserLatch
  /\ Notified \subseteq {"loaded", "unloaded"}
  /\ OutCap \in Nat \ {0}

VARIABLES
  gen,       \* how often each grant has been assigned
  own,       \* the closed latches of each Ownership
  table,     \* Driver::grants: the assignment held for each grant, 0 if none
  flagged,   \* the grants whose entry has `revoked` set
  helper,    \* the state of each helper task of each Ownership
  aborted,   \* the Ownerships whose helpers have been aborted
  view,      \* the table as a subscriber of the grant events sees it
  loop,      \* where the driver task is
  armed,     \* is the shutdown branch of this turn of select! enabled?
  shutdown,  \* the shutdown latch of the JoinHandle
  closed,    \* the closed latch of the JoinHandle
  queued,    \* messages in the outbound channel
  outOpen    \* is the outbound receiver (the RPC) still there?

grantVars == <<gen, own, table, flagged, helper, aborted, view>>
loopVars  == <<loop, armed, shutdown, closed>>
outVars   == <<queued, outOpen>>
vars == <<grantVars, loopVars, outVars>>

Running == {"waiting", "sending"}
HelperState == Running \union {"none", "sent", "stopped"}
LoopState == {"start", "select", "heartbeat", "deregister", "goodbye",
              "cleanup", "exited", "failed"}

\* One type invariant for the driver, its table and its helpers
\* (consumer.rs:169-188).
TypeOK ==
  /\ gen \in [GrantId -> 0..MaxAssign]
  /\ own \in [Ownership -> SUBSET Latches]
  /\ table \in [GrantId -> 0..MaxAssign]
  /\ flagged \subseteq GrantId
  /\ helper \in [Ownership -> [Watched -> HelperState]]
  /\ aborted \subseteq Ownership
  /\ view \in [GrantId -> 0..MaxAssign]
  /\ loop \in LoopState
  /\ armed \in BOOLEAN /\ shutdown \in BOOLEAN /\ closed \in BOOLEAN
  /\ queued \in 0..OutCap
  /\ outOpen \in BOOLEAN

\* join() has spawned the task; its Establish and Register may still be queued.
Init ==
  /\ gen = [g \in GrantId |-> 0]
  /\ own = [o \in Ownership |-> {}]
  /\ table = [g \in GrantId |-> 0]
  /\ flagged = {}
  /\ helper = [o \in Ownership |-> [h \in Watched |-> "none"]]
  /\ aborted = {}
  /\ view = [g \in GrantId |-> 0]
  /\ loop = "start" /\ armed = FALSE
  /\ shutdown = FALSE /\ closed = FALSE
  /\ queued \in 0..OutCap /\ outOpen = TRUE

Held(g) == table[g] # 0
Entry(g) == <<g, table[g]>>
Exists(o) == o[2] <= gen[o[1]]
Live(o) == Exists(o) /\ "expired" \notin own[o]

HasRoom == outOpen /\ queued < OutCap
Enqueue == HasRoom /\ queued' = queued + 1 /\ UNCHANGED outOpen
-----------------------------------------------------------------------------
(* The loop: a new turn of select! evaluates the shutdown branch's         *)
(* precondition once, before anything is polled.                           *)

Select == loop' = "select" /\ armed' = ~shutdown /\ UNCHANGED <<shutdown, closed>>
Goto(from, to) ==
  loop = from /\ loop' = to /\ armed' = FALSE /\ UNCHANGED <<shutdown, closed>>

\* The task is polled for the first time, after the handle was given out.
Begin == loop = "start" /\ Select /\ UNCHANGED <<grantVars, outVars>>

\* JoinHandle::shutdown, which consumes the handle.
RequestShutdown ==
  /\ ~shutdown
  /\ shutdown' = TRUE
  /\ UNCHANGED <<loop, armed, closed, grantVars, outVars>>

ShutdownBranch ==
  /\ armed /\ shutdown
  /\ Goto("select", "deregister")
  /\ UNCHANGED <<grantVars, outVars>>

HeartbeatTick == Goto("select", "heartbeat") /\ UNCHANGED <<grantVars, outVars>>

HeartbeatSend ==
  /\ loop = "heartbeat" /\ Select
  /\ Enqueue
  /\ UNCHANGED grantVars

HeartbeatFail ==
  /\ Goto("heartbeat", "cleanup")
  /\ ~outOpen
  /\ UNCHANGED <<grantVars, outVars>>

\* A farewell that insists on being queued.
FarewellInsists(from, to) ==
  /\ Goto(from, to)
  /\ Enqueue
  /\ UNCHANGED grantVars

\* Deregister and session Closed: a failed send is ignored.
Farewell(from, to) ==
  /\ Goto(from, to)
  /\ Enqueue \/ (~outOpen /\ UNCHANGED outVars)
  /\ UNCHANGED grantVars

SendDeregister == Farewell("deregister", "goodbye")
SendClosed == Farewell("goodbye", "cleanup")

\* The stream yields an error or its end.
InboundEnds == Goto("select", "cleanup") /\ UNCHANGED <<grantVars, outVars>>

\* Session Closed: `handle_inbound(join).await?` returns from run() itself.
\* The table goes with the task; its helpers are detached, not aborted.
SessionClosed ==
  /\ Goto("select", "failed")
  /\ table' = [g \in GrantId |-> 0]
  /\ flagged' = {}
  /\ UNCHANGED <<gen, own, helper, aborted, view, outVars>>
-----------------------------------------------------------------------------
(* The handlers of inbound messages.                                       *)

Inbound == loop = "select" /\ Select

\* remove_grant, without the removal from the table: expire the Ownership,
\* abort its helpers, tell the subscribers.  Entries that were never made
\* (assignment 0) have nothing to remove.
Expired(g) == [o \in Ownership |->
                 IF o = Entry(g) THEN own[o] \union {"expired"} ELSE own[o]]
Retire(g) == aborted' = aborted \union ({Entry(g)} \intersect Ownership)

\* on_assign without the removal of the old entry.
OnAssignKeepsOld(g, state, lapsed) ==
  LET n == gen[g] + 1 IN
  /\ n <= MaxAssign
  /\ gen' = [gen EXCEPT ![g] = n]
  /\ own' = [own EXCEPT ![<<g, n>>] = NewLatches(state, lapsed)]
  /\ aborted' = aborted
  /\ helper' = [helper EXCEPT ![<<g, n>>] = [h \in Watched |-> "waiting"]]
  /\ table' = [table EXCEPT ![g] = n]
  /\ flagged' = IF state = "REVOKED" THEN flagged \union {g} ELSE flagged \ {g}
  /\ view' = [view EXCEPT ![g] = n]
  /\ Inbound /\ UNCHANGED outVars

\* on_assign with the events the wrong way round: Assigned, then Removed.
OnAssignEventsSwapped(g, state, lapsed) ==
  LET n == gen[g] + 1 IN
  /\ n <= MaxAssign
  /\ gen' = [gen EXCEPT ![g] = n]
  /\ own' = [Expired(g) EXCEPT ![<<g, n>>] = NewLatches(state, lapsed)]
  /\ Retire(g)
  /\ helper' = [helper EXCEPT ![<<g, n>>] = [h \in Watched |-> "waiting"]]
  /\ table' = [table EXCEPT ![g] = n]
  /\ flagged' = IF state = "REVOKED" THEN flagged \union {g} ELSE flagged \ {g}
  /\ view' = [view EXCEPT ![g] = IF Held(g) THEN 0 ELSE n]
  /\ Inbound /\ UNCHANGED outVars

\* on_assign: drop an entry of the same id, then build the Ownership and its
\* helpers, insert the entry and emit Assigned.
OnAssign(g, state, lapsed) ==
  LET n == gen[g] + 1 IN
  /\ n <= MaxAssign
  /\ gen' = [gen EXCEPT ![g] = n]
  /\ own' = [Expired(g) EXCEPT ![<<g, n>>] = NewLatches(state, lapsed)]
  /\ Retire(g)
  /\ helper' = [helper EXCEPT ![<<g, n>>] = [h \in Watched |-> "waiting"]]
  /\ table' = [table EXCEPT ![g] = n]
  /\ flagged' = IF state = "REVOKED" THEN flagged \union {g} ELSE flagged \ {g}
  /\ view' = [view EXCEPT ![g] = n]
  /\ Inbound /\ UNCHANGED outVars

\* The Ownership looked up once and kept across a re-assignment.
CloseLatchStale(g, latch) ==
  /\ Held(g)
  /\ own' = [own EXCEPT ![<<g, 1>>] = @ \union {latch}]

CloseLatch(g, latch) ==
  /\ Held(g)
  /\ own' = [own EXCEPT ![Entry(g)] = @ \union {latch}]

OnPromote(g) ==
  /\ CloseLatch(g, "active")
  /\ UNCHANGED <<gen, table, flagged, helper, aborted, view, outVars>>
  /\ Inbound

\* on_revoke without `entry.revoked = true`.
OnRevokeUnflagged(g) ==
  /\ CloseLatch(g, "revoked")
  /\ UNCHANGED <<gen, table, flagged, helper, aborted, view, outVars>>
  /\ Inbound

OnRevoke(g) ==
  /\ CloseLatch(g, "revoked")
  /\ flagged' = flagged \union {g}
  /\ UNCHANGED <<gen, table, helper, aborted, view, outVars>>
  /\ Inbound

\* Notify: the counterpart has loaded, or has unloaded.
OnNotify(g, latch) ==
  /\ latch \in Notified
  /\ CloseLatch(g, latch)
  /\ UNCHANGED <<gen, table, flagged, helper, aborted, view, outVars>>
  /\ Inbound

\* Any message that leaves the table alone: an acknowledgement, a cluster
\* update, Extend, an unknown grant, an Assign without a valid shard.
OnOther == Inbound /\ UNCHANGED <<grantVars, outVars>>
-----------------------------------------------------------------------------
(* The end of the loop: every grant is removed, then `closed` fires.       *)

\* remove_grant that leaves the helpers running.
RemoveGrantKeepsHelpers(g) ==
  /\ Held(g)
  /\ own' = Expired(g)
  /\ table' = [table EXCEPT ![g] = 0]
  /\ flagged' = flagged \ {g}
  /\ view' = [view EXCEPT ![g] = 0]
  /\ UNCHANGED <<gen, helper, aborted>>

RemoveGrant(g) ==
  /\ Held(g)
  /\ own' = Expired(g)
  /\ Retire(g)
  /\ table' = [table EXCEPT ![g] = 0]
  /\ flagged' = flagged \ {g}
  /\ view' = [view EXCEPT ![g] = 0]
  /\ UNCHANGED <<gen, helper>>

CleanupOne(g) ==
  loop = "cleanup" /\ RemoveGrant(g) /\ UNCHANGED <<loopVars, outVars>>

\* Closing before the table has been emptied.
CleanupDoneEarly ==
  /\ loop = "cleanup" /\ loop' = "exited" /\ closed' = TRUE
  /\ UNCHANGED <<armed, shutdown, grantVars, outVars>>

CleanupDone ==
  /\ loop = "cleanup" /\ \A g \in GrantId : ~Held(g)
  /\ loop' = "exited" /\ closed' = TRUE
  /\ UNCHANGED <<armed, shutdown, grantVars, outVars>>
-----------------------------------------------------------------------------
(* The helpers of an Ownership, and its user.                              *)

HelperAt(o, h, from, to) ==
  /\ helper[o][h] = from
  /\ helper' = [helper EXCEPT ![o][h] = to]

\* The user's signal: load(), unload() or request_revoke().
UserSignals(o, signal) ==
  /\ Exists(o) /\ signal \notin own[o]
  /\ own' = [own EXCEPT ![o] = @ \union {signal}]
  /\ UNCHANGED <<gen, table, flagged, helper, aborted, view, loopVars, outVars>>

\* The watcher's select! picks either of two latches that are both closed.
WatcherFires(o, signal) ==
  /\ signal \in own[o]
  /\ HelperAt(o, signal, "waiting", "sending")
  /\ UNCHANGED <<gen, own, table, flagged, aborted, view, loopVars, outVars>>

WatcherStops(o, signal) ==
  /\ "expired" \in own[o]
  /\ HelperAt(o, signal, "waiting", "stopped")
  /\ UNCHANGED <<gen, own, table, flagged, aborted, view, loopVars, outVars>>

\* A watcher that gives its message up when the channel is full.
WatcherTrySends(o, signal) ==
  /\ \/ Enqueue /\ HelperAt(o, signal, "sending", "sent")
     \/ ~HasRoom /\ HelperAt(o, signal, "sending", "stopped") /\ UNCHANGED outVars
  /\ UNCHANGED <<gen, own, table, flagged, aborted, view, loopVars>>

WatcherSends(o, signal) ==
  /\ \/ Enqueue /\ HelperAt(o, signal, "sending", "sent")
     \/ ~outOpen /\ HelperAt(o, signal, "sending", "stopped") /\ UNCHANGED outVars
  /\ UNCHANGED <<gen, own, table, flagged, aborted, view, loopVars>>

\* The timer finds its deadline in the past.  One whose Ownership has expired
\* has nothing left to do.
TimerFires(o) ==
  /\ Live(o)
  /\ own' = [own EXCEPT ![o] = @ \union {"expired"}]
  /\ UNCHANGED <<gen, table, flagged, helper, aborted, view, loopVars, outVars>>

\* An aborted task is dropped at its next await; one that is running on
\* another thread may still finish the step it is in.
HelperDropped(o, h) ==
  /\ o \in aborted /\ helper[o][h] \in Running
  /\ helper' = [helper EXCEPT ![o][h] = "stopped"]
  /\ UNCHANGED <<gen, own, table, flagged, aborted, view, loopVars, outVars>>
-----------------------------------------------------------------------------
(* The transport (external) takes a message, or goes away for good.        *)

TransportTakes ==
  /\ queued > 0 /\ outOpen
  /\ queued' = queued - 1
  /\ UNCHANGED <<outOpen, grantVars, loopVars>>

TransportDies ==
  /\ outOpen
  /\ outOpen' = FALSE /\ queued' = 0
  /\ UNCHANGED <<grantVars, loopVars>>
-----------------------------------------------------------------------------
LoopStep ==
  \/ Begin \/ ShutdownBranch \/ HeartbeatTick \/ HeartbeatSend
  \/ HeartbeatFail \/ SendDeregister \/ SendClosed \/ InboundEnds \/ SessionClosed \/ CleanupDone

Receive(g) ==
  \/ \E state \in AssignState, lapsed \in BOOLEAN : OnAssign(g, state, lapsed)
  \/ OnPromote(g)
  \/ OnRevoke(g)
  \/ \E latch \in DriverLatch : OnNotify(g, latch)

Watch(o, signal) ==
  WatcherFires(o, signal) \/ WatcherStops(o, signal) \/ WatcherSends(o, signal)

Next ==
  \/ RequestShutdown \/ LoopStep \/ OnOther
  \/ \E g \in GrantId : Receive(g) \/ CleanupOne(g)
  \/ \E o \in Ownership :
       \/ TimerFires(o)
       \/ \E signal \in Watched : UserSignals(o, signal) \/ Watch(o, signal)
       \/ \E h \in Watched : HelperDropped(o, h)
  \/ TransportTakes \/ TransportDies

Spec == Init /\ [][Next]_vars

(* The driver's task and its helpers are polled while they can move; the   *)
(* outbound channel serves its senders in turn, so a sender that finds     *)
(* room again and again does send.  The interval ticks.  Messages from the *)
(* coordinator, the user's calls and the lapse of a lease are not owed.    *)
Sending ==
  HeartbeatSend \/ HeartbeatFail \/ SendDeregister \/ SendClosed

Fairness ==
  /\ WF_vars(Begin)
  /\ WF_vars(ShutdownBranch)
  /\ WF_vars(HeartbeatTick)
  /\ SF_vars(Sending)
  /\ WF_vars(CleanupDone \/ \E g \in GrantId : CleanupOne(g))
  /\ \A o \in Ownership :
       /\ \A signal \in Watched :
            /\ WF_vars(WatcherFires(o, signal) \/ WatcherStops(o, signal))
            /\ SF_vars(WatcherSends(o, signal))
       /\ \A h \in Watched : WF_vars(HelperDropped(o, h))

\* Nothing is assumed of the transport: the channel may stay full for ever.
FairSpec == Spec /\ Fairness

\* The transport drains what is queued.
TransportDrains == WF_vars(TransportTakes)
DrainedSpec == FairSpec /\ TransportDrains
-----------------------------------------------------------------------------
(* What every step preserves.  In the loop an assigned grant is in the     *)
(* table; an Ownership that left the table left it expired and aborted,    *)
(* unless the driver failed (consumer.rs:312-439).                         *)
TableCurrent ==
  /\ \A g \in GrantId : table[g] \in {0, gen[g]}
  /\ loop \notin {"cleanup", "exited", "failed"} => table = gen
  /\ loop = "exited" => \A g \in GrantId : ~Held(g)
  /\ closed => loop = "exited"

Unborn ==
  \A o \in Ownership : ~Exists(o) =>
    own[o] = {} /\ \A h \in Watched : helper[o][h] = "none"

Retired ==
  \A o \in Ownership : Exists(o) /\ table[o[1]] # o[2] =>
    \/ "expired" \in own[o] /\ o \in aborted
    \/ loop = "failed" /\ o[2] = gen[o[1]]

FlagAgrees ==
  \A g \in GrantId : Held(g) =>
    (g \in flagged <=> "revoked" \in own[Entry(g)])

IInv ==
  /\ TypeOK /\ TableCurrent /\ Unborn /\ Retired /\ FlagAgrees
  /\ loop # "failed" => view = table
-----------------------------------------------------------------------------
(* Two Ownerships of one grant are never live together, through duplicate  *)
(* assignments, local expiry and shutdown (consumer.rs:325-330, 431-439):  *)
(* a holder that finds its Ownership unexpired is the only such holder.    *)
AtMostOneLive ==
  \A o, p \in Ownership : Live(o) /\ Live(p) /\ o[1] = p[1] => o = p

(* While the driver owns its table, every live Ownership is the one its    *)
(* grant's entry holds, so the coordinator can still reach it, and the     *)
(* entry's `revoked` flag, which keeps Extend away from a revoked lease,   *)
(* agrees with the revoked latch its holder waits for                      *)
(* (consumer.rs:357-368, 387-400, 420-429).                                *)
TableAgrees ==
  /\ loop # "failed" =>
       \A o \in Ownership : Live(o) => table[o[1]] = o[2]
  /\ FlagAgrees

(* A subscriber that folds the events, inserting on Assigned and deleting  *)
(* by id on Removed, holds exactly the driver's table (consumer.rs:53-64,  *)
(* 328-374): Removed carries no assignment, so its place in the order is   *)
(* all that protects the new entry of a re-assigned grant.                 *)
SubscribersAgree == loop # "failed" => view = table

(* When the closed latch of the handle has fired nothing is left behind:   *)
(* no entry, no live Ownership, no helper that is not on its way out       *)
(* (consumer.rs:227-232).                                                  *)
ClosedMeansReleased ==
  closed =>
    /\ \A g \in GrantId : ~Held(g)
    /\ \A o \in Ownership : Exists(o) =>
         /\ ~Live(o)
         /\ o \in aborted

(* An Ownership that has left the table never hears from the coordinator   *)
(* again: its lifecycle latches are frozen, save `expired` of one that a   *)
(* failed driver abandoned to its timer (consumer.rs:377-418).             *)
SupersededFrozen ==
  [][\A o \in Ownership :
       Exists(o) /\ table[o[1]] # o[2] =>
         own'[o] \intersect DriverLatch \subseteq own[o] \union {"expired"}]_vars

(* The driver implements the lifecycle that holders of an Ownership rely   *)
(* on (ownership.rs:18-24).                                                *)
Promised == INSTANCE Lifecycle
KeepsLifecycle == Promised!LifecycleSpec

(* The helpers of a grant that was removed end, even the one that is stuck *)
(* in a send because the outbound channel is full and the transport does   *)
(* not drain it (consumer.rs:431-439).                                     *)
RemovedHelpersEnd ==
  \A o \in Ownership :
    (Exists(o) /\ table[o[1]] # o[2] /\ loop # "failed")
      ~> \A h \in Watched : helper[o][h] \notin Running

(* As long as the transport drains what is queued, a signal the user       *)
(* raised is queued for the coordinator, unless the grant's lease is over  *)
(* or the stream is gone (consumer.rs:448-493).                            *)
SignalForwarded ==
  TransportDrains =>
    \A o \in Ownership, signal \in Watched :
      (Exists(o) /\ signal \in own[o])
        ~> (helper[o][signal] = "sent" \/ "expired" \in own[o] \/ ~outOpen)

(* Once the driver has begun to leave, and as long as the transport drains *)
(* what is queued, it gets to the end and `closed` fires, whether the      *)
(* stream still takes its farewell or is already gone (consumer.rs:198-204,*)
(* 227-233).                                                               *)
ExitCloses ==
  TransportDrains =>
    (loop \in {"deregister", "goodbye", "cleanup"} ~> closed)

(* What JoinHandle::shutdown says: "Signal the driver to send Deregister + *)
(* session Closed and exit" (consumer.rs:85).  A shutdown is answered.     *)
ShutdownCompletes == shutdown ~> loop \in {"exited", "failed"}

(* What the comment on the end of run() says: "Clean up all grants on      *)
(* exit" (consumer.rs:227).  No exit leaves a live Ownership or an open    *)
(* closed latch behind.                                                    *)
ExitCleansUp ==
  loop \in {"exited", "failed"} =>
    closed /\ \A o \in Ownership : ~Live(o)
=============================================================================
