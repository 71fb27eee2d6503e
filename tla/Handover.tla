------------------------------ MODULE Handover ------------------------------
(***************************************************************************)
(* A shard moves from one consumer to another: the grant Old is revoked on *)
(* the first, and New is allocated on the second.  Each consumer has its   *)
(* driver, its Processor's run of the grant and the watchers that report   *)
(* what the run signals; the coordinator relays the reports of either      *)
(* consumer to the other, and promotes New when Old is out of the way.     *)
(*                                                                         *)
(* The two runs, their Ranges and latches are those of Processor, with one *)
(* assignment per grant; here the latches are closed by messages, each     *)
(* stream being first in, first out.  The coordinator (external) is what   *)
(* cluster and consumer .proto describe: it takes a report for what it     *)
(* says, in whatever order reports come.                                   *)
(***************************************************************************)
EXTENDS Processor, Sequences, Functions

CONSTANTS Old, New

ASSUME HandoverAssumption == Old # New /\ GrantId = {Old, New} /\ MaxAssign = 1

VARIABLES
  inbox,     \* the coordinator's messages to the consumer of each grant
  outbox,    \* the reports of the consumer of each grant
  heard,     \* what the coordinator has been told of each grant
  deal       \* how far the coordinator has come

handoverVars == <<inbox, outbox, heard, deal>>
allVars == <<vars, handoverVars>>

The(g) == <<g, 1>>
Other(g) == IF g = Old THEN New ELSE Old

\* A message about a grant closes a latch of its Ownership; Assign makes it.
Message == {"ACTIVE", "ALLOCATED"} \union (DriverLatch \ {"expired"})

HandoverTypeOK ==
  /\ TypeOK
  /\ inbox \in [GrantId -> Seq(Message)]
  /\ outbox \in [GrantId -> Seq(UserLatch)]
  /\ heard \in [GrantId -> SUBSET UserLatch]
  /\ deal \subseteq {"moving", "lapsed", "promoted"}

HandoverInit ==
  /\ Init
  /\ inbox = [g \in GrantId |-> IF g = Old THEN <<"ACTIVE">> ELSE <<>>]
  /\ outbox = [g \in GrantId |-> <<>>]
  /\ heard = [g \in GrantId |-> {}]
  /\ deal = {}
-----------------------------------------------------------------------------
(* The coordinator.                                                        *)

Tell(g, messages) == [inbox EXCEPT ![g] = @ \o messages]

\* The move begins on both streams.
Move ==
  /\ "moving" \notin deal /\ deal' = deal \union {"moving"}
  /\ inbox' = [Tell(Old, <<"revoked">>) EXCEPT ![New] = <<"ALLOCATED">>]
  /\ UNCHANGED <<vars, outbox, heard>>

\* An Update is relayed to the other side, a request to revoke is granted.
Relay(g, report) ==
  CASE report = "load"           -> Tell(Other(g), <<"loaded">>)
    [] report = "unload"         -> Tell(Other(g), <<"unloaded">>)
    [] report = "request_revoke" -> Tell(g, <<"revoked">>)

Hear(g) ==
  /\ outbox[g] # <<>>
  /\ outbox' = [outbox EXCEPT ![g] = Tail(@)]
  /\ heard' = [heard EXCEPT ![g] = @ \union {Head(outbox[g])}]
  /\ inbox' = Relay(g, Head(outbox[g]))
  /\ UNCHANGED <<vars, deal>>

\* A revoked lease is not extended, and ends by the coordinator's clock
\* whether or not the consumer has noticed: its timer may be late, or asleep
\* over a deadline that was moved (see LeaseTimer), and its clock its own.
Lapse ==
  /\ "moving" \in deal /\ "lapsed" \notin deal
  /\ deal' = deal \union {"lapsed"}
  /\ UNCHANGED <<vars, inbox, outbox, heard>>

Promote ==
  /\ "moving" \in deal /\ "promoted" \notin deal
  /\ "lapsed" \in deal \/ ("unload" \in heard[Old] /\ "load" \in heard[New])
  /\ deal' = deal \union {"promoted"}
  /\ inbox' = Tell(New, <<"active">>)
  /\ UNCHANGED <<vars, outbox, heard>>
-----------------------------------------------------------------------------
(* The drivers and their watchers.                                         *)

\* A message for a grant that is not in the table is ignored.
Close(g, latch) ==
  IF Exists(The(g)) THEN CloseLatch(The(g), latch) ELSE UNCHANGED lifecycleVars

\* on_notify that takes either news for the other.
OnNotifyCrossed(g, message) ==
  /\ message \in {"loaded", "unloaded"}
  /\ Close(g, IF message = "loaded" THEN "unloaded" ELSE "loaded")

OnNotify(g, message) == message \in {"loaded", "unloaded"} /\ Close(g, message)

OnAssign(g, message) ==
  message \in {"ACTIVE", "ALLOCATED"} /\ Assign(g, message, FALSE)

OnPromoteOrRevoke(g, message) == message \in {"active", "revoked"} /\ Close(g, message)

Receive(g) ==
  /\ inbox[g] # <<>>
  /\ LET message == Head(inbox[g]) IN
       OnAssign(g, message) \/ OnPromoteOrRevoke(g, message) \/ OnNotify(g, message)
  /\ inbox' = [inbox EXCEPT ![g] = Tail(@)]
  /\ UNCHANGED <<processorVars, outbox, heard, deal>>

Reported(g, signal) == signal \in heard[g] \union Range(outbox[g])

\* Watchers that report before they are signalled.
WatcherReportsAnyway(g, signal) ==
  /\ Exists(The(g)) /\ ~Reported(g, signal)
  /\ outbox' = [outbox EXCEPT ![g] = Append(@, signal)]
  /\ UNCHANGED <<vars, inbox, heard, deal>>

\* Watchers that take revoked for over.
WatcherReportsUnlessRevoked(g, signal) ==
  /\ signal \in own[The(g)] /\ "revoked" \notin own[The(g)] /\ ~Reported(g, signal)
  /\ outbox' = [outbox EXCEPT ![g] = Append(@, signal)]
  /\ UNCHANGED <<vars, inbox, heard, deal>>

\* Each signal has a watcher of its own, polled when it happens to be; one
\* that is polled when the lease has run out may quit instead.
WatcherReports(g, signal) ==
  /\ signal \in own[The(g)] /\ ~Reported(g, signal)
  /\ outbox' = [outbox EXCEPT ![g] = Append(@, signal)]
  /\ UNCHANGED <<vars, inbox, heard, deal>>

\* The lease runs out here: with an Extend that comes too late it may do so
\* before the coordinator's does.
LeaseExpires(g) ==
  /\ Live(The(g)) /\ Expire(The(g))
  /\ UNCHANGED <<processorVars, handoverVars>>
-----------------------------------------------------------------------------
Coordinator == Move \/ Lapse \/ Promote \/ \E g \in GrantId : Hear(g)
Watcher(g) == \E signal \in UserLatch : WatcherReports(g, signal)
Driver == \E g \in GrantId : Receive(g)
Task == \E o \in Ownership : Dispatch(o) \/ Polled(o)
User == \E o \in Ownership : UserRange(o) \/ DrainReturns(o)

HandoverNext ==
  \/ Coordinator \/ Driver
  \/ (Task \/ User) /\ UNCHANGED handoverVars
  \/ \E g \in GrantId : Watcher(g) \/ LeaseExpires(g)

HandoverSpec == HandoverInit /\ [][HandoverNext]_allVars

(* Messages are delivered and tasks polled; the coordinator goes on with   *)
(* what it has begun, and notices, sooner or later, a lease that is over   *)
(* for its holder; and a Range that is built is initialized, or fails.  No *)
(* drain need ever return or finish, and no lease need run out.            *)
HandoverFairSpec ==
  /\ HandoverSpec
  /\ WF_allVars(Move \/ Promote \/ \E g \in GrantId : Hear(g))
  /\ WF_allVars("expired" \in own[The(Old)] /\ Lapse)
  /\ WF_allVars(Driver)
  /\ WF_allVars(\E g \in GrantId : Live(The(g)) /\ Watcher(g))
  /\ WF_allVars(Task /\ UNCHANGED handoverVars)
  /\ \A o \in Ownership : WF_allVars(RangeInitialized(o) /\ UNCHANGED handoverVars)
-----------------------------------------------------------------------------
Excused(g) == "expired" \in own[The(g)] \/ "failed" \in range[The(g)]

\* The grants whose lease has ended by the coordinator's clock.
Lapsed == {g \in {Old} : "lapsed" \in deal}

PhaseAt(s) ==
  CASE s \in {"none", "offered", "step1"}     -> "idle"
    [] s \in {"step2", "step3"}               -> "loading"
    [] s \in {"step4", "draining", "step5"}   -> "serving"
    [] s \in {"step6", "cleanup", "done"}     -> "released"

A == INSTANCE AbstractHandover WITH
       Grant   <- GrantId,
       phase   <- [g \in GrantId |-> PhaseAt(step[The(g)])],
       drained <- {g \in GrantId : "drained" \in range[The(g)]},
       excused <- {g \in GrantId : Excused(g)},
       lapsed  <- Lapsed

(* The two consumers, with all that is between them, keep the promise of a *)
(* handover: New takes the shard up only when Old has let go of it, or its *)
(* lease is over for the coordinator, which then no longer waits for it;   *)
(* and Old lets go drained if it had served, unless it knows its lease to  *)
(* be over, or has failed (processor.rs:36-37, 123-193, ownership.rs:      *)
(* 196-252, consumer.rs:377-418, 448-493).                                 *)
KeepsHandover == A!Spec

(* What the coordinator has been told is so: an unload of a grant that has *)
(* drained and let go, a load of one that is initialized and has nobody    *)
(* before it whose lease is not over for the coordinator; and New is       *)
(* promoted only then (consumer.rs:334-375, 402-418, 448-482,              *)
(* processor.rs:36-37).                                                    *)
Released(g) == PhaseAt(step[The(g)]) = "released"

ReportsAreTrue ==
  /\ "unload" \in heard[Old] => "drained" \in range[The(Old)] /\ Released(Old)
  /\ "load" \in heard[New] =>
       "initialized" \in range[The(New)] /\ (Released(Old) \/ Old \in Lapsed)
  /\ "active" \in own[The(New)] => Released(Old) \/ Old \in Lapsed

(* Behind both: whoever has been told something, or soon will be, is told  *)
(* what has happened elsewhere; and a run that has unloaded has let go.    *)
ToldOrToBe(g, latch) == latch \in Range(inbox[g]) \union own[The(g)]

WordIsTrue ==
  /\ \A g \in GrantId, signal \in UserLatch : Reported(g, signal) => signal \in own[The(g)]
  /\ ToldOrToBe(New, "unloaded") => "unload" \in heard[Old]
  /\ "ACTIVE" \notin Range(inbox[New])
  /\ ToldOrToBe(New, "active") => "promoted" \in deal
  /\ "promoted" \in deal => "lapsed" \in deal \/ "unload" \in heard[Old]

RunsInPhase ==
  \A g \in GrantId :
    /\ "unload" \in own[The(g)] => PhaseAt(step[The(g)]) = "released"
    /\ "drain" \in range[The(g)] => PhaseAt(step[The(g)]) \in {"serving", "released"}

(* What every step preserves, besides the Processor's own invariant.       *)
HandoverIInv == HandoverTypeOK /\ WordIsTrue /\ RunsInPhase

(* When Old has unloaded, or its lease has run out, the handover comes to  *)
(* its end: New serves, unless its own lease has run out before the        *)
(* coordinator's, its Range fails, or nobody wanted it.  An unload alone   *)
(* is enough, with nobody's lease over; and the end of the lease is, even  *)
(* if Old never drains, or its run gave up before it could (processor.rs:  *)
(* 123-193, consumer.rs:377-418, 448-524).                                 *)
HandoverCompletes ==
  own[The(Old)] \intersect {"unload", "expired"} # {} ~>
    \/ step[The(New)] = "step4" \/ Excused(New)
    \/ "request_revoke" \in own[The(New)]
=============================================================================
