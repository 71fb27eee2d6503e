----------------------------- MODULE Processor -----------------------------
(***************************************************************************)
(* The Processor (processor.rs): one run of the five-step state machine    *)
(* for every Ownership it is handed, all of them sharing one GrantMap that *)
(* is keyed by grant id.  The driver is its environment: it closes the     *)
(* lifecycle latches as Lifecycle allows, in any order and at any time,    *)
(* re-assignment of an id included.  The user's Range finishes its         *)
(* initialization and its drain when it likes, or fails.                   *)
(*                                                                         *)
(* A wait_for_* helper is a select! over latches (ownership.rs:191-252):   *)
(* it picks any of those that are closed.  Latches never reopen, so the    *)
(* choice may be made in the step that acts on it.                         *)
(***************************************************************************)
EXTENDS Lifecycle

VARIABLES
  step,    \* where the run of each Ownership is
  range,   \* the facts about each Ownership's Range that have come true
  map      \* Processor::grants: the entry of each grant id, or NoEntry

processorVars == <<step, range, map>>
vars == <<lifecycleVars, processorVars>>

\* "none" has not been dispatched, "offered" is before the factory; 1 to 6 await what the comment of the step
\* in run_grant says, "draining" is inside range.drain(), "cleanup" has yet
\* to drop the guard.
Steps == {"none", "offered", "step1", "step2", "step3", "step4", "draining", "step5",
          "step6", "cleanup", "done"}

\* A Range is built, asked to "drain", and "closed" by the guard; by itself it
\* reports "initialized", "drained", or "failed", its own way of closing.
RangeFact == {"built", "initialized", "drain", "drained", "failed", "closed"}
RangeClosed(o) == range[o] \intersect {"failed", "closed"} # {}

MapState == {"ALLOCATED", "ALLOCATED_LOADED", "ACTIVE", "REVOKED",
             "REVOKED_UNLOADED"}
NoEntry == [state |-> "NONE", run |-> <<>>]
Entries == [state : MapState, run : Ownership]

TypeOK ==
  /\ LifecycleTypeOK
  /\ step \in [Ownership -> Steps]
  /\ range \in [Ownership -> SUBSET RangeFact]
  /\ map \in [GrantId -> Entries \union {NoEntry}]

Init ==
  /\ LifecycleInit
  /\ step = [o \in Ownership |-> "none"]
  /\ range = [o \in Ownership |-> {}]
  /\ map = [g \in GrantId |-> NoEntry]
-----------------------------------------------------------------------------
(* The wait_for_* helpers: the outcomes a select! may have now.            *)

Race(o, good, bad) ==
  {result \in {"ok", "bail"} :
     \/ result = "ok" /\ own[o] \intersect good # {}
     \/ result = "bail" /\ own[o] \intersect bad # {}}

WaitForUnload(o) == Race(o, {"active", "unloaded"}, {"revoked", "expired"})
WaitForActive(o) == Race(o, {"active"}, {"revoked", "expired"})
\* wait_for_revoke without its race against expiration.
WaitForRevokeForever(o) == Race(o, {"revoked"}, {})

\* wait_for_revoke raced against the latches of wait_for_load as well.
WaitForRevokeLoaded(o) == Race(o, {"revoked"}, {"expired", "loaded"})

WaitForRevoke(o) == Race(o, {"revoked"}, {"expired"})
WaitForLoad(o)   == Race(o, {"loaded"}, {"expired"})
-----------------------------------------------------------------------------
At(o, from, to) == step[o] = from /\ step' = [step EXCEPT ![o] = to]
Write(o, state) == map' = [map EXCEPT ![o[1]] = [state |-> state, run |-> o]]
RangeGains(o, facts) == range' = [range EXCEPT ![o] = @ \union facts]
Bail(o, from) == At(o, from, "cleanup") /\ UNCHANGED <<lifecycleVars, range, map>>

\* run_chain: what has expired is skipped, all else is offered.
Skip(o) ==
  /\ Exists(o) /\ "expired" \in own[o]
  /\ At(o, "none", "done")
  /\ UNCHANGED <<lifecycleVars, range, map>>

Offer(o) ==
  /\ Exists(o) /\ "expired" \notin own[o]
  /\ At(o, "none", "offered")
  /\ UNCHANGED <<lifecycleVars, range, map>>

\* try_handle, later: nobody asks again whether it has expired by now.  A
\* factory may decline: the last filter's refusal makes run_chain ask the
\* coordinator to revoke the grant.
Build(o) ==
  /\ At(o, "offered", "step1")
  /\ RangeGains(o, {"built"})
  /\ UNCHANGED <<lifecycleVars, map>>

Decline(o) ==
  /\ At(o, "offered", "done")
  /\ CloseLatch(o, "request_revoke")
  /\ UNCHANGED <<range, map>>

Step1(o) ==
  \/ /\ "ok" \in WaitForUnload(o)
     /\ At(o, "step1", "step2")
     /\ Write(o, "ALLOCATED")
     /\ UNCHANGED <<lifecycleVars, range>>
  \/ "bail" \in WaitForUnload(o) /\ Bail(o, "step1")

\* load() before the Range has initialized.
Step2Unready(o) ==
  \/ /\ At(o, "step2", "step3")
     /\ CloseLatch(o, "load")
     /\ Write(o, "ALLOCATED_LOADED")
     /\ UNCHANGED range
  \/ ("expired" \in own[o] \/ RangeClosed(o)) /\ Bail(o, "step2")

Step2(o) ==
  \/ /\ "initialized" \in range[o]
     /\ At(o, "step2", "step3")
     /\ CloseLatch(o, "load")
     /\ Write(o, "ALLOCATED_LOADED")
     /\ UNCHANGED range
  \/ ("expired" \in own[o] \/ RangeClosed(o)) /\ Bail(o, "step2")

\* activate() forgotten: the map stays at the step before.
Step3Unwritten(o) ==
  \/ /\ "ok" \in WaitForActive(o)
     /\ At(o, "step3", "step4")
     /\ UNCHANGED <<lifecycleVars, range, map>>
  \/ "bail" \in WaitForActive(o) /\ Bail(o, "step3")

Step3(o) ==
  \/ /\ "ok" \in WaitForActive(o)
     /\ At(o, "step3", "step4")
     /\ Write(o, "ACTIVE")
     /\ UNCHANGED <<lifecycleVars, range>>
  \/ "bail" \in WaitForActive(o) /\ Bail(o, "step3")

Step4(o) ==
  \/ /\ "ok" \in WaitForRevoke(o)
     /\ At(o, "step4", "draining")
     /\ Write(o, "REVOKED")
     /\ RangeGains(o, {"drain"})
     /\ UNCHANGED lifecycleVars
  \/ "bail" \in WaitForRevoke(o) /\ Bail(o, "step4")

\* range.drain(timeout).await returns its latch: the user's own code, raced
\* against nothing.
DrainReturns(o) ==
  /\ At(o, "draining", "step5")
  /\ UNCHANGED <<lifecycleVars, range, map>>

Step5(o) ==
  \/ /\ "drained" \in range[o] /\ ~RangeClosed(o)
     /\ At(o, "step5", "step6")
     /\ CloseLatch(o, "unload")
     /\ Write(o, "REVOKED_UNLOADED")
     /\ UNCHANGED range
  \/ /\ "expired" \in own[o] \/ ("drained" \in range[o] /\ RangeClosed(o))
     /\ Bail(o, "step5")

Step6(o) == WaitForLoad(o) # {} /\ Bail(o, "step6")

\* A guard that leaves the entry in the map.
CleanupKeepsEntry(o) ==
  /\ At(o, "cleanup", "done")
  /\ RangeGains(o, {"closed"})
  /\ UNCHANGED <<lifecycleVars, map>>

\* The guard deletes the entry of the grant id, whoever wrote it.
Cleanup(o) ==
  /\ At(o, "cleanup", "done")
  /\ map' = [map EXCEPT ![o[1]] = NoEntry]
  /\ RangeGains(o, {"closed"})
  /\ UNCHANGED lifecycleVars
-----------------------------------------------------------------------------
(* The user's Range (external) and the driver.                             *)

\* What a Range reports after the guard has closed it, nobody hears.
RangeReports(o, fact, given) ==
  /\ given \in range[o] /\ range[o] \intersect {fact, "closed"} = {}
  /\ RangeGains(o, {fact})
  /\ UNCHANGED <<lifecycleVars, step, map>>

RangeInitialized(o) == RangeReports(o, "initialized", "built")
RangeDrained(o)     == RangeReports(o, "drained", "drain")
RangeFails(o)       == RangeReports(o, "failed", "built")

DriverStep ==
  /\ \/ \E g \in GrantId, s \in AssignState, lapsed \in BOOLEAN : Assign(g, s, lapsed)
     \/ \E o \in Ownership :
          Expire(o) \/ \E latch \in DriverLatch : Signal(o, latch)
  /\ UNCHANGED processorVars
-----------------------------------------------------------------------------
Dispatch(o) == Skip(o) \/ Offer(o) \/ Build(o) \/ Decline(o)
Polled(o) == Step1(o) \/ Step2(o) \/ Step3(o) \/ Step4(o) \/ Step5(o)
               \/ Step6(o) \/ Cleanup(o)
Run(o) == Polled(o) \/ DrainReturns(o)
UserRange(o) == RangeInitialized(o) \/ RangeDrained(o) \/ RangeFails(o)

Next ==
  \/ DriverStep
  \/ \E o \in Ownership : Dispatch(o) \/ Run(o) \/ UserRange(o)

Spec == Init /\ [][Next]_vars

(* A run is a task of its own, polled when a latch it awaits has closed.   *)
(* The driver owes no latch, and the Range owes nothing, the return of its *)
(* drain() included.  A run has finitely many steps, so that some run that *)
(* can go on does go on is enough.                                         *)
FairSpec == Spec /\ WF_vars(\E o \in Ownership : Dispatch(o) \/ Polled(o))
-----------------------------------------------------------------------------
\* What a run has last written when it is at a step.
Written(s) ==
  CASE s = "step2"                -> "ALLOCATED"
    [] s = "step3"                -> "ALLOCATED_LOADED"
    [] s = "step4"                -> "ACTIVE"
    [] s \in {"draining", "step5"} -> "REVOKED"
    [] s = "step6"                -> "REVOKED_UNLOADED"

Serving == {"step2", "step3", "step4", "draining", "step5", "step6"}

\* The ways a run that built a Range may come to its end.
Over(o) ==
  "built" \in range[o] =>
    own[o] \intersect {"revoked", "expired"} # {} \/ "failed" \in range[o]

(* What a run has behind it at each step (processor.rs:123-193).           *)
Earned(o) ==
  /\ ~Exists(o) => own[o] = {} /\ step[o] = "none"
  /\ step[o] \in {"none", "offered"} =>
       range[o] = {} /\ own[o] \intersect {"load", "unload"} = {}
  /\ step[o] \notin {"none", "offered", "done"} => "built" \in range[o]
  /\ step[o] \in Serving => own[o] \intersect {"active", "unloaded"} # {}
  /\ step[o] \in {"step3", "step4", "draining", "step5", "step6"} => "load" \in own[o]
  /\ step[o] \in {"step4", "draining", "step5", "step6"} => "active" \in own[o]
  /\ step[o] \in {"draining", "step5", "step6"} => "revoked" \in own[o]
  /\ "closed" \in range[o] => step[o] = "done"
  /\ step[o] \in {"cleanup", "done"} => Over(o)

StepsEarned == \A o \in Ownership : Earned(o)

(* An entry of the map always belongs to a run that is under way, whose    *)
(* Range the guard has not closed, and says where that run is, whichever   *)
(* runs of the same grant id come and go (processor.rs:117-121, 135-193,   *)
(* 206-211).                                                               *)
Backed(entry) ==
  /\ step[entry.run] \in Serving \union {"cleanup"}
  /\ step[entry.run] \in Serving => entry.state = Written(step[entry.run])
  /\ "closed" \notin range[entry.run]

EntriesBacked ==
  \A g \in GrantId : map[g] # NoEntry => map[g].run[1] = g /\ Backed(map[g])

(* The two promises made to the counterpart of a handover.  `load` says    *)
(* the Range is initialized and that its predecessor was out of the way,   *)
(* or the grant outright active; `unload` says a revoked Range has drained *)
(* (processor.rs:123-153, 163-190).                                        *)
Honest(o) ==
  /\ "load" \in own[o] =>
       /\ "initialized" \in range[o]
       /\ own[o] \intersect {"active", "unloaded"} # {}
  /\ "unload" \in own[o] =>
       /\ "drained" \in range[o]
       /\ {"load", "active", "revoked"} \subseteq own[o]

HandoverHonest == \A o \in Ownership : Honest(o)

\* No Range outlives its run: once a run is over, the Range it built has
\* been closed, on every exit path (processor.rs:197-211).
RangesClosed ==
  \A o \in Ownership :
    step[o] = "done" /\ "built" \in range[o] => "closed" \in range[o]

(* A run that has taken a grant keeps it: it ends only when the grant is   *)
(* revoked, or over, or its Range has failed (dispatcher.rs:40-42,         *)
(* processor.rs:123-193).                                                  *)
OwnedToTheEnd == \A o \in Ownership : step[o] = "done" => Over(o)

(* What every step preserves.                                              *)
IInv == TypeOK /\ StepsEarned /\ EntriesBacked /\ HandoverHonest /\ RangesClosed

(* Every run of an expired Ownership comes to its end, wherever it is      *)
(* waiting, or hangs in the one call that is raced against nothing, the    *)
(* user's drain(); and it ends once that has returned (processor.rs:12-13, *)
(* 170-187).                                                               *)
ExpiredRunsEnd ==
  \A o \in Ownership :
    (Exists(o) /\ "expired" \in own[o]) ~> step[o] \in {"draining", "done"}

(* The run that serves a live grant is the one the map shows, so that a    *)
(* lookup by preferred state finds it, as long as it is the first run of   *)
(* its grant id that built a Range (processor.rs:117-121, 206-211).        *)
FirstRun(o) ==
  \A p \in Ownership : p[1] = o[1] /\ p[2] < o[2] => range[p] = {}

Mapped(o) == map[o[1]] = [state |-> Written(step[o]), run |-> o]

ServingIsMapped ==
  \A o \in Ownership :
    step[o] \in Serving /\ Live(o) /\ FirstRun(o) => Mapped(o)
=============================================================================
