----------------------------- MODULE LeaseTimer -----------------------------
(***************************************************************************)
(* The lease of one Ownership and the task that ends it (ownership.rs,     *)
(* consumer.rs): the driver moves the deadline on Extend and on Revoke and *)
(* notifies; the timer reads the deadline, looks at the clock, and parks   *)
(* on a sleep and a notification.  Reading, comparing and enrolling are    *)
(* separate moments, and so are storing a deadline and notifying.          *)
(*                                                                         *)
(* There are two clocks.  A deadline is a time of the wall clock, and is   *)
(* written as the ticks that are left of it, below zero once it is past;   *)
(* the wall clock may be set, forward or back, which moves what is left of *)
(* every deadline.  The sleep of the timer runs on the monotonic clock,    *)
(* which nobody sets, and only from when it is made: its length is settled *)
(* at the comparison, and a moment that passes in between is slept on top. *)
(* A tick is a moment of both clocks.  tokio's Notify (external) stores no *)
(* permit: notify_waiters reaches the futures that exist when it is        *)
(* called, and nobody later.                                               *)
(***************************************************************************)
EXTENDS Integers

CONSTANT MaxLease   \* bound: the longest lease, and jump, in ticks

ASSUME MaxLeaseAssumption == MaxLease \in Nat \ {0}

VARIABLES
  lease,     \* Ownership::expiration, as the ticks left by the wall clock
  revoked,   \* the entry's `revoked` flag
  driver,    \* "idle", the handler it is in between a deadline stored and
             \* the notification, or "gone" after removal
  expired,   \* the expired latch
  timer,     \* where the timer task is
  seen,      \* the deadline it has read, as the ticks left
  sleep,     \* how long it is going to sleep, and what is left of that
  notified,  \* has its notified() future been completed?
  moved,     \* history: the deadline was moved since the timer read it
             \* and before it was listening
  jumped,    \* history: the clock was set since the timer looked at it
  lag,       \* history: the ticks between that look and its sleep's start
  lapsed     \* history: a lease in force has run out

driverVars == <<lease, revoked, driver>>
timerVars == <<timer, seen, sleep, notified>>
vars == <<driverVars, expired, timerVars, moved, jumped, lag, lapsed>>

Lease == 0..MaxLease
Left == -MaxLease..MaxLease
Announcing == {"extend", "revoke"}
TimerStep == {"read", "compare", "listen", "parked", "reread", "recompare",
              "stopped"}

\* One type invariant for the lease and its timer (ownership.rs:89-100).
TypeOK ==
  /\ lease \in Left
  /\ revoked \in BOOLEAN
  /\ driver \in Announcing \union {"idle", "gone"}
  /\ expired \in BOOLEAN
  /\ timer \in TimerStep
  /\ seen \in Left /\ sleep \in Lease
  /\ notified \in BOOLEAN /\ moved \in BOOLEAN
  /\ jumped \in BOOLEAN /\ lag \in Lease /\ lapsed \in BOOLEAN

\* on_assign: a lease in the past is expired at birth.
Init ==
  /\ lease \in Lease /\ seen = 0 /\ sleep = 0
  /\ revoked \in BOOLEAN
  /\ driver = "idle"
  /\ expired \in {FALSE, lease = 0}
  /\ timer = "read"
  /\ notified = FALSE /\ moved = FALSE /\ jumped = FALSE /\ lag = 0
  /\ lapsed = (lease = 0)

\* d ticks more, or less: what lies further back than a lease is long has
\* been past for as long as matters.
Shift(left, d) ==
  IF left + d < -MaxLease THEN -MaxLease
  ELSE IF left + d > MaxLease THEN MaxLease ELSE left + d

WallShifts(d) ==
  /\ lease' = Shift(lease, d) /\ seen' = Shift(seen, d)
  /\ lapsed' = (lapsed \/ lease' <= 0)
  /\ UNCHANGED <<revoked, driver, expired, timer, notified, moved>>

\* A moment passes: a sleep that has started is shorter by it, and one that
\* has not will end later by it.  A sleep is no longer than a lease, so that
\* the bound of lag hides nothing.
Tick ==
  /\ WallShifts(-1)
  /\ sleep' = IF timer = "parked" /\ sleep > 0 THEN sleep - 1 ELSE sleep
  /\ lag' = IF timer = "listen" /\ lag < MaxLease THEN lag + 1 ELSE lag
  /\ UNCHANGED jumped

\* The wall clock is set, forward (d < 0) or back.
Jump(d) ==
  /\ WallShifts(d)
  /\ jumped' = (jumped \/ timer \in {"listen", "parked"})
  /\ UNCHANGED <<sleep, lag>>

ClockSet == \E d \in Left \ {0} : Jump(d)
-----------------------------------------------------------------------------
(* The driver: set_expiration stores the deadline and then notifies.       *)

Store(handler, deadline) ==
  /\ driver = "idle" /\ driver' = handler
  /\ lease' = deadline
  /\ lapsed' = (lapsed \/ deadline <= 0)
  /\ moved' = (moved \/ timer \in {"compare", "listen", "recompare"})
  /\ UNCHANGED <<expired, timerVars, jumped, lag>>

\* Extend without its test of the flag.
ExtendAlways(deadline) == Store("extend", deadline) /\ UNCHANGED revoked

Extend(deadline) ==
  ~revoked /\ Store("extend", deadline) /\ UNCHANGED revoked

\* Revoke with a lease; without one it moves nothing.
Revoke(deadline) == Store("revoke", deadline) /\ revoked' = TRUE

RevokeAsIs ==
  /\ driver = "idle" /\ revoked' = TRUE
  /\ UNCHANGED <<lease, driver, expired, timerVars, moved, jumped, lag, lapsed>>

\* set_expiration that stores and does not notify.
NotifyDropped ==
  /\ driver \in Announcing /\ driver' = "idle"
  /\ UNCHANGED <<lease, revoked, expired, timerVars, moved, jumped, lag, lapsed>>

\* notify_waiters: a timer on its way from reading to listening hears nothing.
Notify ==
  /\ driver \in Announcing /\ driver' = "idle"
  /\ notified' = (notified \/ timer = "parked")
  /\ UNCHANGED <<lease, revoked, expired, timer, seen, sleep, moved, jumped, lag, lapsed>>

\* remove_grant: expire, and abort the timer at its await.
Remove ==
  /\ driver = "idle" /\ driver' = "gone"
  /\ expired' = TRUE
  /\ UNCHANGED <<lease, revoked, timerVars, moved, jumped, lag, lapsed>>
-----------------------------------------------------------------------------
(* The timer.                                                              *)

TimerAt(from, to) == timer = from /\ timer' = to

\* The top of the loop: leave if expired, else read the deadline.
Read ==
  /\ TimerAt("read", IF expired THEN "stopped" ELSE "compare")
  /\ seen' = lease /\ moved' = FALSE
  /\ UNCHANGED <<driverVars, expired, sleep, notified, jumped, lag, lapsed>>

\* The deadline against the clock: how long to sleep, if at all.  Nothing
\* sleeps yet.
Compare ==
  /\ TimerAt("compare", IF seen <= 0 THEN "stopped" ELSE "listen")
  /\ expired' = (expired \/ seen <= 0)
  /\ sleep' = IF seen <= 0 THEN 0 ELSE seen
  /\ jumped' = FALSE /\ lag' = 0
  /\ UNCHANGED <<driverVars, seen, notified, moved, lapsed>>

\* select! makes the sleep and the notified() future, and parks: from here
\* on the sleep runs down.
Listen ==
  /\ TimerAt("listen", "parked")
  /\ notified' = FALSE
  /\ UNCHANGED <<driverVars, expired, seen, sleep, moved, jumped, lag, lapsed>>

\* The branch of a new deadline.
HearNotify ==
  /\ notified /\ TimerAt("parked", "read")
  /\ UNCHANGED <<driverVars, expired, seen, sleep, notified, moved, jumped, lag, lapsed>>

\* The sleep's branch, and its two reads.
WakeUp ==
  /\ sleep = 0 /\ TimerAt("parked", "reread")
  /\ UNCHANGED <<driverVars, expired, seen, sleep, notified, moved, jumped, lag, lapsed>>

Reread ==
  /\ TimerAt("reread", "recompare")
  /\ seen' = lease /\ moved' = FALSE
  /\ UNCHANGED <<driverVars, expired, sleep, notified, jumped, lag, lapsed>>

\* A sleep that ran out before an extended lease, and ends the task.
RecompareStops ==
  /\ TimerAt("recompare", "stopped")
  /\ expired' = (expired \/ seen <= 0)
  /\ UNCHANGED <<driverVars, seen, sleep, notified, moved, jumped, lag, lapsed>>

\* A sleep that has run out is a lease that has run out.
RecompareUnasked ==
  /\ TimerAt("recompare", "stopped")
  /\ expired' = TRUE
  /\ UNCHANGED <<driverVars, seen, sleep, notified, moved, jumped, lag, lapsed>>

Recompare ==
  /\ TimerAt("recompare", IF seen <= 0 THEN "stopped" ELSE "read")
  /\ expired' = (expired \/ seen <= 0)
  /\ UNCHANGED <<driverVars, seen, sleep, notified, moved, jumped, lag, lapsed>>

Aborted ==
  /\ driver = "gone" /\ TimerAt("parked", "stopped")
  /\ UNCHANGED <<driverVars, expired, seen, sleep, notified, moved, jumped, lag, lapsed>>
-----------------------------------------------------------------------------
Timer == Read \/ Compare \/ Listen \/ HearNotify \/ WakeUp \/ Reread
           \/ Recompare \/ Aborted

Next ==
  \/ Tick \/ Timer \/ Notify \/ RevokeAsIs \/ Remove
  \/ \E deadline \in Lease : Extend(deadline) \/ Revoke(deadline)
  \/ ClockSet

Spec == Init /\ [][Next]_vars

(* Time passes; the task is polled when its sleep or its notification is   *)
(* ready; set_expiration contains no await, so a driver that has stored a  *)
(* deadline goes on to notify.  No message is owed.                        *)
FairSpec == Spec /\ WF_vars(Tick) /\ WF_vars(Timer) /\ WF_vars(Notify)
-----------------------------------------------------------------------------
(* A parked timer sleeps for what the lease in force has left, never less, *)
(* and longer by no more than its sleep was late to start, unless it has   *)
(* been told, or is about to be told, to look again (consumer.rs:501-521,  *)
(* ownership.rs:167-170).  The two exceptions are a deadline that was      *)
(* moved between its read and its listen, and a clock that was set since   *)
(* it was looked at.                                                       *)
Remaining(left) == IF left < 0 THEN 0 ELSE left

InStep(left) == Remaining(left) <= sleep /\ sleep <= Remaining(left) + lag

TimerInSync ==
  timer = "parked" /\ ~InStep(lease) =>
    notified \/ driver \in Announcing \/ moved \/ jumped

(* Expiry is announced only when a lease in force has run out, or when the *)
(* grant is removed, or in the one case of a deadline that was moved under *)
(* the timer's comparison.  A sleep outrun by an Extend, or by a clock that*)
(* was set back, goes on to the deadline (consumer.rs:501-508, 510-517).   *)
ExpiryEarned ==
  expired =>
    \/ driver = "gone" \/ lapsed
    \/ moved /\ timer = "stopped"

(* What every step preserves: what the timer holds at each step, and what  *)
(* has expired (consumer.rs:495-524).                                      *)
IInv ==
  /\ TypeOK /\ TimerInSync /\ ExpiryEarned
  /\ timer \in {"compare", "listen", "recompare"} /\ seen # lease => moved
  /\ timer = "listen" /\ ~InStep(seen) => jumped
  /\ lease <= 0 => lapsed

(* A lease that has run out, by the clock as it is now set, expires its    *)
(* Ownership, unless the lease is moved or the clock set back first: a     *)
(* timer that oversleeps a clock set forward wakes up all the same         *)
(* (consumer.rs:505-508, 513-516).                                         *)
LapsedLeaseExpires == (lease <= 0) ~> (expired \/ lease > 0)

(* A revoked grant ends, however often the other leases of the consumer    *)
(* are extended, unless Revoke itself keeps moving the deadline, or the    *)
(* clock keeps being set (consumer.rs:387-400, 420-429).                   *)
RevokedLeaseEnds ==
  \/ []<><<\E deadline \in Lease : Revoke(deadline)>>_vars
  \/ []<><<ClockSet>>_vars
  \/ revoked ~> expired
=============================================================================
