--------------------------- MODULE OwnershipProofs ---------------------------
(***************************************************************************)
(* The two mechanisms that an Ownership is made of: its latches, and the   *)
(* timer that closes one of them.                                          *)
(*                                                                         *)
(* No wake-up of a Latch is lost, for any number of closers and waiters,   *)
(* and the latch implements the safety part of its abstract promise.  What *)
(* the timer holds agrees with the lease in force or is owed a correction, *)
(* for every length of lease, and nothing expires unearned.                *)
(***************************************************************************)
EXTENDS Latch, LeaseTimer, TLAPS

(* The initial state owes nobody a wake-up.                                *)
LEMMA LatchInitIInv == LatchInit => LatchIInv
  BY DEF LatchInit, LatchIInv, LatchTypeOK, WakeupOwed, CloserStep, WaiterStep, Waiting

(* Every step of a closer or a waiter preserves the types and the debts.   *)
LEMMA LatchStepIInv == LatchIInv /\ [LatchNext]_latchVars => LatchIInv'
<1> SUFFICES ASSUME LatchIInv, [LatchNext]_latchVars PROVE LatchIInv'
  OBVIOUS
<1> USE DEF LatchIInv, LatchTypeOK, WakeupOwed, CloserStep, WaiterStep, Waiting,
            CloserAt, WaiterAt
<1>1. ASSUME NEW c \in Closer, Swap(c) PROVE LatchIInv'
  BY <1>1 DEF Swap
<1>2. ASSUME NEW c \in Closer, CountReceivers(c) PROVE LatchIInv'
  BY <1>2 DEF CountReceivers, Receivers
<1>3. ASSUME NEW c \in Closer, StoreValue(c) PROVE LatchIInv'
  BY <1>3 DEF StoreValue
<1>4. ASSUME NEW c \in Closer, NotifyReceivers(c) PROVE LatchIInv'
  BY <1>4 DEF NotifyReceivers
<1>5. ASSUME NEW w \in Waiter, Subscribe(w) PROVE LatchIInv'
  BY <1>5 DEF Subscribe
<1>6. ASSUME NEW w \in Waiter, CheckClosed(w) PROVE LatchIInv'
  BY <1>6 DEF CheckClosed
<1>7. ASSUME NEW w \in Waiter, Borrow(w) PROVE LatchIInv'
  BY <1>7 DEF Borrow
<1>8. ASSUME NEW w \in Waiter, Enrol(w) PROVE LatchIInv'
  BY <1>8 DEF Enrol
<1>9. ASSUME NEW w \in Waiter, Check(w) PROVE LatchIInv'
  BY <1>9 DEF Check
<1>10. ASSUME NEW w \in Waiter, Wake(w) PROVE LatchIInv'
  BY <1>10 DEF Wake
<1>11. ASSUME NEW w \in Waiter, Drop(w) PROVE LatchIInv'
  BY <1>11 DEF Drop
<1>12. CASE UNCHANGED latchVars
  BY <1>12 DEF latchVars
<1>13. QED
  BY <1>1, <1>2, <1>3, <1>4, <1>5, <1>6, <1>7, <1>8, <1>9, <1>10, <1>11, <1>12
     DEF LatchNext, Send, Poll

(* The types and the debts hold in every reachable state.                  *)
THEOREM LatchInvariance == LatchSpec => []LatchIInv
  BY LatchInitIInv, LatchStepIInv, PTL DEF LatchSpec

(* No wake-up is lost: a parked task of a closed latch is owed one by a    *)
(* closer still inside close() (latch.rs:39-44, 73-86).                    *)
THEOREM WakeupsKept == LatchSpec => []NoLostWakeup
<1>1. LatchIInv => NoLostWakeup
  BY DEF LatchIInv, LatchTypeOK, WakeupOwed, NoLostWakeup, Waiting
<1>2. QED
  BY <1>1, LatchInvariance, PTL
-----------------------------------------------------------------------------
(* A step of a closer maps to Close, or to a stutter, of the promise.      *)
LEMMA CloserStepMaps ==
  ASSUME LatchIInv, NEW c \in Closer, Swap(c) \/ Send(c)
  PROVE  [Abstract!Next]_(Abstract!vars)
<1>1. CASE Swap(c)
  BY <1>1 DEF Swap, CloserAt, Abstract!Next, Abstract!vars, Abstract!Close
<1>2. CASE Send(c)
  BY <1>2 DEF Send, CountReceivers, StoreValue, NotifyReceivers, CloserAt, Abstract!vars
<1>3. QED
  BY <1>1, <1>2

(* A step of a waiter maps to one of its own in the promise, or a stutter. *)
LEMMA WaiterStepMaps ==
  ASSUME LatchIInv, NEW w \in Waiter,
         Subscribe(w) \/ CheckClosed(w) \/ Poll(w) \/ Drop(w)
  PROVE  [Abstract!Next]_(Abstract!vars)
<1> DEFINE await == [v \in Waiter |-> AwaitOf(waiter[v])]
<1> USE DEF LatchIInv, LatchTypeOK, WakeupOwed, WaiterStep, Waiting, AwaitOf, WaiterAt
<1>1. ASSUME NEW to \in WaiterStep, waiter' = [waiter EXCEPT ![w] = to]
      PROVE  /\ await' = [await EXCEPT ![w] = AwaitOf(to)]
             /\ AwaitOf(to) = AwaitOf(waiter[w]) => await' = await
  BY <1>1
<1>2. CASE Subscribe(w)
  <2>1. waiter[w] = "none" /\ waiter' = [waiter EXCEPT ![w] = "reader"]
    BY <1>2 DEF Subscribe
  <2>2. await' = await
    BY <1>1, <2>1
  <2>3. QED
    BY <1>2, <2>2 DEF Subscribe, Abstract!vars
<1>3. CASE CheckClosed(w)
  <2>1. CASE closed
    <3>1. await' = [await EXCEPT ![w] = "returned"]
      BY <1>1, <1>3, <2>1 DEF CheckClosed
    <3>2. await[w] = "idle" /\ closed' = closed
      BY <1>3 DEF CheckClosed
    <3>3. QED
      BY <2>1, <3>1, <3>2 DEF Abstract!Next, Abstract!Return, Abstract!Move
  <2>2. CASE ~closed
    <3>1. await' = [await EXCEPT ![w] = "waiting"]
      BY <1>1, <1>3, <2>2 DEF CheckClosed
    <3>2. await[w] = "idle" /\ closed' = closed
      BY <1>3 DEF CheckClosed
    <3>3. QED
      BY <2>2, <3>1, <3>2 DEF Abstract!Next, Abstract!Enter, Abstract!Move
  <2>3. QED
    BY <2>1, <2>2
<1>4. CASE Borrow(w)
  <2>1. CASE value
    <3>1. await' = [await EXCEPT ![w] = "returned"]
      BY <1>1, <1>4, <2>1 DEF Borrow
    <3>2. await[w] = "waiting" /\ closed /\ closed' = closed
      BY <1>4, <2>1 DEF Borrow
    <3>3. QED
      BY <3>1, <3>2 DEF Abstract!Next, Abstract!Return, Abstract!Move
  <2>2. CASE ~value
    <3>1. await' = await
      BY <1>1, <1>4, <2>2 DEF Borrow
    <3>2. QED
      BY <1>4, <3>1 DEF Borrow, Abstract!vars
  <2>3. QED
    BY <2>1, <2>2
<1>5. CASE Enrol(w) \/ Check(w) \/ Wake(w)
  <2>1. \E to \in Waiting : waiter' = [waiter EXCEPT ![w] = to]
    BY <1>5 DEF Enrol, Check, Wake
  <2>2. waiter[w] \in Waiting /\ closed' = closed
    BY <1>5 DEF Enrol, Check, Wake
  <2>3. await' = await
    BY <1>1, <2>1, <2>2
  <2>4. QED
    BY <2>2, <2>3 DEF Abstract!vars
<1>6. CASE Drop(w)
  <2>1. waiter' = [waiter EXCEPT ![w] = "none"] /\ closed' = closed
    BY <1>6 DEF Drop
  <2>2. await' = [await EXCEPT ![w] = "idle"]
    BY <1>1, <2>1
  <2>3. CASE await[w] = "idle"
    BY <2>1, <2>2, <2>3 DEF Abstract!vars
  <2>4. CASE await[w] # "idle"
    BY <2>1, <2>2, <2>4 DEF Abstract!Next, Abstract!Drop, Abstract!Move
  <2>5. QED
    BY <2>3, <2>4
<1>7. QED
  BY <1>2, <1>3, <1>4, <1>5, <1>6 DEF Poll

(* The latch implements the safety part of its promise: an await returns   *)
(* only after close(), and a closed latch never reopens (latch.rs:3-5).    *)
THEOREM Implements == LatchSpec => Abstract!SafeSpec
<1>1. LatchInit => Abstract!Init
  BY DEF LatchInit, Abstract!Init, AwaitOf, Waiting
<1>2. LatchIInv /\ [LatchNext]_latchVars => [Abstract!Next]_(Abstract!vars)
  <2> SUFFICES ASSUME LatchIInv, [LatchNext]_latchVars PROVE [Abstract!Next]_(Abstract!vars)
    OBVIOUS
  <2>1. CASE UNCHANGED latchVars
    BY <2>1 DEF latchVars, Abstract!vars
  <2>2. CASE LatchNext
    BY <2>2, CloserStepMaps, WaiterStepMaps DEF LatchNext
  <2>3. QED
    BY <2>1, <2>2
<1>3. QED
  BY <1>1, <1>2, LatchInvariance, PTL DEF LatchSpec, Abstract!SafeSpec
-----------------------------------------------------------------------------
\* A moment, or a clock that is set, keeps what is left of a deadline in its
\* range.
LEMMA ShiftInLeft ==
  ASSUME NEW left \in Left, NEW d \in Left
  PROVE  Shift(left, d) \in Left
BY MaxLeaseAssumption DEF Shift, Left

\* Every lease a timer can start with satisfies the invariant.
LEMMA InitIInv == Init => IInv
<1> SUFFICES ASSUME Init PROVE IInv
  OBVIOUS
<1> USE DEF Init
<1>1. lease \in Left /\ seen \in Left /\ sleep \in Lease /\ lag \in Lease
  BY MaxLeaseAssumption DEF Lease, Left
<1>2. expired \in BOOLEAN /\ lapsed \in BOOLEAN /\ (expired => lapsed) /\ (lease <= 0 => lapsed)
  <2>1. expired \in {FALSE, lease = 0} /\ lapsed = (lease = 0)
    OBVIOUS
  <2>2. expired \in BOOLEAN /\ lapsed \in BOOLEAN /\ (expired => lapsed) /\ (lease = 0 => lapsed)
    BY <2>1, Zenon
  <2>3. lease <= 0 => lease = 0
    BY MaxLeaseAssumption DEF Lease
  <2>4. QED
    BY <2>2, <2>3
<1>3. QED
  BY <1>1, <1>2 DEF IInv, TypeOK, TimerInSync, ExpiryEarned, TimerStep

\* The lease and what the timer holds of it are shifted alike.
LEMMA WallShiftsKeeps ==
  ASSUME IInv, NEW d \in Left, WallShifts(d)
  PROVE  /\ lease' \in Left /\ seen' \in Left
         /\ seen = lease => seen' = lease'
         /\ lapsed' \in BOOLEAN /\ (lapsed \/ lease' <= 0 => lapsed')
         /\ UNCHANGED <<revoked, driver, expired, timer, notified, moved>>
<1>1. lease' \in Left /\ seen' \in Left
  BY ShiftInLeft DEF IInv, TypeOK, WallShifts
<1>2. QED
  BY <1>1 DEF IInv, TypeOK, WallShifts

\* A tick shortens a sleep that has started with the lease, and both stop at
\* zero; a sleep that has not, it makes that much later.
LEMMA TickKeeps == IInv /\ Tick => IInv'
<1> SUFFICES ASSUME IInv, Tick PROVE IInv'
  OBVIOUS
<1>1. -1 \in Left
  BY MaxLeaseAssumption DEF Left
<1>2. /\ lease' \in Left /\ seen' \in Left
      /\ seen = lease => seen' = lease'
      /\ lapsed' \in BOOLEAN /\ (lapsed \/ lease' <= 0 => lapsed')
      /\ UNCHANGED <<revoked, driver, expired, timer, notified, moved>>
  BY <1>1, WallShiftsKeeps DEF Tick
<1>3. sleep' \in Lease /\ lag' \in Lease /\ jumped' = jumped
  BY MaxLeaseAssumption DEF Tick, IInv, TypeOK, Lease
<1>4. TypeOK'
  BY <1>2, <1>3 DEF IInv, TypeOK
<1>t. /\ lease \in Int /\ seen \in Int /\ lease' \in Int /\ seen' \in Int
      /\ sleep \in Nat /\ lag \in Nat /\ MaxLease \in Nat /\ sleep <= MaxLease
  BY <1>2, MaxLeaseAssumption DEF IInv, TypeOK, Lease, Left
<1>5. timer = "parked" /\ InStep(lease) => InStep(lease)'
  <2> SUFFICES ASSUME timer = "parked", InStep(lease) PROVE InStep(lease)'
    OBVIOUS
  <2>1. Remaining(lease') = IF lease <= 0 THEN 0 ELSE lease - 1
    BY MaxLeaseAssumption DEF Tick, WallShifts, Shift, Remaining, IInv, TypeOK, Left
  <2>2. lag' = lag /\ sleep' = IF sleep > 0 THEN sleep - 1 ELSE sleep
    BY DEF Tick
  <2>3. Remaining(lease) = IF lease <= 0 THEN 0 ELSE lease
    BY <1>t DEF Remaining
  <2>4. Remaining(lease) <= sleep /\ sleep <= Remaining(lease) + lag
    BY DEF InStep
  <2>5. Remaining(lease') <= sleep' /\ sleep' <= Remaining(lease') + lag'
    BY <1>t, <2>1, <2>2, <2>3, <2>4
  <2>6. QED
    BY <2>5 DEF InStep
<1>s. timer = "listen" /\ InStep(seen) => InStep(seen)'
  <2> SUFFICES ASSUME timer = "listen", InStep(seen) PROVE InStep(seen)'
    OBVIOUS
  <2>1. Remaining(seen') = IF seen <= 0 THEN 0 ELSE seen - 1
    BY MaxLeaseAssumption DEF Tick, WallShifts, Shift, Remaining, IInv, TypeOK, Left
  <2>2. sleep' = sleep /\ lag' = IF lag < MaxLease THEN lag + 1 ELSE lag
    BY DEF Tick
  <2>3. Remaining(seen) = IF seen <= 0 THEN 0 ELSE seen
    BY <1>t DEF Remaining
  <2>4. Remaining(seen) <= sleep /\ sleep <= Remaining(seen) + lag
    BY DEF InStep
  <2>5. Remaining(seen') <= sleep' /\ sleep' <= Remaining(seen') + lag'
    BY <1>t, <2>1, <2>2, <2>3, <2>4
  <2>6. QED
    BY <2>5 DEF InStep
<1>6. TimerInSync'
  BY <1>2, <1>3, <1>5 DEF IInv, TimerInSync
<1>7. ExpiryEarned'
  BY <1>2 DEF IInv, ExpiryEarned
<1>8. QED
  BY <1>2, <1>3, <1>4, <1>s, <1>6, <1>7 DEF IInv

\* A clock that is set during the sleep is remembered; at any other moment the
\* timer has yet to look at it.
LEMMA JumpKeeps == ASSUME IInv, ClockSet PROVE IInv'
<1>1. PICK d \in Left : Jump(d)
  BY DEF ClockSet
<1>2. /\ lease' \in Left /\ seen' \in Left
      /\ seen = lease => seen' = lease'
      /\ lapsed' \in BOOLEAN /\ (lapsed \/ lease' <= 0 => lapsed')
      /\ UNCHANGED <<revoked, driver, expired, timer, notified, moved>>
  BY <1>1, WallShiftsKeeps DEF Jump
<1>3. sleep' = sleep /\ lag' = lag /\ jumped' \in BOOLEAN /\ (timer \in {"listen", "parked"} => jumped')
  BY <1>1 DEF Jump, IInv, TypeOK
<1>4. TypeOK'
  BY <1>2, <1>3 DEF IInv, TypeOK
<1>5. QED
  BY <1>2, <1>3, <1>4 DEF IInv, TimerInSync, ExpiryEarned, InStep

\* The driver's steps: a stored deadline is announced, or marks the timer
\* that is between its read and its listen.
LEMMA StoreKeeps ==
  ASSUME NEW deadline \in Lease, NEW handler \in Announcing, IInv,
         Store(handler, deadline), revoked' \in BOOLEAN
  PROVE  IInv'
<1> USE DEF IInv, TypeOK, Store, timerVars
<1>0. lease' \in Left
  BY MaxLeaseAssumption DEF Lease, Left
<1>1. lapsed' \in BOOLEAN /\ (lapsed \/ lease' <= 0 => lapsed')
  OBVIOUS
<1>2. moved' \in BOOLEAN /\ (moved => moved')
      /\ (timer \in {"compare", "listen", "recompare"} => moved')
  OBVIOUS
<1>3. TypeOK'
  BY <1>0, <1>1, <1>2
<1>4. UNCHANGED <<timer, seen, sleep, jumped, lag>> /\ driver' \in Announcing
  OBVIOUS
<1>5. TimerInSync'
  BY <1>4 DEF TimerInSync
<1>6. (timer' \in {"compare", "listen", "recompare"} /\ seen' # lease' => moved')
  BY <1>2, <1>4
<1>7. ExpiryEarned'
  BY <1>1, <1>2 DEF ExpiryEarned
<1>8. timer' = "listen" /\ ~InStep(seen)' => jumped'
  BY <1>4 DEF InStep
<1>9. QED
  BY <1>1, <1>3, <1>5, <1>6, <1>7, <1>8

LEMMA DriverKeeps ==
  ASSUME IInv, Notify \/ RevokeAsIs \/ Remove
  PROVE  IInv'
<1> USE DEF IInv, TypeOK, timerVars, TimerInSync, InStep, ExpiryEarned, Announcing
<1>1. CASE Notify
  <2>1. notified' \in BOOLEAN /\ (notified \/ timer = "parked" => notified')
    BY <1>1 DEF Notify
  <2>2. UNCHANGED <<lease, revoked, expired, timer, seen, sleep, moved, jumped, lag, lapsed>> /\ driver' = "idle"
    BY <1>1 DEF Notify
  <2>3. TypeOK'
    BY <2>1, <2>2
  <2>4. TimerInSync'
    BY <2>1, <2>2, <1>1 DEF Notify
  <2>5. ExpiryEarned'
    BY <2>2, <1>1 DEF Notify
  <2>6. QED
    BY <2>2, <2>3, <2>4, <2>5
<1>2. CASE RevokeAsIs
  BY <1>2 DEF RevokeAsIs
<1>3. CASE Remove
  BY <1>3 DEF Remove
<1>4. QED
  BY <1>1, <1>2, <1>3

\* The timer's steps: it reads the lease in force, and expires only by it.
LEMMA TimerKeeps ==
  ASSUME IInv, Timer
  PROVE  IInv'
<1> USE DEF IInv, TypeOK, TimerAt, driverVars, TimerInSync, InStep, ExpiryEarned, TimerStep
<1>1. CASE Read BY <1>1 DEF Read
<1>2. CASE Compare
  <2>1. sleep' \in Lease /\ lag' \in Lease /\ (seen > 0 => InStep(seen)')
    BY <1>2, MaxLeaseAssumption DEF Compare, Lease, Left, Remaining
  <2>2. /\ timer = "compare" /\ notified' = notified /\ moved' = moved /\ jumped' = FALSE
        /\ UNCHANGED <<lease, revoked, driver, seen, lapsed>>
    BY <1>2 DEF Compare
  <2>3. CASE seen <= 0
    <3>1. timer' = "stopped" /\ expired' = TRUE
      BY <1>2, <2>3 DEF Compare
    <3>2. lapsed \/ moved
      BY <2>2, <2>3
    <3>3. QED
      BY <2>1, <2>2, <3>1, <3>2
  <2>4. CASE seen > 0
    <3>1. timer' = "listen" /\ expired' = expired
      BY <1>2, <2>4 DEF Compare, Left
    <3>2. QED
      BY <2>1, <2>2, <2>4, <3>1
  <2>5. QED
    BY <2>3, <2>4 DEF Left
<1>3. CASE Listen BY <1>3 DEF Listen
<1>4. CASE HearNotify BY <1>4 DEF HearNotify
<1>5. CASE WakeUp BY <1>5 DEF WakeUp
<1>6. CASE Reread BY <1>6 DEF Reread
<1>7. CASE Recompare BY <1>7 DEF Recompare
<1>8. CASE Aborted BY <1>8 DEF Aborted
<1>9. QED
  BY <1>1, <1>2, <1>3, <1>4, <1>5, <1>6, <1>7, <1>8 DEF Timer

\* Every step of the lease and its timer preserves the invariant.
LEMMA StepIInv == IInv /\ [Next]_vars => IInv'
<1> SUFFICES ASSUME IInv, [Next]_vars PROVE IInv'
  OBVIOUS
<1>1. CASE Tick BY <1>1, TickKeeps
<1>2. CASE Timer BY <1>2, TimerKeeps
<1>3. CASE Notify \/ RevokeAsIs \/ Remove BY <1>3, DriverKeeps
<1>4. ASSUME NEW deadline \in Lease, Extend(deadline) \/ Revoke(deadline)
      PROVE  IInv'
  <2>1. "extend" \in Announcing /\ "revoke" \in Announcing
    BY DEF Announcing
  <2>2. revoked' \in BOOLEAN
    BY <1>4 DEF Extend, Revoke, IInv, TypeOK
  <2>3. QED
    BY <1>4, <2>1, <2>2, StoreKeeps DEF Extend, Revoke
<1>5. CASE ClockSet BY <1>5, JumpKeeps
<1>6. CASE UNCHANGED vars
  BY <1>6 DEF vars, driverVars, timerVars, IInv, TypeOK, TimerInSync, InStep, ExpiryEarned
<1>7. QED
  BY <1>1, <1>2, <1>3, <1>4, <1>5, <1>6 DEF Next

\* The inductive invariant holds of every behaviour.
THEOREM Invariance == Spec => []IInv
<1>1. Init => IInv BY InitIInv
<1>2. IInv /\ [Next]_vars => IInv' BY StepIInv
<1>3. QED BY <1>1, <1>2, PTL DEF Spec

\* A parked timer sleeps until the lease in force ends, and past it by no more
\* than the sleep was late to start; or it has a notification coming, or had
\* the lease moved before it was listening, or the clock set since it looked
\* (consumer.rs:501-521).
THEOREM StaysInSync == Spec => []TimerInSync
<1>1. IInv => TimerInSync BY DEF IInv
<1>2. QED BY <1>1, Invariance, PTL

\* No Ownership expires unearned (consumer.rs:501-508, 510-517).
THEOREM ExpiryAlwaysEarned == Spec => []ExpiryEarned
<1>1. IInv => ExpiryEarned BY DEF IInv
<1>2. QED BY <1>1, Invariance, PTL
=============================================================================
