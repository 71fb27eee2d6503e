------------------------------- MODULE Latch -------------------------------
(***************************************************************************)
(* One Latch (latch.rs): an atomic flag beside a tokio watch channel.      *)
(* close() swaps the flag and then sends on the channel; closed().await    *)
(* tests the flag and then follows the channel.  The flag is authoritative *)
(* because a send that finds no receiver stores nothing (latch.rs:41), so  *)
(* the two halves race: a task may subscribe between the swap and the      *)
(* send, or look at the channel just before the value is stored.           *)
(*                                                                         *)
(* The channel is tokio's (external).  It carries one value change, so its *)
(* version is its value.  changed() enrols with the notifier before it     *)
(* compares versions, and send() stores before it notifies.                *)
(***************************************************************************)
CONSTANTS Closer,   \* the tasks that call close()
          Waiter    \* the tasks that hold a reader and await it

VARIABLES closed,   \* Inner::closed, the atomic flag
          value,    \* the value in the watch channel
          closer,   \* each closer's position in close()
          waiter,   \* each waiter's position in reader() and closed()
          woken     \* has the notifier reached this waiter since it enrolled?

latchVars == <<closed, value, closer, waiter, woken>>

CloserStep == {"idle", "send", "store", "notify", "done"}
WaiterStep == {"none", "reader", "borrow", "enrol", "check", "parked", "returned"}

\* The positions inside closed().await, after the fast path.
Waiting == {"borrow", "enrol", "check", "parked"}

\* One type invariant for the flag, the channel and the tasks (latch.rs:12-27).
LatchTypeOK ==
  /\ closed \in BOOLEAN
  /\ value \in BOOLEAN
  /\ closer \in [Closer -> CloserStep]
  /\ waiter \in [Waiter -> WaiterStep]
  /\ woken \in [Waiter -> BOOLEAN]

LatchInit ==
  /\ closed = FALSE
  /\ value = FALSE
  /\ closer = [c \in Closer |-> "idle"]
  /\ waiter = [w \in Waiter |-> "none"]
  /\ woken = [w \in Waiter |-> FALSE]

Receivers == {w \in Waiter : waiter[w] # "none"}

CloserAt(c, from, to) == closer[c] = from /\ closer' = [closer EXCEPT ![c] = to]
WaiterAt(w, from, to) == waiter[w] = from /\ waiter' = [waiter EXCEPT ![w] = to]
-----------------------------------------------------------------------------
(* close(): swap the flag; the first caller alone goes on to send.         *)

Swap(c) ==
  /\ CloserAt(c, "idle", IF closed THEN "done" ELSE "send")
  /\ closed' = TRUE
  /\ UNCHANGED <<value, waiter, woken>>

\* watch::Sender::send returns early, storing nothing, without a receiver.
CountReceivers(c) ==
  /\ CloserAt(c, "send", IF Receivers = {} THEN "done" ELSE "store")
  /\ UNCHANGED <<closed, value, waiter, woken>>

StoreValue(c) ==
  /\ CloserAt(c, "store", "notify")
  /\ value' = TRUE
  /\ UNCHANGED <<closed, waiter, woken>>

NotifyReceivers(c) ==
  /\ CloserAt(c, "notify", "done")
  /\ woken' = [w \in Waiter |-> woken[w] \/ waiter[w] \in {"check", "parked"}]
  /\ UNCHANGED <<closed, value, waiter>>
-----------------------------------------------------------------------------
(* reader() and LatchReader::closed().                                     *)

Subscribe(w) ==
  /\ WaiterAt(w, "none", "reader")
  /\ UNCHANGED <<closed, value, closer, woken>>

\* closed() without its first test.
CheckClosedDropped(w) ==
  /\ WaiterAt(w, "reader", "borrow")
  /\ UNCHANGED <<closed, value, closer, woken>>

CheckClosed(w) ==
  /\ WaiterAt(w, "reader", IF closed THEN "returned" ELSE "borrow")
  /\ UNCHANGED <<closed, value, closer, woken>>

\* The loop's exit with the test of the borrowed value negated.
BorrowNegated(w) ==
  /\ WaiterAt(w, "borrow", IF value THEN "enrol" ELSE "returned")
  /\ UNCHANGED <<closed, value, closer, woken>>

\* `while !*rx.borrow_and_update()`
Borrow(w) ==
  /\ WaiterAt(w, "borrow", IF value THEN "returned" ELSE "enrol")
  /\ UNCHANGED <<closed, value, closer, woken>>

\* changed(): enrol with the notifier, then compare versions, then park.
Enrol(w) ==
  /\ WaiterAt(w, "enrol", "check")
  /\ woken' = [woken EXCEPT ![w] = FALSE]
  /\ UNCHANGED <<closed, value, closer>>

Check(w) ==
  /\ WaiterAt(w, "check", IF value THEN "borrow" ELSE "parked")
  /\ UNCHANGED <<closed, value, closer, woken>>

Wake(w) ==
  /\ woken[w]
  /\ WaiterAt(w, "parked", "enrol")
  /\ UNCHANGED <<closed, value, closer, woken>>

\* The caller drops the reader, before, during or after an await of it.
Drop(w) ==
  /\ waiter[w] # "none"
  /\ waiter' = [waiter EXCEPT ![w] = "none"]
  /\ UNCHANGED <<closed, value, closer, woken>>
-----------------------------------------------------------------------------
Send(c) == CountReceivers(c) \/ StoreValue(c) \/ NotifyReceivers(c)
Poll(w) == Borrow(w) \/ Enrol(w) \/ Check(w) \/ Wake(w)

LatchNext ==
  \/ \E c \in Closer : Swap(c) \/ Send(c)
  \/ \E w \in Waiter : Subscribe(w) \/ CheckClosed(w) \/ Poll(w) \/ Drop(w)

LatchSpec == LatchInit /\ [][LatchNext]_latchVars

(* close() contains no await, so a caller that has swapped finishes it; a  *)
(* future that is ready is polled by the runtime.  Nobody has to call      *)
(* close(), reader() or closed() at all.                                   *)
LatchFairness ==
  /\ \A c \in Closer : WF_latchVars(Send(c))
  /\ \A w \in Waiter : WF_latchVars(Poll(w))

LatchFairSpec == LatchSpec /\ LatchFairness
-----------------------------------------------------------------------------
(* While the flag is set, a parked task that nobody has woken is owed a    *)
(* wake-up by a closer that is still inside its send (latch.rs:39-44,      *)
(* 73-86).  It is the two-sided race of the flag and the channel: without  *)
(* the test of the flag in closed(), or with the send before the swap, a   *)
(* task parks after the one notification has gone by.                      *)
NoLostWakeup ==
  \A w \in Waiter :
    closed /\ waiter[w] = "parked" /\ ~woken[w] =>
      \E c \in Closer : closer[c] \in {"send", "store", "notify"}

(* The inductive form: it also follows a task from its test of the flag to *)
(* the moment it parks.                                                    *)
WakeupOwed ==
  /\ value => closed
  /\ \A c \in Closer : closer[c] # "idle" => closed
  /\ \A c \in Closer : closer[c] = "notify" => value
  /\ \A w \in Waiter :
       /\ waiter[w] \in Waiting /\ closed /\ ~value =>
            \E c \in Closer : closer[c] \in {"send", "store"}
       /\ waiter[w] = "parked" /\ ~woken[w] /\ value =>
            \E c \in Closer : closer[c] = "notify"
       /\ waiter[w] = "returned" => closed

(* What every step preserves: the types and the debts (latch.rs:39-86).    *)
LatchIInv == LatchTypeOK /\ WakeupOwed

\* Where a caller of closed() stands, as the promise tells it.
AwaitOf(step) == IF step \in Waiting THEN "waiting"
                 ELSE IF step = "returned" THEN "returned" ELSE "idle"

Abstract == INSTANCE AbstractLatch
              WITH await <- [w \in Waiter |-> AwaitOf(waiter[w])]

(* The latch keeps its promise: an await returns only after close(), never *)
(* goes back, and every await of a closed latch that is not dropped        *)
(* returns (latch.rs:3-5).                                                 *)
KeepsPromise == Abstract!Spec
=============================================================================
