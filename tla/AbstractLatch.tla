--------------------------- MODULE AbstractLatch ---------------------------
(***************************************************************************)
(* What a Latch of splitter-client promises its callers (latch.rs:1-5):    *)
(* a one-shot flag that never reopens, and any number of observers that    *)
(* await it.  An await returns only once the flag is set, and an await     *)
(* under way when the flag is set, or entered afterwards, does return,     *)
(* unless its future is dropped first (the losing branch of a select!).    *)
(***************************************************************************)
CONSTANT Waiter     \* the tasks that await the latch

VARIABLES closed,   \* has close() been called?
          await     \* each task: "idle", "waiting" or "returned"

vars == <<closed, await>>

Init == closed = FALSE /\ await = [w \in Waiter |-> "idle"]

Close == closed' = TRUE /\ UNCHANGED await

Move(w, to) == await' = [await EXCEPT ![w] = to] /\ UNCHANGED closed

\* closed().await is entered and finds the latch open.
Enter(w) == ~closed /\ await[w] = "idle" /\ Move(w, "waiting")

\* closed().await returns: at once, or after a wait.
Return(w) == closed /\ await[w] \in {"idle", "waiting"} /\ Move(w, "returned")

\* The future, or the reader, is dropped.
Drop(w) == await[w] # "idle" /\ Move(w, "idle")

Next == Close \/ \E w \in Waiter : Enter(w) \/ Return(w) \/ Drop(w)

\* A waiting task is released: the only step the latch owes its callers.
Release(w) == await[w] = "waiting" /\ Return(w)

SafeSpec == Init /\ [][Next]_vars

Spec == SafeSpec /\ \A w \in Waiter : WF_vars(Release(w))
=============================================================================
