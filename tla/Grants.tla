------------------------------- MODULE Grants -------------------------------
(***************************************************************************)
(* The vocabulary of grants and their latches, shared by the modules that  *)
(* follow a grant: the driver that closes the lifecycle latches, and the   *)
(* processor that waits for them (ownership.rs).                           *)
(*                                                                         *)
(* Every Assign of a grant id builds a fresh Ownership, so an Ownership is *)
(* the n-th assignment of a grant, written <<g, n>>.  It is the set of its *)
(* latches that are closed: a latch is one-shot, so the set only grows.    *)
(***************************************************************************)
EXTENDS Naturals

CONSTANTS GrantId,    \* the grant ids of one consumer
          MaxAssign   \* bound: assignments of one id that are followed

ASSUME MaxAssignAssumption == MaxAssign \in Nat \ {0}

Ownership == GrantId \X (1..MaxAssign)

\* Closed by the driver alone, and by the user alone (ownership.rs:18-24).
DriverLatch == {"active", "revoked", "expired", "loaded", "unloaded"}
UserLatch   == {"load", "unload", "request_revoke"}
Latches     == DriverLatch \union UserLatch

\* The states Assign may carry.  ALLOCATED stands for ALLOCATED_LOADED and
\* UNKNOWN too, REVOKED for REVOKED_UNLOADED: Ownership::new treats them alike.
AssignState == {"ALLOCATED", "ACTIVE", "REVOKED"}

\* Ownership::new pre-closes what the grant has already reached; a lease that
\* lies in the past when it arrives makes an Ownership that is expired at birth.
NewLatches(state, lapsed) ==
  {latch \in {"active", "revoked", "expired"} :
     \/ latch = "active" /\ state = "ACTIVE"
     \/ latch = "revoked" /\ state = "REVOKED"
     \/ latch = "expired" /\ lapsed}
=============================================================================
