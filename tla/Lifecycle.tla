----------------------------- MODULE Lifecycle -----------------------------
(***************************************************************************)
(* What the consumer promises to the code that holds an Ownership: the     *)
(* order in which the latches of one grant's Ownerships may close, whoever *)
(* closes them.  The driver implements it (Driver), and the processor      *)
(* relies on nothing else (Processor).                                     *)
(***************************************************************************)
EXTENDS Grants

VARIABLES gen,   \* how often each grant has been assigned
          own    \* the closed latches of each Ownership

lifecycleVars == <<gen, own>>

LifecycleTypeOK ==
  /\ gen \in [GrantId -> 0..MaxAssign]
  /\ own \in [Ownership -> SUBSET Latches]

LifecycleInit ==
  /\ gen = [g \in GrantId |-> 0]
  /\ own = [o \in Ownership |-> {}]

Exists(o) == o[2] <= gen[o[1]]
Current(o) == o[2] = gen[o[1]]
Live(o) == Exists(o) /\ "expired" \notin own[o]

CloseLatch(o, latch) ==
  /\ own' = [own EXCEPT ![o] = @ \union {latch}]
  /\ UNCHANGED gen

\* A grant is assigned: what was handed out before for it is expired first.
Assign(g, state, lapsed) ==
  LET n == gen[g] + 1 IN
  /\ n <= MaxAssign
  /\ gen' = [gen EXCEPT ![g] = n]
  /\ own' = [o \in Ownership |->
               IF o = <<g, n>> THEN NewLatches(state, lapsed)
               ELSE IF o = <<g, gen[g]>> THEN own[o] \union {"expired"}
               ELSE own[o]]

\* The coordinator's messages reach the current Ownership of a grant only.
Signal(o, latch) ==
  /\ latch \in DriverLatch \ {"expired"}
  /\ Current(o)
  /\ CloseLatch(o, latch)

\* A lease may lapse at any time, and on its way out the driver expires all.
Expire(o) == Exists(o) /\ CloseLatch(o, "expired")

\* The holder answers, late perhaps: its Ownership may be over by then.
Answer(o, latch) ==
  /\ latch \in UserLatch
  /\ Exists(o)
  /\ CloseLatch(o, latch)

LifecycleNext ==
  \/ \E g \in GrantId, s \in AssignState, lapsed \in BOOLEAN : Assign(g, s, lapsed)
  \/ \E o \in Ownership :
       \/ Expire(o)
       \/ \E latch \in DriverLatch : Signal(o, latch)
       \/ \E latch \in UserLatch : Answer(o, latch)

LifecycleSpec == LifecycleInit /\ [][LifecycleNext]_lifecycleVars
=============================================================================
