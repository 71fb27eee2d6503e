-------------------------- MODULE ForwardingProofs ---------------------------
(***************************************************************************)
(* How a call finds its way, for every set of consumers, endpoints and     *)
(* delays: the connection pool, and the call that is retried over it.      *)
(*                                                                         *)
(* The pool follows the cluster map.  The point of its invariant is the    *)
(* plan: it is drawn up under one lock and carried out under another, and  *)
(* stays true in between because only the updater writes.                  *)
(*                                                                         *)
(* The call retries as long as it may.  Its deadline never moves away, so  *)
(* the one attempt that may begin after it is begun by the last sleep; and *)
(* an ownership failure stays one over the wire.                           *)
(***************************************************************************)
EXTENDS Pool, Routing, TLAPS

(* The pool starts empty, with a map to apply.                             *)
LEMMA PoolInitIInv == PoolInit => PoolIInv
BY OwnerAssumption DEF PoolInit, PoolIInv, PoolTypeOK, InSync, NoEntry

(* An application under the write lock makes the pool from its map.        *)
LEMMA DialIInv ==
  ASSUME PoolIInv, Dial
  PROVE  PoolIInv'
<1> USE DEF PoolIInv, PoolTypeOK
<1>1. /\ updater = "dial" /\ updater' = "idle"
      /\ published' = published /\ changed' = changed /\ snap' = snap /\ plan' = plan
      /\ plan = {p \in Seen(snap) : entries[p].endpoint # snap[p]}
  BY DEF Dial
<1>2. PICK bad \in SUBSET plan :
        /\ failed' = bad
        /\ entries' =
             [p \in Peer |->
                IF p \in plan \ bad
                THEN [endpoint |-> snap[p], dials |-> 1 - entries[p].dials]
                ELSE IF p \in Seen(snap) THEN entries[p] ELSE NoEntry]
  BY DEF Dial
<1>3. entries' \in [Peer -> Entries \union {NoEntry}]
  <2> SUFFICES ASSUME NEW p \in Peer
               PROVE  entries'[p] \in Entries \union {NoEntry}
    BY <1>2
  <2>1. CASE p \in plan \ bad
    <3>1. snap[p] \in Endpoint
      BY <1>1, <2>1 DEF Seen
    <3>2. 1 - entries[p].dials \in {0, 1}
      <4>1. entries[p].dials = 0 \/ entries[p].dials = 1
        BY DEF Entries, NoEntry
      <4>2. QED
        BY <4>1
    <3>3. QED
      BY <1>2, <2>1, <3>1, <3>2 DEF Entries
  <2>2. CASE p \notin plan \ bad
    BY <1>2, <2>2
  <2>3. QED
    BY <2>1, <2>2
<1>4. PoolTypeOK'
  BY <1>1, <1>2, <1>3
<1>5. Mirrors(snap)'
  <2> SUFFICES ASSUME NEW p \in Peer
               PROVE  /\ p \notin Seen(snap) => entries'[p] = NoEntry
                      /\ p \in Seen(snap) \ failed' => entries'[p].endpoint = snap[p]
    BY <1>1 DEF Mirrors, Resolve, Seen
  <2>1. CASE p \in plan \ bad
    BY <1>1, <1>2, <2>1
  <2>2. CASE p \notin plan \ bad
    BY <1>1, <1>2, <2>2
  <2>3. QED
    BY <2>1, <2>2
<1>6. entries'[Owner] = NoEntry
  BY <1>1, <1>2, OwnerAssumption DEF Seen
<1>7. QED
  BY <1>1, <1>4, <1>5, <1>6 DEF InSync, Mirrors, Resolve, Seen

(* Every step preserves the invariant.                                     *)
LEMMA PoolStepIInv == PoolIInv /\ [PoolNext]_poolVars => PoolIInv'
<1> SUFFICES ASSUME PoolIInv, [PoolNext]_poolVars PROVE PoolIInv'
  OBVIOUS
<1>1. CASE Publish
  BY <1>1 DEF Publish, PoolIInv, PoolTypeOK, InSync, Mirrors, Resolve, Seen, updaterVars
<1>2. CASE Look
  BY <1>2 DEF Look, PoolIInv, PoolTypeOK, InSync
<1>3. CASE Scan
  BY <1>3 DEF Scan, PoolIInv, PoolTypeOK, InSync, Seen
<1>4. CASE Dial
  BY <1>4, DialIInv
<1>5. CASE UNCHANGED poolVars
  BY <1>5 DEF poolVars, updaterVars, PoolIInv, PoolTypeOK, InSync, Mirrors, Resolve, Seen
<1>6. QED
  BY <1>1, <1>2, <1>3, <1>4, <1>5 DEF PoolNext

(* The invariant of the pool and its updater holds throughout              *)
(* (pool.rs:80-126).                                                       *)
THEOREM PoolInvariance == PoolSpec => []PoolIInv
BY PoolInitIInv, PoolStepIInv, PTL DEF PoolSpec

(* A pool at rest is what its map asks for (pool.rs:80-126).               *)
THEOREM StaysInSync == PoolSpec => []InSync
<1>1. PoolIInv => InSync
  BY DEF PoolIInv
<1>2. QED
  BY <1>1, PoolInvariance, PTL

(* A peer that stays at its endpoint keeps its channel (pool.rs:99-103).   *)
THEOREM KeepsChannels == PoolSpec => ChannelsKept
<1>1. PoolIInv /\ [PoolNext]_poolVars =>
          [\A p \in Peer :
             entries[p] # NoEntry /\ snap[p] = entries[p].endpoint
               => entries'[p] = entries[p]]_poolVars
  <2> SUFFICES ASSUME PoolIInv, [PoolNext]_poolVars, NEW p \in Peer,
                      entries[p] # NoEntry, snap[p] = entries[p].endpoint
               PROVE  entries'[p] = entries[p]
    OBVIOUS
  <2>1. CASE Dial
    <3>1. p \notin plan
      BY <2>1 DEF Dial, PoolIInv
    <3>2. p \in Seen(snap)
      <4>1. entries[p] \in Entries
        BY DEF PoolIInv, PoolTypeOK
      <4>2. snap[p] \in Endpoint
        BY <4>1 DEF Entries
      <4>3. p # Owner
        BY DEF PoolIInv
      <4>4. QED
        BY <4>2, <4>3 DEF Seen
    <3>3. QED
      BY <2>1, <3>1, <3>2 DEF Dial
  <2>2. CASE ~Dial
    BY <2>2 DEF PoolNext, Publish, Look, Scan, poolVars, updaterVars
  <2>3. QED
    BY <2>1, <2>2
<1>2. QED
  BY <1>1, PoolInvariance, PTL DEF PoolSpec, ChannelsKept
-----------------------------------------------------------------------------
(* What a peer's handler calls a matter of ownership the caller does too,  *)
(* and the answer is a client error (error.rs:43-76).                      *)
LEMMA OwnershipCrossesTheWire ==
  ASSUME NEW e \in ClientError
  PROVE  /\ FromGrpc(IntoGrpc(e)) \in ClientError
         /\ IsOwnership(e) => IsOwnership(FromGrpc(IntoGrpc(e)))
BY DEF FromGrpc, IntoGrpc, IsOwnership, ClientError

(* The first attempt begins with the whole timeout ahead of it.            *)
LEMMA InitIInv == Init => IInv
BY RoutingAssumption
   DEF Init, IInv, TypeOK, NotGivenUpEarly, TimeoutRespected, Pending, Steps,
       ClientError, IsOwnership, Ok

(* A backoff is no longer than what is left, and grows up to its limit     *)
(* (retry.rs:50-54).                                                       *)
LEMMA BackOffBounds ==
  ASSUME TypeOK, BackOff
  PROVE  /\ nap' \in 0..MaxDelay /\ nap' <= left
         /\ delay' \in Initial..MaxDelay
         /\ left' = left /\ late' = late
<1> USE RoutingAssumption DEF TypeOK
<1>1. /\ nap' = MinOf(delay, left) /\ delay' = MinOf(2 * delay, MaxDelay)
      /\ left' = left /\ late' = late
  BY DEF BackOff
<1>2. left \in Nat /\ delay \in Nat /\ Initial <= delay /\ delay <= MaxDelay
  OBVIOUS
<1>3. QED
  BY <1>1, <1>2 DEF MinOf

(* The end of an attempt whose error is an ownership failure if its cause  *)
(* was: it is returned only when nothing is left (retry.rs:41-53).         *)
LEMMA SettleIInv ==
  ASSUME IInv, NEW e \in ClientError \union {Ok}, NEW cause \in ClientError \union {Ok},
         IsOwnership(cause) => IsOwnership(e),
         Settle(e, cause), step # "sleep", UNCHANGED <<envVars, target>>
  PROVE  IInv'
<1> USE DEF IInv, NotGivenUpEarly, TimeoutRespected
<1>1. CASE (~IsOwnership(e) \/ left = 0) /\ Return(e, cause)
  <2>1. TypeOK'
    BY <1>1 DEF Return, TypeOK, envVars, retryVars, Steps
  <2>2. QED
    BY <1>1, <2>1 DEF Return, retryVars
<1>2. CASE /\ IsOwnership(e) /\ left > 0
           /\ step' = "sleep" /\ BackOff /\ UNCHANGED result
  <2>1. /\ nap' \in 0..MaxDelay /\ nap' <= left
        /\ delay' \in Initial..MaxDelay
        /\ left' = left /\ late' = late
    BY <1>2, BackOffBounds
  <2>2. TypeOK'
    BY <1>2, <2>1 DEF TypeOK, envVars, Steps
  <2>3. late = 0
    BY <1>2 DEF TypeOK
  <2>4. QED
    BY <1>2, <2>1, <2>2, <2>3
<1>3. QED
  BY <1>1, <1>2 DEF Settle

(* Every step preserves the invariant.                                     *)
LEMMA StepIInv == IInv /\ [Next]_vars => IInv'
<1> SUFFICES ASSUME IInv, [Next]_vars PROVE IInv'
  OBVIOUS
<1> USE RoutingAssumption DEF IInv, NotGivenUpEarly, TimeoutRespected
<1>1. CASE GrantsChange
  BY <1>1 DEF GrantsChange, TypeOK, retryVars
<1>2. CASE Tick
  <2>1. /\ left' \in 0..Timeout /\ nap' \in 0..MaxDelay
        /\ (left = 0 => left' = 0) /\ (nap <= left => nap' <= left')
    <3>1. left \in Nat /\ nap \in Nat /\ left <= Timeout /\ nap <= MaxDelay
      BY DEF TypeOK
    <3>2. left' = Less(left) /\ nap' = Less(nap)
      BY <1>2 DEF Tick
    <3>3. QED
      BY <3>1, <3>2 DEF Less
  <2>2. step # "done" /\ UNCHANGED <<envVars, step, target, delay, late, result>>
    BY <1>2 DEF Tick
  <2>3. QED
    BY <2>1, <2>2 DEF TypeOK, envVars
<1>3. CASE LookupActive \/ LookupOwner \/ ResolveChannel
  BY <1>3 DEF LookupActive, LookupOwner, ResolveChannel, At, TypeOK, Steps,
              envVars, retryVars
<1>4. CASE RemoteAnswers
  <2>1. step # "sleep" /\ UNCHANGED <<envVars, target>>
    BY <1>4 DEF RemoteAnswers
  <2>2. CASE Settle(Ok, Ok)
    BY <2>1, <2>2, SettleIInv
  <2>3. ASSUME NEW e \in ClientError, Settle(FromGrpc(IntoGrpc(e)), e)
        PROVE  IInv'
    BY <2>1, <2>3, SettleIInv, OwnershipCrossesTheWire
  <2>4. QED
    BY <1>4, <2>2, <2>3 DEF RemoteAnswers
<1>5. CASE LocalAnswers
  <2>1. step # "sleep" /\ UNCHANGED <<envVars, target>>
    BY <1>5 DEF LocalAnswers
  <2>2. CASE Settle(Ok, Ok)
    BY <2>1, <2>2, SettleIInv
  <2>3. ASSUME NEW e \in ClientError, Settle(e, e)
        PROVE  IInv'
    BY <2>1, <2>3, SettleIInv
  <2>4. QED
    BY <1>5, <2>2, <2>3 DEF LocalAnswers
<1>6. CASE Fallback
  <2>1. step # "sleep" /\ UNCHANGED <<envVars, target>>
    BY <1>6 DEF Fallback, At
  <2>2. CASE At("fallback", "local") /\ UNCHANGED <<retryVars, result>>
    BY <2>1, <2>2 DEF At, TypeOK, Steps, envVars, retryVars
  <2>3. CASE Settle("NotOwned", "NotOwned")
    BY <2>1, <2>3, SettleIInv DEF ClientError
  <2>4. QED
    BY <1>6, <2>2, <2>3 DEF Fallback
<1>7. CASE WakeUp
  <2>1. step = "sleep" /\ step' = "lookup" /\ late = 0 /\ left' = left
        /\ late' = (IF left = 0 THEN late + 1 ELSE late)
    BY <1>7 DEF WakeUp, At
  <2>2. late' \in Nat /\ late' <= 1 /\ (late' > 0 => left' = 0)
    BY <2>1
  <2>3. QED
    BY <1>7, <2>1, <2>2 DEF WakeUp, TypeOK, Steps, envVars
<1>8. CASE UNCHANGED vars
  BY <1>8 DEF vars, envVars, retryVars, TypeOK
<1>9. QED
  BY <1>1, <1>2, <1>3, <1>4, <1>5, <1>6, <1>7, <1>8 DEF Next, Attempt

(* The invariant of the call holds throughout (proxy.rs:56-110).           *)
THEOREM Invariance == Spec => []IInv
BY InitIInv, StepIInv, PTL DEF Spec

(* No ownership failure is returned while there is time (retry.rs:41-49).  *)
THEOREM NeverGivenUpEarly == Spec => []NotGivenUpEarly
<1>1. IInv => NotGivenUpEarly
  BY DEF IInv
<1>2. QED
  BY <1>1, Invariance, PTL

(* No sleep outlasts the timeout, and one attempt at most begins after it  *)
(* (retry.rs:46-53).                                                       *)
THEOREM TimeoutAlwaysRespected == Spec => []TimeoutRespected
<1>1. IInv => TimeoutRespected
  BY DEF IInv
<1>2. QED
  BY <1>1, Invariance, PTL
=============================================================================
