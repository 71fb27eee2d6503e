------------------------------ MODULE Routing ------------------------------
(***************************************************************************)
(* One call of handle_with_retry (proxy.rs, retry.rs) for one key, on one  *)
(* consumer, while everything it looks at changes: the local grants, the   *)
(* cluster map that the DomainResolver reads (resolver.rs), the pool, and  *)
(* who really serves the key.  An attempt looks three times, and then      *)
(* acts on what it found; between attempts it backs off until its deadline.*)
(*                                                                         *)
(* External: the user's closures and the peer they reach, and the Proxy    *)
(* trait's lookup, which is the user's too.  The resolver is one for the   *)
(* domain of the key, and each consumer has at most one grant that covers  *)
(* the key.  Time is told by what is left until the deadline, in ticks.    *)
(***************************************************************************)
EXTENDS Naturals

CONSTANTS Consumer, Self,
          State,      \* the grant states that are exercised
          Timeout,    \* the call's timeout, in ticks
          Initial,    \* OwnershipBackoff::initial (1 s in the code)
          MaxDelay    \* OwnershipBackoff::max (5 s in the code)

ASSUME RoutingAssumption ==
  /\ Self \in Consumer
  /\ Timeout \in Nat /\ Initial \in Nat \ {0} /\ MaxDelay \in Nat
  /\ Initial <= MaxDelay

VARIABLES
  owners,    \* the cluster map: the state of each consumer's grant of the key
  local,     \* the local GrantMap: the state of the grant of the key
  pooled,    \* the peers the pool has a channel for
  serving,   \* who answers for the key, or Nobody
  step,      \* where the call is
  target,    \* the consumer whose channel the attempt has been given
  left,      \* ticks until the deadline
  delay,     \* the length of the next backoff
  nap,       \* what is left of this one
  late,      \* history: attempts begun after the deadline
  result     \* what the call has returned: [error, cause]

envVars == <<owners, local, pooled, serving>>
retryVars == <<left, delay, nap, late>>
vars == <<envVars, step, target, retryVars, result>>

NoGrant == "none"
Nobody == "nobody"
Steps == {"lookup", "resolve", "dial", "remote", "fallback", "local", "sleep", "done"}

\* ClientError, and the status codes a call may return.
ClientError == {"NotOwned", "Draining", "NoResolution", "Revoked", "Expired",
                "SessionClosed", "Cancelled", "InvalidMessage",
                "TransportSetup", "Unavailable", "OtherStatus"}
Status == {"OutOfRange", "Aborted", "Unavailable", "OtherStatus"}
Ok == "ok"

\* into_grpc: what a peer's error looks like on the wire.  Transport(s) is
\* "Unavailable" or "OtherStatus" here, by its code.
IntoGrpc(e) ==
  CASE e = "NotOwned" -> "OutOfRange"
    [] e \in {"Draining", "Revoked"} -> "Aborted"
    [] e \in {"NoResolution", "SessionClosed", "TransportSetup", "Unavailable"} -> "Unavailable"
    [] OTHER -> "OtherStatus"

\* from_grpc that forgets about draining peers.
FromGrpcNoDraining(status) == IF status = "OutOfRange" THEN "NotOwned"
                              ELSE IF status = "Aborted" THEN "OtherStatus" ELSE status

FromGrpc(status) ==
  CASE status = "OutOfRange" -> "NotOwned"
    [] status = "Aborted" -> "Draining"
    [] OTHER -> status

IsOwnership(e) == e \in {"NotOwned", "Draining", "Unavailable"}

\* One type invariant for the call and its surroundings (proxy.rs:56-110).
TypeOK ==
  /\ owners \in [Consumer -> State \union {NoGrant}]
  /\ local \in State \union {NoGrant}
  /\ pooled \subseteq Consumer \ {Self}
  /\ serving \in Consumer \union {Nobody}
  /\ step \in Steps
  /\ target \in Consumer \union {Nobody}
  /\ left \in 0..Timeout /\ delay \in Initial..MaxDelay /\ nap \in 0..MaxDelay
  /\ late \in Nat
  /\ result \in [error : ClientError \union {Ok}, cause : ClientError \union {Ok}]

Pending == [error |-> Ok, cause |-> Ok]

Init ==
  /\ owners = [c \in Consumer |-> NoGrant] /\ local = NoGrant
  /\ pooled = {} /\ serving = Nobody
  /\ step = "lookup" /\ target = Nobody
  /\ left = Timeout /\ delay = Initial /\ nap = 0
  /\ late = IF Timeout = 0 THEN 1 ELSE 0
  /\ result = Pending
-----------------------------------------------------------------------------
(* The surroundings: grants move, maps and channels follow when they can.  *)

GrantsChange ==
  /\ \/ \E c \in Consumer, s \in State \union {NoGrant} :
          owners' = [owners EXCEPT ![c] = s] /\ UNCHANGED <<local, pooled, serving>>
     \/ local' \in State \union {NoGrant} /\ UNCHANGED <<owners, pooled, serving>>
     \/ pooled' \in SUBSET (Consumer \ {Self}) /\ UNCHANGED <<owners, local, serving>>
     \/ serving' \in Consumer \union {Nobody} /\ UNCHANGED <<owners, local, pooled>>
  /\ step # "done"
  /\ UNCHANGED <<step, target, retryVars, result>>

Less(ticks) == IF ticks = 0 THEN 0 ELSE ticks - 1

Tick ==
  /\ step # "done" /\ left + nap > 0
  /\ left' = Less(left) /\ nap' = Less(nap)
  /\ UNCHANGED <<envVars, step, target, delay, late, result>>
-----------------------------------------------------------------------------
(* handle(): the attempt.                                                  *)

At(from, to) == step = from /\ step' = to

LookupActive ==
  /\ At("lookup", IF local = "ACTIVE" THEN "local" ELSE "resolve")
  /\ UNCHANGED <<envVars, target, retryVars, result>>

\* The states of a list that is tried from its end.
PreferredBackwards(map) ==
  LET held == {s \in {"ACTIVE", "ALLOCATED_LOADED", "REVOKED"} : \E c \in Consumer : map[c] = s}
  IN IF "REVOKED" \in held THEN {"REVOKED"}
     ELSE IF "ALLOCATED_LOADED" \in held THEN {"ALLOCATED_LOADED"} ELSE held

\* The best of the resolver's states that some grant of the key is in.
Preferred(map) ==
  LET held == {s \in {"ACTIVE", "ALLOCATED_LOADED", "REVOKED"} : \E c \in Consumer : map[c] = s}
  IN IF "ACTIVE" \in held THEN {"ACTIVE"}
     ELSE IF "ALLOCATED_LOADED" \in held THEN {"ALLOCATED_LOADED"} ELSE held

\* resolve(): the grant is looked up, first in the order of the states, and
\* in no order within a state ...
LookupOwner ==
  /\ \/ \E c \in Consumer :
          owners[c] \in Preferred(owners) /\ At("resolve", "dial") /\ target' = c
     \/ Preferred(owners) = {} /\ At("resolve", "fallback") /\ UNCHANGED target
  /\ UNCHANGED <<envVars, retryVars, result>>

\* ... and the pool asked for its consumer.
ResolveChannel ==
  /\ At("dial", IF target \in pooled THEN "remote" ELSE "fallback")
  /\ UNCHANGED <<envVars, target, retryVars, result>>

MinOf(a, b) == IF a < b THEN a ELSE b
Return(e, cause) ==
  /\ step' = "done" /\ result' = [error |-> e, cause |-> cause]
  /\ UNCHANGED retryVars

\* A backoff that is not cut short by the deadline.
BackOffInFull ==
  /\ nap' = delay
  /\ delay' = MinOf(2 * delay, MaxDelay)
  /\ UNCHANGED <<left, late>>

BackOff ==
  /\ nap' = MinOf(delay, left)
  /\ delay' = MinOf(2 * delay, MaxDelay)
  /\ UNCHANGED <<left, late>>

\* The end of an attempt: return, or back off and try again.
Settle(e, cause) ==
  \/ (~IsOwnership(e) \/ left = 0) /\ Return(e, cause)
  \/ IsOwnership(e) /\ left > 0 /\ step' = "sleep" /\ BackOff /\ UNCHANGED result

\* The peer that serves the key answers, the others fail somehow, as their
\* own handlers say or because they cannot be reached.
RemoteAnswers ==
  /\ step = "remote"
  /\ \/ target = serving /\ Settle(Ok, Ok)
     \/ target # serving /\ \E e \in ClientError : Settle(FromGrpc(IntoGrpc(e)), e)
  /\ UNCHANGED <<envVars, target>>

\* NoResolution: any local grant will do.
Fallback ==
  /\ \/ local # NoGrant /\ At("fallback", "local") /\ UNCHANGED <<retryVars, result>>
     \/ local = NoGrant /\ step = "fallback" /\ Settle("NotOwned", "NotOwned")
  /\ UNCHANGED <<envVars, target>>

LocalAnswers ==
  /\ step = "local"
  /\ \/ serving = Self /\ Settle(Ok, Ok)
     \/ serving # Self /\ \E e \in ClientError : Settle(e, e)
  /\ UNCHANGED <<envVars, target>>

\* A deadline that is computed for each attempt.
WakeUpAnew ==
  /\ nap = 0 /\ At("sleep", "lookup")
  /\ left' = Timeout
  /\ target' = Nobody
  /\ UNCHANGED <<envVars, delay, nap, late, result>>

\* The sleep is over: the next attempt.
WakeUp ==
  /\ nap = 0 /\ At("sleep", "lookup")
  /\ late' = IF left = 0 THEN late + 1 ELSE late
  /\ target' = Nobody
  /\ UNCHANGED <<envVars, left, delay, nap, result>>

Attempt ==
  LookupActive \/ LookupOwner \/ ResolveChannel \/ RemoteAnswers \/ Fallback \/ LocalAnswers

Next == GrantsChange \/ Tick \/ Attempt \/ WakeUp

Spec == Init /\ [][Next]_vars

(* Time passes, a sleep that is over is polled, and the user's closures    *)
(* answer: nothing in handle() bounds them.                                *)
FairSpec == Spec /\ WF_vars(Tick) /\ WF_vars(Attempt) /\ WF_vars(WakeUp)
-----------------------------------------------------------------------------
(* A failure that is a matter of ownership where it arises, at home or on  *)
(* the peer at the other end of the wire, is not returned while there is   *)
(* time for another attempt (error.rs:43-76, retry.rs:41-49).              *)
NotGivenUpEarly == IsOwnership(result.cause) => left = 0

(* The timeout is respected as far as a loop can: no backoff outlasts it,  *)
(* and at most one attempt is begun once it has passed (retry.rs:46-53).   *)
TimeoutRespected ==
  /\ late <= 1
  /\ step = "sleep" => nap <= left

(* What every step preserves.                                              *)
IInv ==
  /\ TypeOK /\ NotGivenUpEarly /\ TimeoutRespected
  /\ late > 0 => left = 0
  /\ step = "sleep" => late = 0

(* A call whose attempts are answered comes to an end (retry.rs:39-55).    *)
CallEnds == <>(step = "done")

\* Ownership has settled, and what the consumer looks at says so.  Other
\* grants of the key may still be on their way out, the local one included.
Stable ==
  \/ serving = Self /\ local = "ACTIVE"
  \/ /\ serving \in pooled /\ local # "ACTIVE"
     /\ {c \in Consumer : owners[c] = "ACTIVE"} = {serving}

(* A call that is backing off when ownership settles gets through, whoever *)
(* holds the key in the end, and even if its deadline has come: this is    *)
(* what the last attempt is for (proxy.rs:67-82, retry.rs:50-53).          *)
SettledIsServed ==
  (step = "sleep" /\ Stable)
    ~> ((step = "done" /\ result.error = Ok) \/ ~Stable)
=============================================================================
