------------------------------ MODULE Session ------------------------------
(***************************************************************************)
(* The session with the coordinator, in time (session.rs, consumer.rs).    *)
(* The coordinator grants the session for a while and renews it for every  *)
(* heartbeat; each of its answers says until when, and the driver takes    *)
(* the interval of its heartbeats from that and from its own clock.        *)
(*                                                                         *)
(* Time is told in ticks: what is left of the session at the coordinator,  *)
(* of a frame's way, of the interval.  A frame takes at most Latency from  *)
(* the one task to the other, the wait in the outbound channel included,   *)
(* and the two clocks differ by at most Skew.  The coordinator (external)  *)
(* answers what arrives; it may choose another ttl each time.              *)
(***************************************************************************)
EXTENDS Integers, Sequences

CONSTANTS
  Ttl,                  \* how long the coordinator may grant a session for
  MinDelay, MaxDelay,   \* the bounds of the interval, 250 ms and 30 s
  FirstDelay,           \* the interval of the first heartbeats, 60 s
  Latency, Skew

ASSUME SessionAssumption ==
  /\ Ttl \subseteq Nat
  /\ {MinDelay, MaxDelay, FirstDelay} \subseteq Nat \ {0} /\ MinDelay <= MaxDelay
  /\ {Latency, Skew} \subseteq Nat

VARIABLES
  client,    \* the driver: "off", "on", or how it has ended
  beat,      \* until the next heartbeat
  period,    \* the interval of the heartbeats
  skew,      \* how far the client's clock is behind the coordinator's
  up,        \* the frames on their way to the coordinator
  down,      \* the answers on their way back
  session,   \* what is left of the session at the coordinator
  standing   \* what the session is to the coordinator

sessionVars == <<client, beat, period, skew, up, down, session, standing>>

\* Deregister and session Closed, which are sent together, are one frame.
Kind == {"establish", "heartbeat", "closed"}
Age == 0..Latency
Left == {0} \union UNION {0..t : t \in Ttl}

SessionTypeOK ==
  /\ client \in {"off", "on", "left", "failed"}
  /\ {beat, period} \subseteq 0..(FirstDelay + MaxDelay)
  /\ skew \in -Skew..Skew
  /\ up \in Seq([kind : Kind, age : Age])
  /\ down \in Seq([left : Left, age : Age])
  /\ session \in Left
  /\ standing \in {"none", "held", "lapsed", "closed"}

SessionInit ==
  /\ client = "off" /\ beat = 0 /\ period = 0
  /\ skew \in -Skew..Skew
  /\ up = <<>> /\ down = <<>>
  /\ session = 0 /\ standing = "none"
-----------------------------------------------------------------------------
(* The driver.                                                             *)

Clamp(delay) ==
  IF delay < MinDelay THEN MinDelay ELSE IF delay > MaxDelay THEN MaxDelay ELSE delay

\* All of what is left, and not a third of it.
HeartbeatDelayWhole(remaining) == Clamp(IF remaining < 0 THEN 0 ELSE remaining)

\* A ttl that the clock has passed leaves nothing.
HeartbeatDelay(remaining) == Clamp(IF remaining < 0 THEN 0 ELSE remaining \div 3)

Send(kind) == up' = Append(up, [kind |-> kind, age |-> 0])

\* join: Establish is the first frame of the stream, and the first tick of the
\* interval is taken at once.
Join ==
  /\ client = "off" /\ client' = "on"
  /\ Send("establish")
  /\ beat' = FirstDelay /\ period' = FirstDelay
  /\ UNCHANGED <<skew, down, session, standing>>

Heartbeat ==
  /\ client = "on" /\ beat = 0
  /\ Send("heartbeat")
  /\ beat' = period
  /\ UNCHANGED <<client, period, skew, down, session, standing>>

\* Established or HeartbeatAck: a new interval begins.
Answered ==
  /\ client = "on" /\ down # <<>>
  /\ down' = Tail(down)
  /\ period' = HeartbeatDelay(Head(down).left + skew)
  /\ beat' = period'
  /\ UNCHANGED <<client, skew, up, session, standing>>

\* The farewell of a driver that was asked to leave.
Leave ==
  /\ client = "on" /\ client' = "left"
  /\ Send("closed") /\ down' = <<>>
  /\ UNCHANGED <<beat, period, skew, session, standing>>

\* The stream breaks, with what is on its way.
Break(result) ==
  /\ client' = result
  /\ \E n \in 0..Len(up) : up' = SubSeq(up, 1, n)
  /\ down' = <<>>
  /\ UNCHANGED <<beat, period, skew, session, standing>>
-----------------------------------------------------------------------------
(* The coordinator, and time.                                              *)

\* A driver that has ended hears no answer.
Grant(t) ==
  /\ session' = t /\ standing' = "held"
  /\ down' = IF client = "on" THEN Append(down, [left |-> t, age |-> 0]) ELSE down

Arrive(t) ==
  /\ up # <<>> /\ up' = Tail(up)
  /\ \/ /\ \/ Head(up).kind = "establish" /\ standing = "none"
           \/ Head(up).kind = "heartbeat" /\ standing = "held"
        /\ Grant(t)
     \/ /\ Head(up).kind = "closed" /\ standing' = "closed"
        /\ UNCHANGED <<down, session>>
     \/ /\ Head(up).kind = "heartbeat" /\ standing # "held"
        /\ UNCHANGED <<down, session, standing>>
  /\ UNCHANGED <<client, beat, period, skew>>

Less(ticks) == IF ticks = 0 THEN 0 ELSE ticks - 1

\* No frame is on its way for longer than Latency, and a heartbeat that is due
\* is sent.
InTime ==
  /\ \A i \in DOMAIN up : up[i].age < Latency
  /\ \A i \in DOMAIN down : down[i].age < Latency
  /\ client = "on" => beat > 0

SessionTick ==
  /\ InTime
  /\ up' = [i \in DOMAIN up |-> [up[i] EXCEPT !.age = @ + 1]]
  /\ down' = [i \in DOMAIN down |-> [left |-> Less(down[i].left), age |-> down[i].age + 1]]
  /\ beat' = IF client = "on" THEN beat - 1 ELSE beat
  /\ session' = Less(session)
  /\ standing' = IF standing = "held" /\ session <= 1 THEN "lapsed" ELSE standing
  /\ UNCHANGED <<client, period, skew>>
-----------------------------------------------------------------------------
(* "Heartbeats are sent at ttl / 3 to give the server ample opportunity to *)
(* respond before the lease would lapse" (session.rs:15-16): while the     *)
(* driver runs the session does not lapse at the coordinator, provided     *)
(* that every ttl is longer than the interval taken from it and one way    *)
(* there and back.                                                         *)
Ample == \A t \in Ttl : Clamp((t + Skew) \div 3) + 2 * Latency < t

SessionKept == Ample => (client = "on" => standing # "lapsed")

(* How it is kept: what is left of a session in force always is enough for *)
(* the next heartbeat to arrive, be it on its way already, or still to be  *)
(* sent by the present interval, or by the one that the answer to the last *)
(* heartbeat will begin.                                                   *)
HeartbeatUnderWay == \E i \in DOMAIN up : Latency - up[i].age < session

LastAnswer == down[Len(down)]

AnswerUnderWay ==
  /\ down # <<>>
  /\ LastAnswer.left = session /\ session + LastAnswer.age \in Ttl

HeartbeatDue == down = <<>> /\ beat + Latency < session

RenewedInTime ==
  client = "on" /\ standing = "held" =>
    HeartbeatUnderWay \/ AnswerUnderWay \/ HeartbeatDue

\* What every step of the session preserves.
SessionIInv == SessionTypeOK /\ SessionKept /\ (Ample => RenewedInTime)
=============================================================================
