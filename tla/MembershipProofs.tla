-------------------------- MODULE MembershipProofs --------------------------
(***************************************************************************)
(* The membership of a peer server, for every set of ttls, every latency,  *)
(* every difference of the clocks and every bound of the interval: the     *)
(* session does not lapse under a running driver, whoever is advertised is *)
(* served, and a shutdown that says Ok has cut nobody short.               *)
(***************************************************************************)
EXTENDS Membership, SequenceTheorems, TLAPS

(* What a session may have left is a number of ticks, and a ttl, and time  *)
(* keeps it so.                                                            *)
LEMMA LeftFacts ==
  /\ Left \subseteq Nat /\ Ttl \subseteq Left /\ 0 \in Left
  /\ \A l \in Left : Less(l) \in Left /\ (l > 0 => Less(l) = l - 1)
<1> USE SessionAssumption DEF Left
<1>1. Left \subseteq Nat /\ 0 \in Left
  OBVIOUS
<1>2. ASSUME NEW t \in Ttl PROVE t \in Left
  <2>1. t \in 0..t
    OBVIOUS
  <2>2. QED
    BY <2>1
<1>3. ASSUME NEW l \in Left PROVE Less(l) \in Left /\ (l > 0 => Less(l) = l - 1)
  <2>1. CASE l = 0
    BY <2>1 DEF Less
  <2>2. CASE l # 0
    <3>1. PICK t \in Ttl : l \in 0..t
      BY <2>2
    <3>2. Less(l) = l - 1 /\ Less(l) \in 0..t
      BY <2>2, <3>1 DEF Less
    <3>3. QED
      BY <3>1, <3>2
  <2>3. QED
    BY <2>1, <2>2
<1>4. QED
  BY <1>1, <1>2, <1>3

(* The interval stays within its bounds, and is no longer than the one     *)
(* taken from more (session.rs:80-99).                                     *)
LEMMA DelayBounds ==
  ASSUME NEW r \in Int
  PROVE  HeartbeatDelay(r) \in MinDelay..MaxDelay /\ HeartbeatDelay(r) \in Nat \ {0}
<1>1. /\ MinDelay \in Nat \ {0} /\ MaxDelay \in Nat \ {0} /\ MinDelay <= MaxDelay
      /\ r \div 3 \in Int
  BY SessionAssumption
<1>2. QED
  BY <1>1 DEF HeartbeatDelay, Clamp

LEMMA DelayGrows ==
  ASSUME NEW r \in Int, NEW s \in Nat, r <= s
  PROVE  HeartbeatDelay(r) <= Clamp(s \div 3)
<1>1. /\ MinDelay \in Nat \ {0} /\ MaxDelay \in Nat \ {0} /\ MinDelay <= MaxDelay
  BY SessionAssumption
<1>2. /\ r \div 3 \in Int /\ s \div 3 \in Int
      /\ r \div 3 <= s \div 3 /\ 0 <= s \div 3
  OBVIOUS
<1>3. QED
  BY <1>1, <1>2 DEF HeartbeatDelay, Clamp
-----------------------------------------------------------------------------
(* The types.                                                              *)

LEMMA InitTypes == Init => TypeOK
<1> SUFFICES ASSUME Init PROVE TypeOK
  OBVIOUS
<1>1. 0 \in 0..(FirstDelay + MaxDelay) /\ 0 \in Left
  BY SessionAssumption, LeftFacts
<1>2. SessionTypeOK
  BY <1>1 DEF Init, SessionInit, SessionTypeOK
<1>3. PeerTypeOK
  <2>1. requests \in 0..MaxRequests
    BY MaxRequestsAssumption DEF Init, PeerInit
  <2>2. QED
    BY <2>1, Zenon DEF Init, PeerInit, PeerTypeOK
<1>4. QED
  BY <1>2, <1>3 DEF Init, TypeOK

(* Frames are appended, taken from the head, and grow older.               *)
LEMMA QueueFacts ==
  ASSUME NEW S, NEW q \in Seq(S)
  PROVE  /\ Len(q) \in Nat /\ DOMAIN q = 1..Len(q) /\ \A i \in DOMAIN q : q[i] \in S
         /\ \A e \in S : /\ Append(q, e) \in Seq(S) /\ Len(Append(q, e)) = Len(q) + 1
                         /\ Append(q, e)[Len(q) + 1] = e
                         /\ \A i \in 1..Len(q) : Append(q, e)[i] = q[i]
         /\ q # <<>> => /\ Len(q) > 0 /\ Head(q) = q[1] /\ Head(q) \in S
                        /\ q[Len(q)] \in S
                        /\ Tail(q) \in Seq(S) /\ Len(Tail(q)) = Len(q) - 1
                        /\ \A i \in 1..(Len(q) - 1) : Tail(q)[i] = q[i + 1]
OBVIOUS

LEMMA FunctionIsSeq ==
  ASSUME NEW S, NEW n \in Nat, NEW f \in [1..n -> S]
  PROVE  f \in Seq(S) /\ Len(f) = n
OBVIOUS

LEMMA SendFacts ==
  ASSUME SessionTypeOK, NEW kind \in Kind, Send(kind)
  PROVE  /\ up' \in Seq([kind : Kind, age : Age])
         /\ Len(up) + 1 \in DOMAIN up' /\ up'[Len(up) + 1] = [kind |-> kind, age |-> 0]
         /\ \A i \in DOMAIN up : i \in DOMAIN up' /\ up'[i] = up[i]
<1> DEFINE F == [kind : Kind, age : Age]
           frame == [kind |-> kind, age |-> 0]
<1>1. frame \in F
  BY SessionAssumption DEF Age
<1>2. up \in Seq(F) /\ up' = Append(up, frame)
  BY DEF SessionTypeOK, Send
<1> HIDE DEF F, frame
<1>3. /\ Len(up) \in Nat /\ DOMAIN up = 1..Len(up)
      /\ up' \in Seq(F) /\ Len(up') = Len(up) + 1 /\ DOMAIN up' = 1..Len(up')
      /\ up'[Len(up) + 1] = frame /\ \A i \in 1..Len(up) : up'[i] = up[i]
  BY <1>1, <1>2, QueueFacts
<1>4. QED
  BY <1>3 DEF F, frame
-----------------------------------------------------------------------------
(* The session, one step at a time.                                        *)

(* A driver that has ended is owed nothing.                                *)
LEMMA EndedKeeps ==
  ASSUME SessionTypeOK', client' # "on"
  PROVE  SessionIInv'
BY DEF SessionIInv, SessionKept, RenewedInTime

LEMMA JoinKeeps ==
  ASSUME SessionIInv, Join, standing = "none"
  PROVE  SessionIInv'
<1>1. up' \in Seq([kind : Kind, age : Age])
  BY SendFacts DEF SessionIInv, Join, Kind
<1>2. SessionTypeOK'
  BY <1>1, SessionAssumption DEF SessionIInv, SessionTypeOK, Join
<1>3. QED
  BY <1>2 DEF Join, SessionIInv, SessionKept, RenewedInTime

(* A heartbeat that is due in time is on its way in time (consumer.rs:     *)
(* 205-207).                                                               *)
LEMMA HeartbeatKeeps ==
  ASSUME SessionIInv, Heartbeat
  PROVE  SessionIInv'
<1> USE DEF SessionIInv
<1>1. /\ up' \in Seq([kind : Kind, age : Age])
      /\ Len(up) + 1 \in DOMAIN up' /\ up'[Len(up) + 1] = [kind |-> "heartbeat", age |-> 0]
      /\ \A i \in DOMAIN up : i \in DOMAIN up' /\ up'[i] = up[i]
  BY SendFacts DEF Heartbeat, Kind
<1>2. beat = 0 /\ beat' = period /\ UNCHANGED <<client, period, skew, down, session, standing>>
  BY DEF Heartbeat
<1>3. SessionTypeOK'
  BY <1>1, <1>2 DEF SessionTypeOK
<1>4. ASSUME HeartbeatUnderWay \/ HeartbeatDue PROVE HeartbeatUnderWay'
  <2>1. CASE HeartbeatUnderWay
    BY <1>1, <1>2, <2>1 DEF HeartbeatUnderWay
  <2>2. CASE HeartbeatDue
    <3>1. Latency - up'[Len(up) + 1].age < session'
      BY <1>1, <1>2, <2>2, SessionAssumption DEF HeartbeatDue
    <3>2. QED
      BY <1>1, <3>1 DEF HeartbeatUnderWay
  <2>3. QED
    BY <1>4, <2>1, <2>2
<1>5. AnswerUnderWay => AnswerUnderWay'
  BY <1>2 DEF AnswerUnderWay, LastAnswer
<1>6. SessionKept' /\ (Ample => RenewedInTime')
  BY <1>2, <1>4, <1>5 DEF SessionKept, RenewedInTime
<1>7. QED
  BY <1>3, <1>6

(* The last answer begins an interval that fits into what is left: it was  *)
(* on its way for no longer than Latency, and the heartbeat will not be    *)
(* either (session.rs:15-16, 80-99).                                       *)
LEMMA AnsweredKeeps ==
  ASSUME SessionIInv, Answered
  PROVE  SessionIInv'
<1> USE DEF SessionIInv
<1> DEFINE R == [left : Left, age : Age]
<1>1. /\ down # <<>> /\ down' = Tail(down) /\ beat' = period'
      /\ period' = HeartbeatDelay(Head(down).left + skew)
      /\ UNCHANGED <<client, skew, up, session, standing>>
  BY DEF Answered
<1>2. down \in Seq(R) /\ skew \in -Skew..Skew /\ Skew \in Nat /\ session \in Nat
  BY SessionAssumption, LeftFacts DEF SessionTypeOK
<1> HIDE DEF R
<1>3. /\ Len(down) \in Nat /\ Len(down) > 0
      /\ Head(down) = down[1] /\ Head(down) \in R
      /\ down' \in Seq(R) /\ Len(down') \in Nat /\ Len(down') = Len(down) - 1
      /\ \A i \in 1..(Len(down) - 1) : down'[i] = down[i + 1]
  BY <1>1, <1>2, QueueFacts
<1>4. Head(down).left \in Nat /\ Head(down).age \in 0..Latency
  BY <1>3, LeftFacts DEF R, Age
<1>5. period' \in MinDelay..MaxDelay /\ period' \in Nat
  <2>1. Head(down).left + skew \in Int
    BY <1>2, <1>4
  <2>2. HeartbeatDelay(Head(down).left + skew) \in MinDelay..MaxDelay
    BY <2>1, DelayBounds
  <2>3. QED
    BY <1>1, <2>2, SessionAssumption
<1>6. SessionTypeOK'
  <2>1. period' \in 0..(FirstDelay + MaxDelay)
    BY <1>5, SessionAssumption
  <2>2. QED
    BY <1>1, <1>3, <2>1 DEF SessionTypeOK, R
<1>7. HeartbeatUnderWay => HeartbeatUnderWay'
  BY <1>1 DEF HeartbeatUnderWay
<1>8. ASSUME Ample, AnswerUnderWay PROVE AnswerUnderWay' \/ HeartbeatDue'
  <2>1. CASE Len(down) > 1
    <3>1. down' # <<>> /\ down'[Len(down')] = down[Len(down)]
      BY <1>3, <2>1
    <3>2. QED
      BY <1>1, <1>8, <3>1 DEF AnswerUnderWay, LastAnswer
  <2>2. CASE Len(down) = 1
    <3> DEFINE t == session + Head(down).age
    <3>1. Head(down).left = session /\ t \in Ttl
      BY <1>3, <1>8, <2>2 DEF AnswerUnderWay, LastAnswer
    <3>2. t \in Nat /\ Clamp((t + Skew) \div 3) + 2 * Latency < t
      BY <1>8, <3>1, SessionAssumption DEF Ample
    <3>3. session + skew \in Int /\ t + Skew \in Nat /\ session + skew <= t + Skew
      BY <1>2, <1>4, <3>2
    <3> HIDE DEF t
    <3>4. HeartbeatDelay(session + skew) <= Clamp((t + Skew) \div 3)
      BY <3>3, DelayGrows
    <3>5. beat' <= Clamp((t + Skew) \div 3) /\ beat' \in Nat
      BY <1>1, <1>5, <3>1, <3>4
    <3>6. Clamp((t + Skew) \div 3) \in Int
      BY <1>2, <3>2, SessionAssumption DEF Clamp
    <3>7. beat' + Latency < session
      BY <1>2, <1>4, <3>2, <3>5, <3>6, SessionAssumption DEF t
    <3>8. down' = <<>>
      BY <1>3, <2>2
    <3>9. QED
      BY <1>1, <3>7, <3>8 DEF HeartbeatDue
  <2>3. QED
    BY <1>3, <2>1, <2>2
<1>9. ~HeartbeatDue
  BY <1>1 DEF HeartbeatDue
<1>10. SessionKept' /\ (Ample => RenewedInTime')
  BY <1>1, <1>7, <1>8, <1>9 DEF SessionKept, RenewedInTime
<1>11. QED
  BY <1>6, <1>10

(* A grant is as long as its ttl, and the answer leaves with it.           *)
LEMMA GrantKeeps ==
  ASSUME SessionIInv, NEW t \in Ttl, Grant(t), UNCHANGED <<client, beat, period, skew>>,
         up' \in Seq([kind : Kind, age : Age])
  PROVE  SessionIInv'
<1> USE DEF SessionIInv
<1> DEFINE R == [left : Left, age : Age]
           answer == [left |-> t, age |-> 0]
<1>1. /\ session' = t /\ standing' = "held"
      /\ down' = IF client = "on" THEN Append(down, answer) ELSE down
  BY DEF Grant
<1>2. t \in Left /\ t \in Nat
  BY LeftFacts
<1>3. answer \in R /\ answer.left = t /\ answer.age = 0 /\ t + answer.age = t
  BY <1>2, SessionAssumption DEF Age
<1>4. down \in Seq(R)
  BY DEF SessionTypeOK
<1> HIDE DEF R, answer
<1>5. /\ Append(down, answer) \in Seq(R) /\ Len(Append(down, answer)) = Len(down) + 1
      /\ Append(down, answer)[Len(down) + 1] = answer /\ Len(down) \in Nat
  BY <1>3, <1>4, QueueFacts
<1>6. SessionTypeOK'
  BY <1>1, <1>2, <1>4, <1>5 DEF SessionTypeOK, R
<1>7. client = "on" => AnswerUnderWay'
  <2> SUFFICES ASSUME client = "on" PROVE AnswerUnderWay'
    OBVIOUS
  <2>1. down' = Append(down, answer)
    BY <1>1
  <2>2. LastAnswer' = answer /\ down' # <<>>
    BY <1>5, <2>1 DEF LastAnswer
  <2>3. QED
    BY <1>1, <1>3, <2>2 DEF AnswerUnderWay
<1>8. QED
  BY <1>1, <1>6, <1>7 DEF SessionKept, RenewedInTime

(* Whatever frame arrives while the session is held, renews it or ends it  *)
(* for good.                                                               *)
LEMMA ArriveKeeps ==
  ASSUME SessionIInv, NEW t \in Ttl, Arrive(t)
  PROVE  SessionIInv'
<1> USE DEF SessionIInv
<1>1. up # <<>> /\ up' = Tail(up) /\ UNCHANGED <<client, beat, period, skew>>
  BY DEF Arrive
<1>2. up' \in Seq([kind : Kind, age : Age])
  <2> DEFINE F == [kind : Kind, age : Age]
  <2>1. up \in Seq(F)
    BY DEF SessionTypeOK
  <2> HIDE DEF F
  <2>2. up' \in Seq(F)
    BY <1>1, <2>1, QueueFacts
  <2>3. QED
    BY <2>2 DEF F
<1>3. CASE Grant(t)
  BY <1>1, <1>2, <1>3, GrantKeeps
<1>4. CASE standing' = "closed" /\ UNCHANGED <<down, session>>
  BY <1>1, <1>2, <1>4 DEF SessionTypeOK, SessionKept, RenewedInTime
<1>5. CASE standing # "held" /\ UNCHANGED <<down, session, standing>>
  BY <1>1, <1>2, <1>5 DEF SessionTypeOK, SessionKept, RenewedInTime
<1>6. QED
  BY <1>3, <1>4, <1>5 DEF Arrive

(* A tick takes one from the session and brings what is under way nearer.  *)
LEMMA TickTypes ==
  ASSUME SessionTypeOK, SessionTick
  PROVE  /\ SessionTypeOK'
         /\ DOMAIN up' = DOMAIN up
         /\ \A i \in DOMAIN up : up'[i].age = up[i].age + 1 /\ up'[i].kind = up[i].kind
         /\ Len(down') = Len(down)
         /\ \A i \in DOMAIN down : /\ down'[i].left = Less(down[i].left)
                                   /\ down'[i].age = down[i].age + 1
<1> DEFINE F == [kind : Kind, age : Age]
           R == [left : Left, age : Age]
<1>1. /\ up \in Seq(F) /\ \A i \in DOMAIN up : up[i] \in F
      /\ down \in Seq(R) /\ \A i \in DOMAIN down : down[i] \in R
  <2>1. up \in Seq(F) /\ down \in Seq(R)
    BY DEF SessionTypeOK
  <2> HIDE DEF F, R
  <2>2. QED
    BY <2>1, QueueFacts
<1>2. ASSUME NEW i \in DOMAIN up
      PROVE  /\ [up[i] EXCEPT !.age = @ + 1] \in F
             /\ [up[i] EXCEPT !.age = @ + 1].age = up[i].age + 1
             /\ [up[i] EXCEPT !.age = @ + 1].kind = up[i].kind
  <2>1. up[i] \in F
    BY <1>1
  <2>2. up[i].age + 1 \in Age
    <3>1. up[i].age \in 0..Latency /\ Latency \in Nat
      BY <2>1, SessionAssumption DEF Age
    <3>2. up[i].age < Latency
      BY DEF SessionTick, InTime
    <3>3. QED
      BY <3>1, <3>2 DEF Age
  <2>3. QED
    BY <2>1, <2>2
<1>3. ASSUME NEW i \in DOMAIN down
      PROVE  [left |-> Less(down[i].left), age |-> down[i].age + 1] \in R
  <2>1. down[i] \in R
    BY <1>1
  <2>2. down[i].age + 1 \in Age
    <3>1. down[i].age \in 0..Latency /\ Latency \in Nat
      BY <2>1, SessionAssumption DEF Age
    <3>2. down[i].age < Latency
      BY DEF SessionTick, InTime
    <3>3. QED
      BY <3>1, <3>2 DEF Age
  <2>3. Less(down[i].left) \in Left
    BY <2>1, LeftFacts
  <2>4. QED
    BY <2>2, <2>3
<1>4. /\ up' = [i \in DOMAIN up |-> [up[i] EXCEPT !.age = @ + 1]]
      /\ down' = [i \in DOMAIN down |-> [left |-> Less(down[i].left), age |-> down[i].age + 1]]
  BY DEF SessionTick
<1>5. DOMAIN up = 1..Len(up) /\ DOMAIN down = 1..Len(down) /\ Len(up) \in Nat /\ Len(down) \in Nat
  BY <1>1
<1>6. up' \in Seq(F) /\ DOMAIN up' = DOMAIN up
  <2>1. \A i \in 1..Len(up) : up'[i] \in F
    BY <1>2, <1>4, <1>5
  <2>2. up' \in [1..Len(up) -> F] /\ DOMAIN up' = DOMAIN up
    BY <1>4, <1>5, <2>1
  <2>3. QED
    BY <1>5, <2>2, FunctionIsSeq
<1>7. down' \in Seq(R) /\ Len(down') = Len(down)
  <2>1. \A i \in 1..Len(down) : down'[i] \in R
    BY <1>3, <1>4, <1>5
  <2>2. down' \in [1..Len(down) -> R]
    BY <1>4, <1>5, <2>1
  <2>3. QED
    BY <1>5, <2>2, FunctionIsSeq
<1>8. session' \in Left
  BY LeftFacts DEF SessionTick, SessionTypeOK
<1>9. beat' \in 0..(FirstDelay + MaxDelay)
  BY SessionAssumption DEF SessionTick, SessionTypeOK, InTime
<1>10. SessionTypeOK'
  BY <1>6, <1>7, <1>8, <1>9 DEF SessionTypeOK, SessionTick
<1>11. \A i \in DOMAIN up : up'[i].age = up[i].age + 1 /\ up'[i].kind = up[i].kind
  BY <1>2, <1>4
<1>12. \A i \in DOMAIN down : /\ down'[i].left = Less(down[i].left)
                              /\ down'[i].age = down[i].age + 1
  BY <1>4
<1>13. QED
  BY <1>6, <1>7, <1>10, <1>11, <1>12

(* Whatever brings the next heartbeat, a tick leaves enough for the rest.  *)
LEMMA TickKeeps ==
  ASSUME SessionIInv, SessionTick
  PROVE  SessionIInv'
<1> USE SessionAssumption DEF SessionIInv
<1>1. SessionTypeOK'
  BY TickTypes
<1>2. CASE ~(Ample /\ client = "on" /\ standing = "held")
  BY <1>1, <1>2 DEF SessionTick, SessionKept, RenewedInTime
<1>3. CASE Ample /\ client = "on" /\ standing = "held"
  <2>1. /\ session \in Nat /\ beat \in Nat /\ client' = "on" /\ session' = Less(session)
        /\ standing' = IF session <= 1 THEN "lapsed" ELSE "held"
        /\ beat > 0 /\ beat' = beat - 1
    BY <1>3, LeftFacts DEF SessionTick, SessionTypeOK, InTime
  <2>2. ASSUME session > 1, HeartbeatUnderWay' \/ AnswerUnderWay' \/ HeartbeatDue'
        PROVE  SessionIInv'
    BY <1>1, <2>1, <2>2 DEF SessionKept, RenewedInTime
  <2>3. CASE HeartbeatUnderWay
    <3>1. PICK i \in DOMAIN up : Latency - up[i].age < session
      BY <2>3 DEF HeartbeatUnderWay
    <3>2. up[i].age \in Nat
      <4> DEFINE F == [kind : Kind, age : Age]
      <4>1. up \in Seq(F)
        BY DEF SessionTypeOK
      <4> HIDE DEF F
      <4>2. up[i] \in F
        BY <4>1, QueueFacts
      <4>3. QED
        BY <4>2 DEF F, Age
    <3>3. up[i].age < Latency
      BY DEF SessionTick, InTime
    <3>4. i \in DOMAIN up' /\ up'[i].age = up[i].age + 1
      BY TickTypes
    <3>5. session > 1 /\ session' = session - 1
      BY <2>1, <3>1, <3>2, <3>3 DEF Less
    <3>6. Latency - up'[i].age < session'
      BY <2>1, <3>1, <3>2, <3>4, <3>5
    <3>7. QED
      BY <2>2, <3>4, <3>5, <3>6 DEF HeartbeatUnderWay
  <2>4. CASE AnswerUnderWay
    <3> DEFINE t == session + LastAnswer.age
    <3>1. down # <<>> /\ LastAnswer.left = session /\ t \in Ttl
      BY <2>4 DEF AnswerUnderWay
    <3>2. /\ Len(down) \in DOMAIN down /\ Len(down') = Len(down) /\ down' # <<>>
          /\ LastAnswer.age \in Nat
      <4> DEFINE R == [left : Left, age : Age]
      <4>1. down \in Seq(R)
        BY DEF SessionTypeOK
      <4> HIDE DEF R
      <4>2. Len(down) \in Nat /\ DOMAIN down = 1..Len(down) /\ Len(down) > 0 /\ LastAnswer \in R
        BY <3>1, <4>1, QueueFacts DEF LastAnswer
      <4>3. Len(down') = Len(down)
        BY TickTypes
      <4>4. down' # <<>>
        BY <4>2, <4>3
      <4>5. QED
        BY <4>2, <4>3, <4>4 DEF R, Age
    <3>3. LastAnswer.age < Latency
      BY <3>2 DEF SessionTick, InTime, LastAnswer
    <3>4. LastAnswer'.left = Less(session) /\ LastAnswer'.age = LastAnswer.age + 1
      BY <3>1, <3>2, TickTypes DEF LastAnswer
    <3>5. t \in Nat /\ Clamp((t + Skew) \div 3) + 2 * Latency < t
      BY <1>3, <3>1 DEF Ample
    <3>6. Clamp((t + Skew) \div 3) \in Nat
      BY <3>5 DEF Clamp
    <3>7. session > 1
      BY <2>1, <3>2, <3>3, <3>5, <3>6
    <3>8. session' = session - 1 /\ session' + LastAnswer'.age = t
      BY <2>1, <3>2, <3>4, <3>7 DEF Less
    <3>9. AnswerUnderWay'
      BY <2>1, <3>1, <3>2, <3>4, <3>8 DEF AnswerUnderWay
    <3>10. QED
      BY <2>2, <3>7, <3>9
  <2>5. CASE HeartbeatDue
    <3>1. down' = <<>>
      <4>1. Len(down') = 0 /\ down' \in Seq([left : Left, age : Age])
        BY <1>1, <2>5, TickTypes DEF HeartbeatDue, SessionTypeOK
      <4>2. QED
        BY <4>1
    <3>2. session > 1 /\ session' = session - 1
      BY <2>1, <2>5 DEF HeartbeatDue, Less
    <3>3. QED
      BY <2>1, <2>2, <2>5, <3>1, <3>2 DEF HeartbeatDue
  <2>6. QED
    BY <1>3, <2>3, <2>4, <2>5 DEF RenewedInTime
<1>4. QED
  BY <1>2, <1>3

(* A stream that breaks, or is left, keeps what it has taken.              *)
LEMMA EndKeeps ==
  ASSUME SessionIInv,
         Leave \/ \E result \in {"off", "left", "failed"} : Break(result)
  PROVE  SessionIInv'
<1>1. client' # "on" /\ client' \in {"off", "left", "failed"} /\ down' = <<>>
      /\ UNCHANGED <<beat, period, skew, session, standing>>
  BY DEF Leave, Break
<1>2. up' \in Seq([kind : Kind, age : Age])
  <2>1. CASE Leave
    BY <2>1, SendFacts DEF Leave, Kind, SessionIInv
  <2>2. CASE \E n \in 0..Len(up) : up' = SubSeq(up, 1, n)
    <3> DEFINE F == [kind : Kind, age : Age]
    <3>1. up \in Seq(F)
      BY DEF SessionIInv, SessionTypeOK
    <3> HIDE DEF F
    <3>2. PICK n \in 0..Len(up) : up' = SubSeq(up, 1, n)
      BY <2>2
    <3>3. up' \in Seq(F)
      BY <3>1, <3>2, QueueFacts, SubSeqProperties
    <3>4. QED
      BY <3>3 DEF F
  <2>3. QED
    BY <2>1, <2>2 DEF Break
<1>3. SessionTypeOK'
  BY <1>1, <1>2 DEF SessionIInv, SessionTypeOK
<1>4. QED
  BY <1>1, <1>3, EndedKeeps
-----------------------------------------------------------------------------
(* The order of things.                                                    *)

\* The farewell stays on its way until it arrives.
LEMMA FarewellFacts ==
  ASSUME SessionTypeOK
  PROVE  /\ Leave => FarewellSent'
         /\ FarewellSent /\ Heartbeat => FarewellSent'
         /\ FarewellSent /\ SessionTick => FarewellSent'
         /\ \A t \in Ttl : FarewellSent /\ Arrive(t) => FarewellSent' \/ standing' = "closed"
<1>1. ASSUME Leave PROVE FarewellSent'
  <2>1. Len(up) + 1 \in DOMAIN up' /\ up'[Len(up) + 1].kind = "closed"
    BY <1>1, SendFacts DEF Leave, Kind
  <2>2. QED
    BY <2>1 DEF FarewellSent
<1>2. ASSUME FarewellSent, Heartbeat PROVE FarewellSent'
  BY <1>2, SendFacts DEF Heartbeat, Kind, FarewellSent
<1>3. ASSUME FarewellSent, SessionTick PROVE FarewellSent'
  <2>1. /\ DOMAIN up' = DOMAIN up
        /\ \A i \in DOMAIN up : up'[i].kind = up[i].kind
    BY <1>3, TickTypes
  <2>2. QED
    BY <1>3, <2>1 DEF FarewellSent
<1>4. ASSUME NEW t \in Ttl, FarewellSent, Arrive(t), standing' # "closed"
      PROVE  FarewellSent'
  <2> DEFINE F == [kind : Kind, age : Age]
  <2>1. up # <<>> /\ up' = Tail(up) /\ Head(up).kind # "closed"
    BY <1>4 DEF Arrive, Grant
  <2>2. up \in Seq(F)
    BY DEF SessionTypeOK
  <2> HIDE DEF F
  <2>3. /\ Len(up) \in Nat /\ DOMAIN up = 1..Len(up) /\ Head(up) = up[1]
        /\ up' \in Seq(F) /\ Len(up') = Len(up) - 1
        /\ \A i \in 1..(Len(up) - 1) : up'[i] = up[i + 1]
    BY <2>1, <2>2, QueueFacts
  <2>4. PICK i \in DOMAIN up : up[i].kind = "closed"
    BY <1>4 DEF FarewellSent
  <2>5. i # 1 /\ i - 1 \in 1..(Len(up) - 1) /\ DOMAIN up' = 1..(Len(up) - 1)
    BY <2>1, <2>3, <2>4, QueueFacts
  <2>6. up'[i - 1] = up[i]
    BY <2>3, <2>5
  <2>7. QED
    BY <2>4, <2>5, <2>6 DEF FarewellSent
<1>5. QED
  BY <1>1, <1>2, <1>3, <1>4

(* The server's own types.                                                 *)
LEMMA PeerTypes ==
  ASSUME PeerTypeOK,
         Serve \/ Signal \/ DropServer \/ Request \/ Answer \/ ServerTask \/ Fail \/ Perish
           \/ UNCHANGED peerVars
  PROVE  PeerTypeOK'
<1>1. requests' \in 0..MaxRequests
  BY MaxRequestsAssumption
     DEF PeerTypeOK, Serve, Signal, DropServer, Request, Answer, ServerTask, SeeSignal,
         Finish, SeeAbort, Fail, Perish, peerVars
<1>2. server' \in {"none", "accepting", "finishing", "ended", "failed", "aborted"}
  BY DEF PeerTypeOK, Serve, Signal, DropServer, Request, Answer, ServerTask, SeeSignal,
         Finish, SeeAbort, Fail, Perish, peerVars, ServerAt
<1>3. signal' \in BOOLEAN /\ abort' \in BOOLEAN /\ cut' \in BOOLEAN
  BY Zenon
     DEF PeerTypeOK, Serve, Signal, DropServer, Request, Answer, ServerTask, SeeSignal,
         Finish, SeeAbort, Fail, Perish, peerVars
<1>4. QED
  BY <1>1, <1>2, <1>3 DEF PeerTypeOK

LEMMA InitIInv == Init => IInv
<1> SUFFICES ASSUME Init PROVE IInv
  OBVIOUS
<1>1. TypeOK
  BY InitTypes
<1>2. SessionIInv
  BY <1>1 DEF TypeOK, Init, SessionInit, SessionIInv, SessionKept, RenewedInTime
<1>3. InOrder
  BY DEF Init, SessionInit, PeerInit, InOrder
<1>4. QED
  BY <1>1, <1>2, <1>3 DEF IInv

(* The program's own steps, up to the ctrl-c.                              *)
LEMMA StartKeeps ==
  ASSUME IInv, BindFails \/ Bind \/ JoinFails \/ GoOnline \/ CtrlC \/ CtrlCFails
  PROVE  IInv'
<1> USE DEF IInv, MainAt
<1>1. TypeOK' /\ SessionIInv'
  <2>1. UNCHANGED sessionVars \/ (Join /\ standing = "none")
    BY DEF BindFails, Bind, JoinFails, GoOnline, CtrlC, CtrlCFails, InOrder
  <2>2. SessionIInv'
    <3>1. CASE UNCHANGED sessionVars
      BY <3>1
         DEF sessionVars, SessionIInv, SessionTypeOK, SessionKept, RenewedInTime,
             HeartbeatUnderWay, AnswerUnderWay, HeartbeatDue, LastAnswer
    <3>2. QED
      BY <2>1, <3>1, JoinKeeps
  <2>3. PeerTypeOK'
    <3>1. PeerTypeOK /\ (Serve \/ DropServer \/ UNCHANGED peerVars)
      BY DEF TypeOK, BindFails, Bind, JoinFails, GoOnline, CtrlC, CtrlCFails
    <3>2. QED
      BY <3>1, PeerTypes
  <2>4. QED
    BY <2>2, <2>3 DEF TypeOK, SessionIInv, BindFails, Bind, JoinFails, GoOnline, CtrlC, CtrlCFails
<1>2. CASE BindFails
  BY <1>1, <1>2 DEF BindFails, InOrder, FarewellSent, sessionVars, peerVars
<1>3. CASE Bind
  BY <1>1, <1>3 DEF Bind, InOrder, FarewellSent, sessionVars, Serve, ServerAt
<1>4. CASE JoinFails
  BY <1>1, <1>4 DEF JoinFails, InOrder, FarewellSent, sessionVars, DropServer
<1>5. CASE GoOnline
  BY <1>1, <1>5 DEF GoOnline, InOrder, Join, peerVars
<1>6. CASE CtrlC
  BY <1>1, <1>6 DEF CtrlC, InOrder, FarewellSent, sessionVars, peerVars
<1>7. CASE CtrlCFails
  BY <1>1, <1>7 DEF CtrlCFails, InOrder, FarewellSent, sessionVars, DropServer
<1>8. QED
  BY <1>2, <1>3, <1>4, <1>5, <1>6, <1>7

(* Its steps after the ctrl-c.                                             *)
LEMMA StopKeeps ==
  ASSUME IInv, Drain \/ StopReturns \/ Exit
  PROVE  IInv'
<1> USE DEF IInv, MainAt
<1>1. SessionIInv'
  <2>1. CASE Drain \/ StopReturns
    <3>1. UNCHANGED sessionVars
      BY <2>1 DEF Drain, DrainDone, DrainGivesUp, DrainFails, StopReturns
    <3>2. QED
      BY <3>1
         DEF sessionVars, SessionIInv, SessionTypeOK, SessionKept, RenewedInTime,
             HeartbeatUnderWay, AnswerUnderWay, HeartbeatDue, LastAnswer
  <2>2. CASE Exit
    <3>1. (IF client = "on" THEN "failed" ELSE client) \in {"off", "left", "failed"}
      BY DEF SessionIInv, SessionTypeOK
    <3>2. QED
      BY <2>2, <3>1, EndKeeps DEF Exit
  <2>3. QED
    BY <2>1, <2>2
<1>2. PeerTypeOK'
  <2>1. PeerTypeOK /\ (Signal \/ DropServer \/ Perish \/ UNCHANGED peerVars)
    BY DEF TypeOK, Drain, DrainDone, DrainGivesUp, DrainFails, StopReturns, Exit
  <2>2. QED
    BY <2>1, PeerTypes
<1>3. TypeOK'
  BY <1>1, <1>2
     DEF TypeOK, SessionIInv, Drain, DrainDone, DrainGivesUp, DrainFails, StopReturns, Exit
<1>4. CASE DrainDone
  BY <1>1, <1>3, <1>4 DEF DrainDone, InOrder, FarewellSent, sessionVars, Signal
<1>5. CASE DrainGivesUp
  BY <1>1, <1>3, <1>5 DEF DrainGivesUp, InOrder, FarewellSent, sessionVars, Signal
<1>6. CASE DrainFails
  BY <1>1, <1>3, <1>6 DEF DrainFails, InOrder, FarewellSent, sessionVars, DropServer
<1>7. CASE StopReturns
  <2>1. server \in {"ended", "failed"} /\ ~cut /\ outcome' \in {"ok", "error"}
        /\ (outcome' = "ok" => server = "ended")
    BY <1>7 DEF StopReturns, InOrder, Ended
  <2>2. main = "stopping" /\ main' = "leaving" /\ UNCHANGED <<sessionVars, peerVars, gaveUp>>
    BY <1>7 DEF StopReturns
  <2>3. InOrder'
    BY <2>1, <2>2 DEF InOrder, FarewellSent, sessionVars, peerVars
  <2>4. QED
    BY <1>1, <1>3, <2>3
<1>8. CASE Exit
  <2>1. /\ main = "leaving" /\ main' = "exited" /\ outcome' = outcome
        /\ client' = (IF client = "on" THEN "failed" ELSE client) /\ standing' = standing
        /\ server' = (IF Running THEN "aborted" ELSE server) /\ requests' = 0
        /\ cut' <=> cut \/ requests > 0
    BY <1>8, Zenon DEF Exit, Perish, Break
  <2>2. client = "off" => up' = <<>>
    <3>1. ASSUME client = "off" PROVE up' = <<>>
      <4>1. up = <<>>
        BY <3>1 DEF InOrder
      <4>2. \A n \in 0..Len(up) : SubSeq(up, 1, n) = <<>>
        BY <4>1
      <4>3. QED
        BY <1>8, <4>2 DEF Exit, Break
    <3>2. QED
      BY <3>1
  <2>3. requests = 0 /\ ~cut => ~cut'
    BY <2>1
  <2>4. InOrder'
    BY <2>1, <2>2, <2>3 DEF InOrder, Running
  <2>5. QED
    BY <1>1, <1>3, <2>4
<1>9. QED
  BY <1>4, <1>5, <1>6, <1>7, <1>8 DEF Drain

(* The driver, the coordinator and time.                                   *)
LEMMA SessionKeeps ==
  ASSUME IInv, DriverTask \/ DriverLeaves \/ DriverFails \/ Coordinator \/ Tick
  PROVE  IInv'
<1> USE DEF IInv
<1>0. SessionIInv'
  BY HeartbeatKeeps, AnsweredKeeps, ArriveKeeps, TickKeeps, EndKeeps
     DEF DriverTask, DriverLeaves, DriverFails, Coordinator, Tick
<1>1. UNCHANGED <<peerVars, mainVars>>
  BY DEF DriverTask, DriverLeaves, DriverFails, Coordinator, Tick
<1>2. TypeOK'
  BY <1>0, <1>1 DEF TypeOK, SessionIInv, PeerTypeOK, peerVars, mainVars
<1>3. /\ client' = "left" /\ client # "left" => FarewellSent'
      /\ client' = client \/ (client = "on" /\ client' # "off")
      /\ client = "off" => up' = <<>> /\ standing' = standing
      /\ main = "stopping" /\ client = "left" => client' = "left"
  <2>1. CASE DriverTask
    BY <2>1 DEF DriverTask, Heartbeat, Answered
  <2>2. CASE DriverLeaves
    BY <2>2, FarewellFacts DEF DriverLeaves, Leave, TypeOK
  <2>3. CASE DriverFails
    BY <2>3 DEF DriverFails, Break
  <2>4. CASE Coordinator
    BY <2>4 DEF Coordinator, Arrive, InOrder
  <2>5. CASE Tick
    <3>1. client' = client
      BY <2>5 DEF Tick, SessionTick
    <3>2. client = "off" => up' = <<>> /\ standing' = standing
      BY <2>5 DEF Tick, SessionTick, InOrder
    <3>3. QED
      BY <3>1, <3>2
  <2>6. QED
    BY <2>1, <2>2, <2>3, <2>4, <2>5
<1>4. client = "left" /\ standing' # "closed" => FarewellSent' \/ main = "exited"
  <2> SUFFICES ASSUME client = "left", standing' # "closed", main # "exited"
               PROVE  FarewellSent'
    OBVIOUS
  <2>1. standing # "closed"
    BY DEF DriverTask, DriverLeaves, DriverFails, Coordinator, Tick, Heartbeat, Answered,
           Arrive, SessionTick, Leave, Break, Grant
  <2>2. FarewellSent
    BY <2>1 DEF InOrder
  <2>3. QED
    BY <2>2, FarewellFacts
       DEF TypeOK, DriverTask, DriverLeaves, DriverFails, Coordinator, Tick, Answered, Leave
<1>5. InOrder'
  BY <1>1, <1>3, <1>4 DEF InOrder, peerVars, mainVars
<1>6. QED
  BY <1>0, <1>2, <1>5

(* The server's task and its callers.                                      *)
LEMMA PeersKeep ==
  ASSUME IInv, Peers \/ Server
  PROVE  IInv'
<1> USE DEF IInv
<1>1. UNCHANGED <<sessionVars, mainVars>>
  BY DEF Peers, Server
<1>2. SessionIInv'
  BY <1>1
     DEF sessionVars, SessionIInv, SessionTypeOK, SessionKept, RenewedInTime,
         HeartbeatUnderWay, AnswerUnderWay, HeartbeatDue, LastAnswer
<1>3. TypeOK'
  <2>1. PeerTypeOK'
    BY PeerTypes DEF TypeOK, Peers, Server
  <2>2. QED
    BY <1>1, <1>2, <2>1 DEF TypeOK, SessionIInv, mainVars
<1>4. FarewellSent' = FarewellSent
  BY <1>1 DEF FarewellSent, sessionVars
<1>5. UNCHANGED <<client, up, standing, main, gaveUp, outcome>>
  BY <1>1 DEF sessionVars, mainVars
<1>6. CASE Request \/ Answer
  BY <1>2, <1>3, <1>4, <1>5, <1>6 DEF Request, Answer, InOrder, TypeOK, PeerTypeOK
<1>7. CASE Fail
  BY <1>2, <1>3, <1>4, <1>5, <1>7 DEF Fail, Running, InOrder
<1>8. CASE ServerTask
  BY <1>2, <1>3, <1>4, <1>5, <1>8
     DEF ServerTask, SeeSignal, Finish, SeeAbort, ServerAt, Running, InOrder
<1>9. QED
  BY <1>6, <1>7, <1>8 DEF Peers, Server

(* Every step preserves the invariant.                                     *)
LEMMA StepIInv == IInv /\ [Next]_vars => IInv'
<1>1. ASSUME IInv, UNCHANGED vars PROVE IInv'
  BY <1>1
     DEF vars, sessionVars, peerVars, mainVars, IInv, TypeOK, PeerTypeOK, SessionIInv,
         SessionTypeOK, SessionKept, RenewedInTime, HeartbeatUnderWay, AnswerUnderWay,
         HeartbeatDue, LastAnswer, InOrder, FarewellSent
<1>2. QED
  BY <1>1, StartKeeps, StopKeeps, SessionKeeps, PeersKeep DEF Next, Program

(* The invariant holds in every reachable state.                           *)
THEOREM Invariance == Spec => []IInv
BY InitIInv, StepIInv, PTL DEF Spec

(* As long as the driver runs its session does not lapse, whatever ttl the *)
(* coordinator chooses from those that leave room for the interval and one *)
(* way there and back, and however the clocks differ (session.rs:15-16,    *)
(* 80-99; consumer.rs:205-207, 270-290).                                   *)
THEOREM SessionAlwaysKept == Spec => []SessionKept
<1>1. IInv => SessionKept
  BY DEF IInv, SessionIInv
<1>2. QED
  BY <1>1, Invariance, PTL

(* What "ample" asks of a ttl: that it is longer than the shortest         *)
(* interval and the way there and back, and that two thirds of it are      *)
(* longer than that way and what a clock that is off takes away            *)
(* (session.rs:15-16).                                                     *)
THEOREM ThirdIsAmple ==
  ASSUME \A t \in Ttl : MinDelay + 2 * Latency < t /\ Skew + 6 * Latency < 2 * t
  PROVE  Ample
<1> SUFFICES ASSUME NEW t \in Ttl
             PROVE  Clamp((t + Skew) \div 3) + 2 * Latency < t
  BY DEF Ample
<1>1. /\ t \in Nat /\ Skew \in Nat /\ Latency \in Nat
      /\ MinDelay \in Nat \ {0} /\ MaxDelay \in Nat \ {0} /\ MinDelay <= MaxDelay
  BY SessionAssumption
<1>2. MinDelay + 2 * Latency < t /\ Skew + 6 * Latency < 2 * t
  OBVIOUS
<1>3. (t + Skew) \div 3 \in Nat /\ 3 * ((t + Skew) \div 3) <= t + Skew
  BY <1>1
<1>4. Clamp((t + Skew) \div 3) = MinDelay \/ Clamp((t + Skew) \div 3) <= (t + Skew) \div 3
  BY <1>1, <1>3 DEF Clamp
<1>5. CASE Clamp((t + Skew) \div 3) = MinDelay
  BY <1>2, <1>5
<1>6. CASE Clamp((t + Skew) \div 3) <= (t + Skew) \div 3
  <2>1. Clamp((t + Skew) \div 3) \in Int
    BY <1>1, <1>3 DEF Clamp
  <2>2. QED
    BY <1>1, <1>2, <1>3, <1>6, <2>1
<1>7. QED
  BY <1>4, <1>5, <1>6

(* Whoever is advertised is served, from the bind until the farewell is on *)
(* its way (examples/peer_server.rs:70-88, 104-109; dispatcher.rs:154-174).*)
THEOREM AdvertisedAlwaysServed == Spec => []AdvertisedIsServed
<1>1. IInv => AdvertisedIsServed
  BY DEF IInv, TypeOK, InOrder, AdvertisedIsServed, SessionTypeOK
<1>2. QED
  BY <1>1, Invariance, PTL

(* A shutdown that says Ok has cut nobody short (splitter-peer lib.rs:     *)
(* 105-123).                                                               *)
THEOREM ShutdownAlwaysGraceful == Spec => []ShutdownIsGraceful
<1>1. IInv => ShutdownIsGraceful
  BY DEF IInv, InOrder, ShutdownIsGraceful
<1>2. QED
  BY <1>1, Invariance, PTL
=============================================================================
