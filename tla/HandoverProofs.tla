--------------------------- MODULE HandoverProofs ---------------------------
(***************************************************************************)
(* The composition: two runs of the Processor, between which messages are  *)
(* under way, keep the promise of a handover.  Seen from the Processor the *)
(* drivers and the coordinator are just its environment, so that all that  *)
(* is proved of the Processor holds of either run.  What is added here is  *)
(* about the words: each of them was true when it was said, and what it    *)
(* says does not become false while it is on its way.                      *)
(***************************************************************************)
EXTENDS Handover, ProcessorProofs

\* There is one Ownership of either grant.
LEMMA OneOwnershipEach ==
  /\ Ownership = {The(g) : g \in GrantId}
  /\ \A g \in GrantId : The(g) \in Ownership /\ The(g)[1] = g /\ The(g)[2] = 1
  /\ \A g, h \in GrantId : The(g) = The(h) => g = h
  /\ Old \in GrantId /\ New \in GrantId /\ Other(Old) = New /\ Other(New) = Old
<1>1. MaxAssign = 1 /\ 1..MaxAssign = {1} /\ GrantId = {Old, New} /\ Old # New
  BY HandoverAssumption
<1>2. QED
  BY <1>1 DEF Ownership, The, Other

\* A stream gains what is sent, and loses what is heard.
LEMMA StreamFacts ==
  ASSUME NEW S, NEW q \in Seq(S)
  PROVE  /\ \A e \in S : /\ q \o <<e>> \in Seq(S) /\ Range(q \o <<e>>) = Range(q) \union {e}
                         /\ Append(q, e) \in Seq(S) /\ Range(Append(q, e)) = Range(q) \union {e}
         /\ q # <<>> => /\ Head(q) \in S /\ Head(q) \in Range(q)
                        /\ Tail(q) \in Seq(S) /\ Range(Tail(q)) \subseteq Range(q)
<1>1. Len(q) \in Nat /\ DOMAIN q = 1..Len(q)
  OBVIOUS
<1>2. ASSUME NEW e \in S
      PROVE  /\ q \o <<e>> = Append(q, e) /\ Append(q, e) \in Seq(S)
             /\ Range(Append(q, e)) = Range(q) \union {e}
  <2> DEFINE r == Append(q, e)
  <2>1. /\ r \in Seq(S) /\ DOMAIN r = 1..(Len(q) + 1) /\ r[Len(q) + 1] = e
        /\ \A i \in 1..Len(q) : r[i] = q[i]
    OBVIOUS
  <2>2. q \o <<e>> = r
    OBVIOUS
  <2> HIDE DEF r
  <2>3. 1..(Len(q) + 1) = 1..Len(q) \union {Len(q) + 1}
    BY <1>1
  <2>4. Range(r) = Range(q) \union {e}
    BY <1>1, <2>1, <2>3 DEF Range
  <2>5. QED
    BY <2>1, <2>2, <2>4 DEF r
<1>3. ASSUME q # <<>>
      PROVE  /\ Head(q) \in S /\ Head(q) \in Range(q)
             /\ Tail(q) \in Seq(S) /\ Range(Tail(q)) \subseteq Range(q)
  <2>1. Len(q) > 0 /\ Head(q) = q[1] /\ 1 \in DOMAIN q /\ q[1] \in S
    BY <1>1, <1>3
  <2>2. /\ Tail(q) \in Seq(S) /\ DOMAIN Tail(q) = 1..(Len(q) - 1)
        /\ \A i \in 1..(Len(q) - 1) : Tail(q)[i] = q[i + 1] /\ i + 1 \in DOMAIN q
    BY <1>1, <1>3
  <2>3. QED
    BY <2>1, <2>2 DEF Range
<1>4. QED
  BY <1>2, <1>3
-----------------------------------------------------------------------------
(* The drivers and the coordinator are an environment of the Processor.    *)

LEMMA CloseIsSignal ==
  ASSUME TypeOK, NEW g \in GrantId, NEW latch \in DriverLatch \ {"expired"},
         Close(g, latch), UNCHANGED processorVars
  PROVE  DriverStep \/ UNCHANGED vars
<1>1. CASE Exists(The(g))
  <2>1. gen[g] \in 0..1 /\ The(g)[1] = g /\ The(g)[2] = 1 /\ The(g) \in Ownership
    BY HandoverAssumption, OneOwnershipEach DEF TypeOK, LifecycleTypeOK
  <2>2. Current(The(g))
    BY <1>1, <2>1 DEF Exists, Current
  <2>3. Signal(The(g), latch)
    BY <1>1, <2>2 DEF Close, Signal
  <2>4. QED
    BY <2>1, <2>3 DEF DriverStep
<1>2. CASE ~Exists(The(g))
  BY <1>2 DEF Close, vars
<1>3. QED
  BY <1>1, <1>2

LEMMA ReceiveSimulates ==
  ASSUME TypeOK, NEW g \in GrantId, Receive(g)
  PROVE  DriverStep \/ UNCHANGED vars
<1> DEFINE message == Head(inbox[g])
<1>1. UNCHANGED processorVars
  BY DEF Receive
<1>2. CASE OnAssign(g, message)
  BY <1>1, <1>2 DEF OnAssign, DriverStep, AssignState
<1>3. CASE OnPromoteOrRevoke(g, message)
  BY <1>1, <1>3, CloseIsSignal DEF OnPromoteOrRevoke, DriverLatch
<1>4. CASE OnNotify(g, message)
  BY <1>1, <1>4, CloseIsSignal DEF OnNotify, DriverLatch
<1>5. QED
  BY <1>2, <1>3, <1>4 DEF Receive

LEMMA StepSimulates == TypeOK /\ [HandoverNext]_allVars => [Next]_vars
<1> SUFFICES ASSUME TypeOK, [HandoverNext]_allVars PROVE [Next]_vars
  OBVIOUS
<1>1. CASE Coordinator
  BY <1>1 DEF Coordinator, Move, Lapse, Promote, Hear
<1>2. CASE Driver
  BY <1>2, ReceiveSimulates DEF Driver, Next
<1>3. CASE Task \/ User
  BY <1>3 DEF Task, User, Next, Run
<1>4. ASSUME NEW g \in GrantId, Watcher(g) PROVE [Next]_vars
  BY <1>4 DEF Watcher, WatcherReports
<1>5. ASSUME NEW g \in GrantId, LeaseExpires(g) PROVE [Next]_vars
  <2>1. DriverStep
    BY <1>5, OneOwnershipEach DEF LeaseExpires, DriverStep
  <2>2. QED
    BY <2>1 DEF Next
<1>6. CASE UNCHANGED allVars
  BY <1>6 DEF allVars
<1>7. QED
  BY <1>1, <1>2, <1>3, <1>4, <1>5, <1>6 DEF HandoverNext

(* The two runs of a handover are runs of the Processor, and have all its  *)
(* properties (processor.rs:123-193).                                      *)
THEOREM RunsAsProcessor == HandoverSpec => Spec /\ []IInv
<1>1. HandoverInit => Init /\ IInv
  BY InitIInv DEF HandoverInit
<1>2. IInv /\ [HandoverNext]_allVars => [Next]_vars /\ IInv'
  BY StepSimulates, StepIInv DEF IInv
<1>3. QED
  BY <1>1, <1>2, PTL DEF HandoverSpec, Spec
-----------------------------------------------------------------------------
(* What the steps do to the latches and to the streams.                    *)

\* Latches stay closed; the one assignment of a grant finds none.
LEMMA OwnGrows ==
  ASSUME IInv, [Next]_vars, NEW g \in GrantId
  PROVE  own[The(g)] \subseteq own'[The(g)]
<1>1. The(g) \in Ownership
  BY OneOwnershipEach
<1>2. LiveIsCurrent
  <2> SUFFICES ASSUME NEW o \in Ownership, Live(o) PROVE Current(o)
    BY DEF LiveIsCurrent
  <2>1. gen[o[1]] \in 0..1 /\ o[2] = 1
    BY HandoverAssumption DEF IInv, TypeOK, LifecycleTypeOK, Ownership
  <2>2. QED
    BY <2>1 DEF Live, Exists, Current
<1>3. CASE Exists(The(g))
  BY <1>1, <1>2, <1>3, LiveStays
<1>4. CASE ~Exists(The(g))
  BY <1>1, <1>4, RunFacts DEF Earned
<1>5. QED
  BY <1>3, <1>4

\* A consumer closes the latch that the message names, and no other.
Named(message) == IF message = "ACTIVE" THEN "active" ELSE message

LEMMA ReceiveEffect ==
  ASSUME IInv, NEW g \in GrantId, Receive(g)
  PROVE  /\ own'[The(g)] \subseteq own[The(g)] \union {Named(Head(inbox[g]))}
         /\ \A h \in GrantId \ {g} : own'[The(h)] = own[The(h)]
         /\ \A h \in GrantId : "expired" \in own'[The(h)] => "expired" \in own[The(h)]
<1> DEFINE message == Head(inbox[g])
<1>1. \A h \in GrantId : The(h) \in Ownership /\ (h # g => The(h) # The(g))
  BY OneOwnershipEach
<1>2. ASSUME NEW latch \in DriverLatch \ {"expired"}, Close(g, latch)
      PROVE  /\ own'[The(g)] \subseteq own[The(g)] \union {latch}
             /\ \A h \in GrantId \ {g} : own'[The(h)] = own[The(h)]
             /\ \A h \in GrantId : "expired" \in own'[The(h)] => "expired" \in own[The(h)]
  <2>1. own' = own \/ own' = [own EXCEPT ![The(g)] = @ \union {latch}]
    BY <1>2 DEF Close, CloseLatch, lifecycleVars
  <2>2. QED
    BY <1>1, <2>1 DEF IInv, TypeOK, LifecycleTypeOK
<1>3. CASE OnAssign(g, message)
  <2>1. gen[g] \in Nat /\ gen[g] + 1 <= 1 /\ message \in {"ACTIVE", "ALLOCATED"}
    BY <1>3, HandoverAssumption DEF OnAssign, Assign, IInv, TypeOK, LifecycleTypeOK
  <2>2. gen[g] = 0 /\ gen[g] + 1 = 1
    BY <2>1
  <2>3. ASSUME NEW h \in GrantId
        PROVE  own'[The(h)] = IF h = g THEN NewLatches(message, FALSE) ELSE own[The(h)]
    <3>1. The(h) \in Ownership /\ (The(h) = <<g, 1>> <=> h = g) /\ The(h) # <<g, 0>>
      <4>1. The(h) \in Ownership /\ The(g) = <<g, 1>> /\ (The(h) = The(g) <=> h = g)
        BY OneOwnershipEach DEF The
      <4>2. <<h, 1>> # <<g, 0>>
        OBVIOUS
      <4>3. QED
        BY <4>1, <4>2 DEF The
    <3>2. QED
      BY <1>3, <2>2, <3>1 DEF OnAssign, Assign
  <2>4. NewLatches(message, FALSE) \subseteq {Named(message)} \ {"expired"}
    BY <2>1 DEF NewLatches, Named
  <2>5. QED
    BY <2>3, <2>4
<1>4. CASE OnPromoteOrRevoke(g, message)
  BY <1>2, <1>4 DEF OnPromoteOrRevoke, DriverLatch, Named
<1>5. CASE OnNotify(g, message)
  BY <1>2, <1>5 DEF OnNotify, DriverLatch, Named
<1>6. QED
  BY <1>3, <1>4, <1>5 DEF Receive

\* A run, or its user, closes none of the driver's latches.
LEMMA RunEffect ==
  ASSUME IInv, Task \/ User, NEW g \in GrantId
  PROVE  own'[The(g)] \subseteq own[The(g)] \union UserLatch
<1>1. PICK o \in Ownership : Dispatch(o) \/ Run(o) \/ UserRange(o)
  BY DEF Task, User, Run
<1>2. UNCHANGED lifecycleVars \/ \E latch \in UserLatch : CloseLatch(o, latch)
  BY <1>1
     DEF Dispatch, Skip, Offer, Build, Decline, Run, Polled, Step1, Step2, Step3, Step4, Step5,
         Step6, Bail, DrainReturns, Cleanup, UserRange, RangeInitialized, RangeDrained,
         RangeFails, RangeReports, UserLatch
<1>3. The(g) \in Ownership
  BY OneOwnershipEach
<1>4. QED
  BY <1>2, <1>3 DEF lifecycleVars, CloseLatch, IInv, TypeOK, LifecycleTypeOK

\* The coordinator tells New that Old has unloaded when it has heard so, and
\* makes it active when it has promoted it.
LEMMA CoordinatorTypes ==
  ASSUME HandoverTypeOK, Coordinator
  PROVE  HandoverTypeOK'
<1> USE DEF HandoverTypeOK
<1>1. ASSUME NEW h \in GrantId, NEW m \in Message
      PROVE  Tell(h, <<m>>) \in [GrantId -> Seq(Message)]
  <2>1. inbox[h] \in Seq(Message)
    OBVIOUS
  <2>2. inbox[h] \o <<m>> \in Seq(Message)
    BY <2>1, StreamFacts
  <2>3. QED
    BY <2>2 DEF Tell
<1>2. {"revoked", "loaded", "unloaded", "active", "ALLOCATED"} \subseteq Message
  BY DEF Message, DriverLatch
<1>3. TypeOK'
  BY DEF Coordinator, Move, Lapse, Promote, Hear, vars, lifecycleVars, processorVars,
         TypeOK, LifecycleTypeOK
<1>4. CASE Move
  <2>1. Tell(Old, <<"revoked">>) \in [GrantId -> Seq(Message)]
    BY <1>1, <1>2, OneOwnershipEach
  <2>2. inbox' = [Tell(Old, <<"revoked">>) EXCEPT ![New] = <<"ALLOCATED">>]
    BY <1>4 DEF Move
  <2>3. <<"ALLOCATED">> \in Seq(Message)
    BY <1>2
  <2>4. inbox' \in [GrantId -> Seq(Message)]
    BY <2>1, <2>2, <2>3
  <2>5. QED
    BY <1>3, <1>4, <2>4 DEF Move
<1>5. CASE Lapse \/ Promote
  BY <1>1, <1>2, <1>3, <1>5, OneOwnershipEach DEF Lapse, Promote
<1>6. ASSUME NEW g \in GrantId, Hear(g) PROVE HandoverTypeOK'
  <2>1. outbox[g] \in Seq(UserLatch) /\ outbox[g] # <<>>
    BY <1>6 DEF Hear
  <2>2. Head(outbox[g]) \in UserLatch /\ Tail(outbox[g]) \in Seq(UserLatch)
    BY <2>1, StreamFacts
  <2>3. Other(g) \in GrantId
    BY OneOwnershipEach DEF Other
  <2>4. inbox' \in [GrantId -> Seq(Message)]
    BY <1>1, <1>2, <1>6, <2>2, <2>3 DEF Hear, Relay, UserLatch
  <2>5. QED
    BY <1>3, <1>6, <2>2, <2>4 DEF Hear
<1>7. QED
  BY <1>4, <1>5, <1>6 DEF Coordinator

LEMMA TypesKeep ==
  ASSUME IInv', HandoverTypeOK, [HandoverNext]_allVars
  PROVE  HandoverTypeOK'
<1>1. TypeOK'
  BY DEF IInv
<1>2. CASE Coordinator
  BY <1>2, CoordinatorTypes
<1>3. ASSUME NEW g \in GrantId, Receive(g) PROVE HandoverTypeOK'
  <2>1. inbox[g] \in Seq(Message) /\ inbox[g] # <<>>
    BY <1>3 DEF Receive, HandoverTypeOK
  <2>2. Tail(inbox[g]) \in Seq(Message)
    BY <2>1, StreamFacts
  <2>3. QED
    BY <1>1, <1>3, <2>2 DEF Receive, HandoverTypeOK
<1>4. CASE UNCHANGED handoverVars
  BY <1>1, <1>4 DEF handoverVars, HandoverTypeOK
<1>5. ASSUME NEW g \in GrantId, NEW signal \in UserLatch, WatcherReports(g, signal)
      PROVE  HandoverTypeOK'
  <2>1. outbox[g] \in Seq(UserLatch)
    BY DEF HandoverTypeOK
  <2>2. Append(outbox[g], signal) \in Seq(UserLatch)
    BY <2>1, StreamFacts
  <2>3. QED
    BY <1>1, <1>5, <2>2 DEF WatcherReports, HandoverTypeOK
<1>6. QED
  BY <1>2, <1>3, <1>4, <1>5 DEF HandoverNext, Driver, Watcher, LeaseExpires, allVars

\* What the coordinator puts on a stream, and what it has been told for that.
LEMMA CoordinatorEffect ==
  ASSUME HandoverTypeOK, Coordinator
  PROVE  /\ UNCHANGED vars /\ deal \subseteq deal'
         /\ \A m \in Range(inbox'[New]) \ Range(inbox[New]) :
              /\ m # "ACTIVE"
              /\ m = "unloaded" => "unload" \in heard'[Old]
              /\ m = "active" => "promoted" \in deal'
         /\ \A g \in GrantId : heard[g] \subseteq heard'[g]
         /\ \A g \in GrantId, signal \in UserLatch : Reported(g, signal)' => Reported(g, signal)
         /\ "promoted" \in deal' \ deal => "lapsed" \in deal \/ "unload" \in heard[Old]
<1> USE OneOwnershipEach DEF HandoverTypeOK
<1>1. ASSUME NEW h \in GrantId, NEW m \in Message, inbox' = Tell(h, <<m>>)
      PROVE  Range(inbox'[New]) \subseteq Range(inbox[New]) \union (IF h = New THEN {m} ELSE {})
  <2>1. CASE h = New
    <3>1. inbox[New] \in Seq(Message) /\ inbox'[New] = inbox[New] \o <<m>>
      BY <1>1, <2>1 DEF Tell
    <3>2. Range(inbox'[New]) = Range(inbox[New]) \union {m}
      BY <3>1, StreamFacts
    <3>3. QED
      BY <2>1, <3>2
  <2>2. CASE h # New
    BY <1>1, <2>2 DEF Tell
  <2>3. QED
    BY <2>1, <2>2
<1>2. {"revoked", "loaded", "unloaded", "active", "ALLOCATED"} \subseteq Message
  BY DEF Message, DriverLatch
<1>3. CASE Move
  <2>1. inbox'[New] = <<"ALLOCATED">> /\ deal' = deal \union {"moving"}
        /\ UNCHANGED <<vars, outbox, heard>>
    BY <1>3 DEF Move, Tell
  <2>2. Range(inbox'[New]) = {"ALLOCATED"}
    BY <2>1 DEF Range
  <2>3. QED
    BY <2>1, <2>2 DEF Reported
<1>4. CASE Lapse
  BY <1>4 DEF Lapse, Reported
<1>5. CASE Promote
  <2>1. Range(inbox'[New]) \subseteq Range(inbox[New]) \union {"active"}
    BY <1>1, <1>2, <1>5 DEF Promote
  <2>2. QED
    BY <1>5, <2>1 DEF Promote, Reported
<1>6. ASSUME NEW g \in GrantId, Hear(g)
      PROVE  /\ UNCHANGED <<vars, deal>>
             /\ \A m \in Range(inbox'[New]) \ Range(inbox[New]) :
                  /\ m \notin {"ACTIVE", "active"}
                  /\ m = "unloaded" => "unload" \in heard'[Old]
             /\ \A h \in GrantId : heard[h] \subseteq heard'[h]
             /\ \A h \in GrantId, signal \in UserLatch :
                  Reported(h, signal)' => Reported(h, signal)
  <2> DEFINE report == Head(outbox[g])
  <2>1. /\ UNCHANGED <<vars, deal>> /\ outbox' = [outbox EXCEPT ![g] = Tail(@)]
        /\ heard' = [heard EXCEPT ![g] = @ \union {report}]
        /\ inbox' = Relay(g, report) /\ outbox[g] # <<>> /\ outbox[g] \in Seq(UserLatch)
    BY <1>6 DEF Hear
  <2>2. /\ report \in UserLatch /\ report \in Range(outbox[g])
        /\ Range(Tail(outbox[g])) \subseteq Range(outbox[g])
    BY <2>1, StreamFacts
  <2> HIDE DEF report
  <2>3. \A h \in GrantId, signal \in UserLatch : Reported(h, signal)' => Reported(h, signal)
    BY <2>1, <2>2 DEF Reported
  <2>4. \A h \in GrantId : heard[h] \subseteq heard'[h]
    BY <2>1
  <2>5. ASSUME NEW m \in Range(inbox'[New]) \ Range(inbox[New])
        PROVE  m \notin {"ACTIVE", "active"} /\ (m = "unloaded" => "unload" \in heard'[Old])
    <3>1. Other(g) \in GrantId /\ (Other(g) = New => g = Old)
      BY HandoverAssumption DEF Other
    <3>2. CASE report = "load"
      <4>1. inbox' = Tell(Other(g), <<"loaded">>)
        BY <2>1, <3>2 DEF Relay
      <4>2. m = "loaded"
        BY <1>1, <1>2, <3>1, <4>1
      <4>3. QED
        BY <4>2
    <3>3. CASE report = "unload"
      <4>1. inbox' = Tell(Other(g), <<"unloaded">>)
        BY <2>1, <3>3 DEF Relay
      <4>2. m = "unloaded" /\ g = Old
        BY <1>1, <1>2, <3>1, <4>1
      <4>3. QED
        BY <2>1, <3>3, <4>2
    <3>4. CASE report = "request_revoke"
      <4>1. inbox' = Tell(g, <<"revoked">>)
        BY <2>1, <3>4 DEF Relay
      <4>2. m = "revoked"
        BY <1>1, <1>2, <4>1
      <4>3. QED
        BY <4>2
    <3>5. QED
      BY <2>2, <3>2, <3>3, <3>4 DEF UserLatch
  <2>6. QED
    BY <2>1, <2>3, <2>4, <2>5
<1>7. QED
  BY <1>3, <1>4, <1>5, <1>6 DEF Coordinator
-----------------------------------------------------------------------------
(* The words stay true.                                                    *)

\* What is said stays said, and a step adds no word that is not true.
LEMMA WordStays ==
  ASSUME WordIsTrue,
         \A g \in GrantId : own[The(g)] \subseteq own'[The(g)],
         \A g \in GrantId : heard[g] \subseteq heard'[g],
         deal \subseteq deal',
         \A g \in GrantId, signal \in UserLatch :
           Reported(g, signal)' => Reported(g, signal) \/ signal \in own[The(g)],
         ToldOrToBe(New, "unloaded")' => ToldOrToBe(New, "unloaded") \/ "unload" \in heard'[Old],
         "ACTIVE" \in Range(inbox'[New]) => "ACTIVE" \in Range(inbox[New]),
         ToldOrToBe(New, "active")' => ToldOrToBe(New, "active") \/ "promoted" \in deal',
         "promoted" \in deal' \ deal => "lapsed" \in deal \/ "unload" \in heard[Old]
  PROVE  WordIsTrue'
<1> USE OneOwnershipEach
<1>1. \A g \in GrantId, signal \in UserLatch : Reported(g, signal)' => signal \in own'[The(g)]
  BY DEF WordIsTrue
<1>2. /\ ToldOrToBe(New, "unloaded")' => "unload" \in heard'[Old]
      /\ "ACTIVE" \notin Range(inbox'[New])
      /\ ToldOrToBe(New, "active")' => "promoted" \in deal'
  BY DEF WordIsTrue
<1>3. "promoted" \in deal' => "lapsed" \in deal' \/ "unload" \in heard'[Old]
  BY DEF WordIsTrue
<1>4. QED
  BY <1>1, <1>2, <1>3 DEF WordIsTrue

LEMMA WordsKeep ==
  ASSUME IInv, HandoverTypeOK, WordIsTrue, [HandoverNext]_allVars
  PROVE  WordIsTrue'
<1>1. \A g \in GrantId : own[The(g)] \subseteq own'[The(g)]
  BY StepSimulates, OwnGrows DEF IInv
<1>2. Old \in GrantId /\ New \in GrantId
  BY OneOwnershipEach
<1>3. CASE Coordinator
  <2>1. own' = own
    BY <1>3, CoordinatorEffect DEF vars, lifecycleVars
  <2>2. \A m \in Range(inbox'[New]) : m \in Range(inbox[New])
          \/ (m # "ACTIVE" /\ (m = "unloaded" => "unload" \in heard'[Old])
                           /\ (m = "active" => "promoted" \in deal'))
    BY <1>3, CoordinatorEffect
  <2>3. /\ ToldOrToBe(New, "unloaded")' => ToldOrToBe(New, "unloaded") \/ "unload" \in heard'[Old]
        /\ "ACTIVE" \in Range(inbox'[New]) => "ACTIVE" \in Range(inbox[New])
        /\ ToldOrToBe(New, "active")' => ToldOrToBe(New, "active") \/ "promoted" \in deal'
    BY <2>1, <2>2 DEF ToldOrToBe
  <2>4. QED
    BY <1>1, <1>3, <2>3, CoordinatorEffect, WordStays
<1>4. ASSUME NEW g \in GrantId, Receive(g) PROVE WordIsTrue'
  <2>1. /\ inbox[g] \in Seq(Message) /\ inbox[g] # <<>> /\ inbox' = [inbox EXCEPT ![g] = Tail(@)]
        /\ UNCHANGED <<outbox, heard, deal>>
    BY <1>4 DEF Receive, HandoverTypeOK
  <2>2. Head(inbox[g]) \in Range(inbox[g]) /\ Range(Tail(inbox[g])) \subseteq Range(inbox[g])
    BY <2>1, StreamFacts
  <2>3. Range(inbox'[New]) \subseteq Range(inbox[New])
    BY <1>2, <2>1, <2>2 DEF HandoverTypeOK
  <2>4. g = New => Named(Head(inbox[g])) = Head(inbox[g])
    BY <2>2 DEF Named, WordIsTrue
  <2>5. own'[The(New)] \subseteq own[The(New)] \union Range(inbox[New])
    BY <1>2, <1>4, <2>2, <2>4, ReceiveEffect
  <2>6. \A latch \in {"unloaded", "active"} :
          ToldOrToBe(New, latch)' => ToldOrToBe(New, latch)
    BY <2>3, <2>5 DEF ToldOrToBe
  <2>7. \A h \in GrantId, signal \in UserLatch : Reported(h, signal)' => Reported(h, signal)
    BY <2>1 DEF Reported
  <2>8. QED
    BY <1>1, <2>1, <2>3, <2>6, <2>7, WordStays
<1>5. CASE (Task \/ User) /\ UNCHANGED handoverVars
  <2>1. own'[The(New)] \subseteq own[The(New)] \union UserLatch
    BY <1>2, <1>5, RunEffect
  <2>2. UNCHANGED <<inbox, outbox, heard, deal>>
    BY <1>5 DEF handoverVars
  <2>3. \A latch \in {"unloaded", "active"} :
          ToldOrToBe(New, latch)' => ToldOrToBe(New, latch)
    BY <2>1, <2>2 DEF ToldOrToBe, UserLatch
  <2>4. \A g \in GrantId, signal \in UserLatch : Reported(g, signal)' => Reported(g, signal)
    BY <2>2 DEF Reported
  <2>5. QED
    BY <1>1, <2>2, <2>3, <2>4, WordStays
<1>6. ASSUME NEW g \in GrantId, NEW signal \in UserLatch, WatcherReports(g, signal)
      PROVE  WordIsTrue'
  <2>1. /\ signal \in own[The(g)] /\ outbox' = [outbox EXCEPT ![g] = Append(@, signal)]
        /\ UNCHANGED <<inbox, heard, deal, own>> /\ outbox[g] \in Seq(UserLatch)
    BY <1>6 DEF WatcherReports, vars, lifecycleVars, HandoverTypeOK
  <2>2. Range(Append(outbox[g], signal)) = Range(outbox[g]) \union {signal}
    BY <2>1, StreamFacts
  <2>3. \A h \in GrantId, s \in UserLatch :
          Reported(h, s)' => Reported(h, s) \/ s \in own[The(h)]
    BY <2>1, <2>2 DEF Reported, HandoverTypeOK
  <2>4. \A latch \in {"unloaded", "active"} :
          ToldOrToBe(New, latch)' => ToldOrToBe(New, latch)
    BY <2>1 DEF ToldOrToBe
  <2>5. QED
    BY <1>1, <2>1, <2>3, <2>4, WordStays
<1>7. ASSUME NEW g \in GrantId, LeaseExpires(g) PROVE WordIsTrue'
  <2>1. own' = [own EXCEPT ![The(g)] = @ \union {"expired"}] /\ UNCHANGED handoverVars
    BY <1>7 DEF LeaseExpires, Expire, CloseLatch
  <2>2. own'[The(New)] \subseteq own[The(New)] \union {"expired"}
    BY <2>1, OneOwnershipEach DEF IInv, TypeOK, LifecycleTypeOK
  <2>3. \A latch \in {"unloaded", "active"} :
          ToldOrToBe(New, latch)' => ToldOrToBe(New, latch)
    BY <2>1, <2>2 DEF ToldOrToBe, handoverVars
  <2>4. QED
    BY <1>1, <2>1, <2>3, WordStays DEF handoverVars, Reported
<1>8. CASE UNCHANGED allVars
  BY <1>8 DEF allVars, vars, lifecycleVars, handoverVars, WordIsTrue, ToldOrToBe, Reported
<1>9. QED
  BY <1>3, <1>4, <1>5, <1>6, <1>7, <1>8 DEF HandoverNext, Driver, Watcher
-----------------------------------------------------------------------------
(* How far each grant has come.                                            *)

LEMMA Phases ==
  /\ \A s \in Steps : /\ PhaseAt(s) = "idle" <=> s \in {"none", "offered", "step1"}
                      /\ PhaseAt(s) = "loading" <=> s \in {"step2", "step3"}
                      /\ PhaseAt(s) = "serving" <=> s \in {"step4", "draining", "step5"}
                      /\ PhaseAt(s) = "released" <=> s \in {"step6", "cleanup", "done"}
  /\ \A s \in Steps : PhaseAt(s) \in {"idle", "loading", "serving", "released"}
<1>1. /\ \A s \in {"none", "offered", "step1"} : PhaseAt(s) = "idle"
      /\ \A s \in {"step2", "step3"} : PhaseAt(s) = "loading"
      /\ \A s \in {"step4", "draining", "step5"} : PhaseAt(s) = "serving"
      /\ \A s \in {"step6", "cleanup", "done"} : PhaseAt(s) = "released"
  BY DEF PhaseAt
<1>2. Steps = {"none", "offered", "step1"} \union {"step2", "step3"}
                \union {"step4", "draining", "step5"} \union {"step6", "cleanup", "done"}
  BY DEF Steps
<1>3. QED
  BY <1>1, <1>2

\* The phases a run goes through, and what it has when it goes.
LEMMA RunMoves ==
  ASSUME IInv, NEW o \in Ownership, Dispatch(o) \/ Run(o)
  PROVE  /\ step' = [step EXCEPT ![o] = step'[o]] /\ step'[o] \in Steps
         /\ \/ PhaseAt(step'[o]) = PhaseAt(step[o])
            \/ /\ PhaseAt(step[o]) = "idle" /\ PhaseAt(step'[o]) = "loading"
               /\ own[o] \intersect {"active", "unloaded"} # {}
            \/ PhaseAt(step[o]) = "loading" /\ PhaseAt(step'[o]) = "serving"
            \/ /\ PhaseAt(step[o]) # "released" /\ PhaseAt(step'[o]) = "released"
               /\ PhaseAt(step[o]) = "serving" =>
                    "drained" \in range[o] \/ "expired" \in own[o]
<1> USE RunFacts DEF TypeOK, LifecycleTypeOK, At
<1>1. CASE Skip(o) \/ Decline(o)
  <2>1. step[o] \in {"none", "offered"} /\ step' = [step EXCEPT ![o] = "done"]
    BY <1>1 DEF Skip, Decline
  <2>2. QED
    BY <2>1, Phases DEF Steps
<1>2. CASE Offer(o) \/ Build(o)
  <2>1. PICK s \in {"offered", "step1"} : step' = [step EXCEPT ![o] = s]
    BY <1>2 DEF Offer, Build
  <2>2. step[o] \in {"none", "offered"} /\ step'[o] = s /\ s \in Steps
    BY <1>2, <2>1 DEF Offer, Build, Steps
  <2>3. PhaseAt(step[o]) = "idle" /\ PhaseAt(s) = "idle"
    BY <2>2, Phases DEF Steps
  <2>4. QED
    BY <2>1, <2>2, <2>3
<1>3. ASSUME NEW from \in {"step1", "step2", "step3", "step6"}, Bail(o, from)
      PROVE  /\ step' = [step EXCEPT ![o] = "cleanup"] /\ step[o] = from
             /\ PhaseAt(from) # "serving" /\ PhaseAt("cleanup") = "released"
  BY <1>3, Phases DEF Bail, Steps
<1>4. CASE Step1(o)
  <2>1. CASE Bail(o, "step1")
    BY <1>3, <2>1 DEF Steps
  <2>2. CASE ~Bail(o, "step1")
    <3>1. /\ step[o] = "step1" /\ step' = [step EXCEPT ![o] = "step2"]
          /\ own[o] \intersect {"active", "unloaded"} # {}
      BY <1>4, <2>2 DEF Step1, WaitForUnload, Race
    <3>2. QED
      BY <3>1, Phases DEF Steps
  <2>3. QED
    BY <2>1, <2>2
<1>5. CASE Step2(o)
  <2>1. CASE Bail(o, "step2")
    BY <1>3, <2>1 DEF Steps
  <2>2. CASE ~Bail(o, "step2")
    <3>1. step[o] = "step2" /\ step' = [step EXCEPT ![o] = "step3"]
      BY <1>5, <2>2 DEF Step2
    <3>2. QED
      BY <3>1, Phases DEF Steps
  <2>3. QED
    BY <2>1, <2>2
<1>6. CASE Step3(o)
  <2>1. CASE Bail(o, "step3")
    BY <1>3, <2>1 DEF Steps
  <2>2. CASE ~Bail(o, "step3")
    <3>1. step[o] = "step3" /\ step' = [step EXCEPT ![o] = "step4"]
      BY <1>6, <2>2 DEF Step3
    <3>2. QED
      BY <3>1, Phases DEF Steps
  <2>3. QED
    BY <2>1, <2>2
<1>7. CASE Step4(o)
  <2>1. CASE Bail(o, "step4")
    <3>1. /\ step[o] = "step4" /\ step' = [step EXCEPT ![o] = "cleanup"]
          /\ "expired" \in own[o]
      BY <1>7, <2>1 DEF Step4, Bail, WaitForRevoke, Race
    <3>2. QED
      BY <3>1, Phases DEF Steps
  <2>2. CASE ~Bail(o, "step4")
    <3>1. step[o] = "step4" /\ step' = [step EXCEPT ![o] = "draining"]
      BY <1>7, <2>2 DEF Step4
    <3>2. QED
      BY <3>1, Phases DEF Steps
  <2>3. QED
    BY <2>1, <2>2
<1>8. CASE DrainReturns(o)
  <2>1. step[o] = "draining" /\ step' = [step EXCEPT ![o] = "step5"]
    BY <1>8 DEF DrainReturns
  <2>2. QED
    BY <2>1, Phases DEF Steps
<1>9. CASE Step5(o)
  <2>1. /\ step[o] = "step5"
        /\ "drained" \in range[o] \/ "expired" \in own[o]
        /\ step' = [step EXCEPT ![o] = "step6"] \/ step' = [step EXCEPT ![o] = "cleanup"]
    BY <1>9 DEF Step5, Bail
  <2>2. QED
    BY <2>1, Phases DEF Steps
<1>10. CASE Step6(o)
  BY <1>3, <1>10 DEF Step6, Steps
<1>11. CASE Cleanup(o)
  <2>1. step[o] = "cleanup" /\ step' = [step EXCEPT ![o] = "done"]
    BY <1>11 DEF Cleanup
  <2>2. QED
    BY <2>1, Phases DEF Steps
<1>12. QED
  BY <1>1, <1>2, <1>4, <1>5, <1>6, <1>7, <1>8, <1>9, <1>10, <1>11
     DEF Dispatch, Run, Polled

\* What a run says and asks on its way, and nothing of the other's.
LEMMA RunGains ==
  ASSUME IInv, NEW o \in Ownership, Dispatch(o) \/ Run(o)
  PROVE  /\ \A p \in Ownership \ {o} : own'[p] = own[p] /\ range'[p] = range[p]
         /\ \A p \in Ownership : "expired" \in own'[p] <=> "expired" \in own[p]
         /\ \A p \in Ownership : \A fact \in {"drained", "failed"} :
              fact \in range'[p] <=> fact \in range[p]
         /\ "unload" \in own'[o] \ own[o] => PhaseAt(step'[o]) = "released"
         /\ "drain" \in range'[o] \ range[o] => PhaseAt(step'[o]) = "serving"
<1> USE RunFacts DEF TypeOK, LifecycleTypeOK, At
<1>1. /\ own' = own \/ \E latch \in UserLatch : own' = [own EXCEPT ![o] = @ \union {latch}]
      /\ range' = range \/ \E facts \in {{"built"}, {"drain"}, {"closed"}} :
                              range' = [range EXCEPT ![o] = @ \union facts]
  BY DEF Dispatch, Skip, Offer, Build, Decline, Run, Polled, Step1, Step2, Step3, Step4, Step5,
         Step6, Bail, DrainReturns, Cleanup, CloseLatch, RangeGains, lifecycleVars, UserLatch
<1>2. "unload" \in own'[o] \ own[o] => step'[o] = "step6"
  BY DEF Dispatch, Skip, Offer, Build, Decline, Run, Polled, Step1, Step2, Step3, Step4, Step5,
         Step6, Bail, DrainReturns, Cleanup, CloseLatch, RangeGains, lifecycleVars
<1>3. "drain" \in range'[o] \ range[o] => step'[o] = "draining"
  BY DEF Dispatch, Skip, Offer, Build, Decline, Run, Polled, Step1, Step2, Step3, Step4, Step5,
         Step6, Bail, DrainReturns, Cleanup, CloseLatch, RangeGains, lifecycleVars
<1>4. QED
  BY <1>1, <1>2, <1>3, Phases DEF Steps, UserLatch

\* The Range of a run reports, and its run stays where it is.
LEMMA UserGains ==
  ASSUME IInv, NEW o \in Ownership, UserRange(o)
  PROVE  /\ UNCHANGED <<own, step>>
         /\ \E fact \in {"initialized", "drained", "failed"} :
              /\ range' = [range EXCEPT ![o] = @ \union {fact}]
              /\ fact = "drained" => "drain" \in range[o]
  BY DEF UserRange, RangeInitialized, RangeDrained, RangeFails, RangeReports, RangeGains,
         lifecycleVars

\* The messages, and the clock, move no run, and say nothing in its name.
LEMMA EnvironmentEffect ==
  ASSUME IInv, HandoverTypeOK,
         Coordinator \/ Driver \/ \E g \in GrantId : Watcher(g) \/ LeaseExpires(g)
  PROVE  /\ UNCHANGED processorVars
         /\ \A h \in GrantId : "unload" \in own'[The(h)] => "unload" \in own[The(h)]
         /\ \/ \A h \in GrantId : "expired" \in own'[The(h)] <=> "expired" \in own[The(h)]
            \/ \E g \in GrantId : own' = [own EXCEPT ![The(g)] = @ \union {"expired"}]
<1>1. ASSUME NEW g \in GrantId, Receive(g)
      PROVE  /\ UNCHANGED processorVars
             /\ \A h \in GrantId : "unload" \in own'[The(h)] => "unload" \in own[The(h)]
             /\ \A h \in GrantId : "expired" \in own'[The(h)] <=> "expired" \in own[The(h)]
  <2>1. inbox[g] \in Seq(Message) /\ inbox[g] # <<>> /\ UNCHANGED processorVars
    BY <1>1 DEF Receive, HandoverTypeOK
  <2>2. Head(inbox[g]) \in Message
    BY <2>1, StreamFacts
  <2>3. Named(Head(inbox[g])) # "unload"
    BY <2>2 DEF Named, Message, DriverLatch
  <2>4. \A h \in GrantId : own[The(h)] \subseteq own'[The(h)]
    BY <1>1, ReceiveSimulates, OwnGrows DEF IInv, Next
  <2>5. QED
    BY <1>1, <2>1, <2>3, <2>4, ReceiveEffect
<1>2. ASSUME NEW g \in GrantId, LeaseExpires(g)
      PROVE  UNCHANGED processorVars /\ own' = [own EXCEPT ![The(g)] = @ \union {"expired"}]
  BY <1>2 DEF LeaseExpires, Expire, CloseLatch
<1>3. ASSUME NEW g \in GrantId, LeaseExpires(g), NEW h \in GrantId, "unload" \in own'[The(h)]
      PROVE  "unload" \in own[The(h)]
  <2>1. own' = [own EXCEPT ![The(g)] = @ \union {"expired"}] /\ own \in [Ownership -> SUBSET Latches]
    BY <1>2, <1>3 DEF IInv, TypeOK, LifecycleTypeOK
  <2>2. The(h) \in Ownership
    BY OneOwnershipEach
  <2>3. own'[The(h)] \subseteq own[The(h)] \union {"expired"}
    BY <2>1, <2>2
  <2>4. QED
    BY <1>3, <2>3
<1>4. CASE Coordinator \/ \E g \in GrantId : Watcher(g)
  <2>1. UNCHANGED vars
    BY <1>4, CoordinatorEffect DEF Watcher, WatcherReports
  <2>2. QED
    BY <2>1 DEF vars, lifecycleVars
<1>5. QED
  BY <1>1, <1>2, <1>3, <1>4 DEF Driver

LEMMA PhasesKeep ==
  ASSUME IInv, HandoverTypeOK, RunsInPhase, [HandoverNext]_allVars
  PROVE  RunsInPhase'
<1> USE OneOwnershipEach
<1>0. \A o \in Ownership : step[o] \in Steps
  BY DEF IInv, TypeOK
<1>1. ASSUME UNCHANGED processorVars,
             \A h \in GrantId : "unload" \in own'[The(h)] => "unload" \in own[The(h)]
      PROVE  RunsInPhase'
  BY <1>1 DEF RunsInPhase, processorVars
<1>2. ASSUME NEW o \in Ownership, Dispatch(o) \/ Run(o) PROVE RunsInPhase'
  <2> SUFFICES ASSUME NEW g \in GrantId
               PROVE  /\ "unload" \in own'[The(g)] => PhaseAt(step'[The(g)]) = "released"
                      /\ "drain" \in range'[The(g)] =>
                           PhaseAt(step'[The(g)]) \in {"serving", "released"}
    BY DEF RunsInPhase
  <2>1. CASE The(g) # o
    <3>1. own'[The(g)] = own[The(g)] /\ range'[The(g)] = range[The(g)]
      BY <1>2, <2>1, RunGains
    <3>2. step'[The(g)] = step[The(g)]
      <4>1. PICK s \in Steps : step' = [step EXCEPT ![o] = s]
        BY <1>2, RunMoves
      <4>2. QED
        BY <2>1, <4>1 DEF IInv, TypeOK
    <3>3. QED
      BY <3>1, <3>2 DEF RunsInPhase
  <2>2. CASE The(g) = o
    <3>1. PhaseAt(step[o]) = "released" => PhaseAt(step'[o]) = "released"
      BY <1>2, RunMoves
    <3>2. PhaseAt(step[o]) = "serving" => PhaseAt(step'[o]) \in {"serving", "released"}
      BY <1>2, RunMoves
    <3>3. QED
      BY <1>2, <2>2, <3>1, <3>2, RunGains DEF RunsInPhase
  <2>3. QED
    BY <2>1, <2>2
<1>3. ASSUME NEW o \in Ownership, UserRange(o) PROVE RunsInPhase'
  <2>1. UNCHANGED <<own, step>>
    BY <1>3, UserGains
  <2>2. \A g \in GrantId : "drain" \in range'[The(g)] => "drain" \in range[The(g)]
    <3>1. PICK fact \in RangeFact \ {"drain"} : range' = [range EXCEPT ![o] = @ \union {fact}]
      BY <1>3, UserGains DEF RangeFact
    <3>2. QED
      BY <3>1 DEF IInv, TypeOK
  <2>3. QED
    BY <2>1, <2>2 DEF RunsInPhase
<1>4. CASE UNCHANGED allVars
  BY <1>1, <1>4 DEF allVars, vars, lifecycleVars
<1>5. QED
  BY <1>1, <1>2, <1>3, <1>4, EnvironmentEffect DEF HandoverNext, Task, User, Run
-----------------------------------------------------------------------------
LEMMA HandoverInitIInv == HandoverInit => HandoverIInv
<1> SUFFICES ASSUME HandoverInit PROVE HandoverIInv
  OBVIOUS
<1>1. IInv /\ \A o \in Ownership : own[o] = {} /\ range[o] = {} /\ step[o] = "none"
  <2>1. Init
    BY DEF HandoverInit
  <2>2. \A o \in Ownership : own[o] = {} /\ range[o] = {} /\ step[o] = "none"
    BY <2>1 DEF Init, LifecycleInit
  <2>3. QED
    BY <2>1, <2>2, InitIInv
<1>2. <<"ACTIVE">> \in Seq(Message) /\ <<>> \in Seq(Message) /\ <<>> \in Seq(UserLatch)
  <2>1. "ACTIVE" \in Message
    BY DEF Message
  <2>2. QED
    BY <2>1
<1> USE OneOwnershipEach DEF HandoverInit
<1>3. inbox \in [GrantId -> Seq(Message)] /\ outbox \in [GrantId -> Seq(UserLatch)]
  BY <1>2
<1>4. HandoverTypeOK
  BY <1>1, <1>3 DEF HandoverTypeOK, IInv
<1>5. /\ \A g \in GrantId : heard[g] = {} /\ Range(outbox[g]) = {}
      /\ Range(inbox[New]) = {} /\ deal = {}
  BY HandoverAssumption DEF Range
<1>6. WordIsTrue
  BY <1>1, <1>5 DEF WordIsTrue, Reported, ToldOrToBe
<1>7. RunsInPhase
  BY <1>1 DEF RunsInPhase
<1>8. QED
  BY <1>4, <1>6, <1>7 DEF HandoverIInv

LEMMA HandoverStepIInv == IInv /\ HandoverIInv /\ [HandoverNext]_allVars => HandoverIInv'
<1> SUFFICES ASSUME IInv, HandoverIInv, [HandoverNext]_allVars PROVE HandoverIInv'
  OBVIOUS
<1>1. IInv'
  BY StepSimulates, StepIInv DEF IInv
<1>2. QED
  BY <1>1, TypesKeep, WordsKeep, PhasesKeep DEF HandoverIInv

(* In a handover the messages under way, and those already heard, are true *)
(* of the runs, on top of all that holds of these as runs of the Processor *)
(* (consumer.rs:334-375, 402-418, 448-482).                                *)
THEOREM HandoverInvariance == HandoverSpec => [](IInv /\ HandoverIInv)
<1>1. HandoverInit => HandoverIInv
  BY HandoverInitIInv
<1>2. IInv /\ HandoverIInv /\ [HandoverNext]_allVars => HandoverIInv'
  BY HandoverStepIInv
<1>3. QED
  BY <1>1, <1>2, RunsAsProcessor, PTL DEF HandoverSpec
-----------------------------------------------------------------------------
(* What it comes to.                                                       *)

\* New goes on only on a word that came from Old, or when its lease is over for
\* the coordinator.
LEMMA NewFindsOldOut ==
  ASSUME WordIsTrue, RunsInPhase, own[The(New)] \intersect {"active", "unloaded"} # {}
  PROVE  Released(Old) \/ Old \in Lapsed
<1>1. "lapsed" \in deal \/ "unload" \in heard[Old]
  BY DEF WordIsTrue, ToldOrToBe
<1>2. CASE "lapsed" \in deal
  BY <1>2 DEF Lapsed
<1>3. CASE "unload" \in heard[Old]
  <2>1. "unload" \in own[The(Old)]
    BY <1>3, OneOwnershipEach DEF WordIsTrue, Reported, UserLatch
  <2>2. QED
    BY <2>1, OneOwnershipEach DEF RunsInPhase, Released
<1>4. QED
  BY <1>1, <1>2, <1>3

(* Whatever order they come in, the reports the coordinator acts on are    *)
(* true: of an Old that has drained and let go, of a New that has loaded   *)
(* with nobody before it whose lease is not over for the coordinator, and  *)
(* New is promoted only then (consumer.rs:334-375, 402-418, 448-482).      *)
THEOREM ReportsAlwaysTrue == HandoverSpec => []ReportsAreTrue
<1>1. ASSUME IInv, HandoverIInv PROVE ReportsAreTrue
  <2> USE OneOwnershipEach DEF HandoverIInv
  <2>1. ASSUME NEW g \in GrantId, NEW signal \in UserLatch, signal \in heard[g]
        PROVE  signal \in own[The(g)]
    BY <1>1, <2>1 DEF WordIsTrue, Reported
  <2>2. \A g \in GrantId : Honest(The(g))
    BY <1>1 DEF IInv, HandoverHonest
  <2>3. ASSUME "unload" \in heard[Old]
        PROVE  "drained" \in range[The(Old)] /\ Released(Old)
    <3>1. "unload" \in own[The(Old)]
      BY <2>1, <2>3 DEF UserLatch
    <3>2. QED
      BY <1>1, <2>2, <3>1 DEF Honest, RunsInPhase, Released
  <2>4. ASSUME "load" \in heard[New]
        PROVE  "initialized" \in range[The(New)] /\ (Released(Old) \/ Old \in Lapsed)
    <3>1. "load" \in own[The(New)]
      BY <2>1, <2>4 DEF UserLatch
    <3>2. /\ "initialized" \in range[The(New)]
          /\ own[The(New)] \intersect {"active", "unloaded"} # {}
      BY <2>2, <3>1 DEF Honest
    <3>3. QED
      BY <1>1, <3>2, NewFindsOldOut
  <2>5. "active" \in own[The(New)] => Released(Old) \/ Old \in Lapsed
    BY <1>1, NewFindsOldOut
  <2>6. QED
    BY <2>3, <2>4, <2>5 DEF ReportsAreTrue
<1>2. QED
  BY <1>1, HandoverInvariance, PTL
-----------------------------------------------------------------------------
(* The promise of a handover, step by step.                                *)

\* A grant is taken up only when the other has been let go of, or when the
\* lease of Old is over for the coordinator.
LEMMA TakesUpAlone ==
  ASSUME IInv, HandoverIInv, NEW g \in GrantId, PhaseAt(step[The(g)]) = "idle",
         own[The(g)] \intersect {"active", "unloaded"} # {},
         NEW h \in GrantId \ {g}, PhaseAt(step[The(h)]) \in {"loading", "serving"}
  PROVE  h \in Lapsed \/ g \in Lapsed
<1> USE HandoverAssumption DEF HandoverIInv
<1>1. CASE g = New
  <2>1. h = Old
    BY <1>1
  <2>2. QED
    BY <1>1, <2>1, NewFindsOldOut DEF Released
<1>2. CASE g = Old
  <2>1. h = New
    BY <1>2
  <2>2. The(New) \in Ownership /\ step[The(New)] \in Steps /\ Earned(The(New))
    BY OneOwnershipEach, RunFacts DEF TypeOK
  <2>3. step[The(New)] \in Serving
    BY <2>1, <2>2, Phases DEF Serving
  <2>4. Released(Old) \/ Old \in Lapsed
    BY <2>2, <2>3, NewFindsOldOut DEF Earned
  <2>5. QED
    BY <1>2, <2>4 DEF Released
<1>3. QED
  BY <1>1, <1>2

\* A step of a run is one of the promise, or none.
LEMMA RunMaps ==
  ASSUME IInv, HandoverIInv, NEW o \in Ownership, Dispatch(o) \/ Run(o), UNCHANGED deal
  PROVE  [A!Next]_(A!vars)
<1> DEFINE phase   == [g \in GrantId |-> PhaseAt(step[The(g)])]
           drained == {g \in GrantId : "drained" \in range[The(g)]}
           excused == {g \in GrantId : Excused(g)}
           lapsed  == Lapsed
<1>1. PICK g \in GrantId : o = The(g)
  BY OneOwnershipEach
<1>2. \A h \in GrantId : The(h) \in Ownership /\ (h # g => The(h) # o)
  BY <1>1, OneOwnershipEach
<1>3. drained' = drained
  BY <1>2, RunGains
<1>4. excused' = excused /\ lapsed' = lapsed
  BY <1>2, RunGains DEF Excused, Lapsed
<1>5. phase' = [phase EXCEPT ![g] = PhaseAt(step'[o])]
  <2>1. step' = [step EXCEPT ![o] = step'[o]] /\ step \in [Ownership -> Steps]
    BY RunMoves DEF IInv, TypeOK
  <2>2. \A h \in GrantId \ {g} : step'[The(h)] = step[The(h)]
    BY <1>2, <2>1
  <2>3. QED
    BY <1>1, <2>2
<1>6. phase[g] = PhaseAt(step[o])
  BY <1>1
<1>7. CASE PhaseAt(step'[o]) = PhaseAt(step[o])
  <2>1. phase' = phase
    BY <1>5, <1>6, <1>7
  <2>2. QED
    BY <1>3, <1>4, <2>1 DEF A!vars
<1>8. CASE /\ PhaseAt(step[o]) = "idle" /\ PhaseAt(step'[o]) = "loading"
           /\ own[o] \intersect {"active", "unloaded"} # {}
  <2>1. \A h \in GrantId \ {g} :
          phase[h] \in {"loading", "serving"} => h \in lapsed \/ g \in lapsed
    BY <1>1, <1>8, TakesUpAlone
  <2>2. A!TakeUp(g)
    BY <1>3, <1>4, <1>5, <1>6, <1>8, <2>1 DEF A!TakeUp, A!To, A!Holding
  <2>3. QED
    BY <2>2 DEF A!Next
<1>9. CASE PhaseAt(step[o]) = "loading" /\ PhaseAt(step'[o]) = "serving"
  <2>1. A!Serve(g)
    BY <1>3, <1>4, <1>5, <1>6, <1>9 DEF A!Serve, A!To
  <2>2. QED
    BY <2>1 DEF A!Next
<1>10. CASE /\ PhaseAt(step[o]) # "released" /\ PhaseAt(step'[o]) = "released"
            /\ PhaseAt(step[o]) = "serving" => "drained" \in range[o] \/ "expired" \in own[o]
  <2>1. phase[g] = "serving" => g \in drained \union excused
    BY <1>1, <1>6, <1>10 DEF Excused
  <2>2. A!LetGo(g)
    BY <1>3, <1>4, <1>5, <1>6, <1>10, <2>1 DEF A!LetGo, A!To
  <2>3. QED
    BY <2>2 DEF A!Next
<1>11. QED
  BY <1>7, <1>8, <1>9, <1>10, RunMoves

\* So is what a Range reports: it has drained, or it has failed.
LEMMA UserMaps ==
  ASSUME IInv, HandoverIInv, NEW o \in Ownership, UserRange(o), UNCHANGED deal
  PROVE  [A!Next]_(A!vars)
<1> DEFINE phase   == [g \in GrantId |-> PhaseAt(step[The(g)])]
           drained == {g \in GrantId : "drained" \in range[The(g)]}
           excused == {g \in GrantId : Excused(g)}
           lapsed  == Lapsed
<1>1. PICK g \in GrantId : o = The(g)
  BY OneOwnershipEach
<1>2. \A h \in GrantId : The(h) \in Ownership /\ (h # g => The(h) # o)
  BY <1>1, OneOwnershipEach
<1>3. PICK fact \in {"initialized", "drained", "failed"} :
        /\ range' = [range EXCEPT ![o] = @ \union {fact}]
        /\ fact = "drained" => "drain" \in range[o]
  BY UserGains
<1>4. UNCHANGED <<own, step>>
  BY UserGains
<1>5. phase' = phase /\ lapsed' = lapsed
  BY <1>4 DEF Lapsed
<1>6. \A h \in GrantId : range'[The(h)] = IF h = g THEN range[o] \union {fact}
                                          ELSE range[The(h)]
  BY <1>1, <1>2, <1>3 DEF IInv, TypeOK
<1>7. drained' = IF fact = "drained" THEN drained \union {g} ELSE drained
  BY <1>1, <1>6
<1>8. excused' = IF fact = "failed" THEN excused \union {g} ELSE excused
  BY <1>1, <1>4, <1>6 DEF Excused
<1>9. CASE fact = "initialized"
  <2>1. drained' = drained /\ excused' = excused
    BY <1>7, <1>8, <1>9
  <2>2. QED
    BY <1>5, <2>1 DEF A!vars
<1>10. CASE fact = "drained"
  <2>1. phase[g] \in {"serving", "released"}
    BY <1>1, <1>3, <1>10 DEF HandoverIInv, RunsInPhase
  <2>2. drained' = drained \union {g} /\ excused' = excused
    BY <1>7, <1>8, <1>10
  <2>3. A!Drain(g)
    BY <1>5, <2>1, <2>2 DEF A!Drain
  <2>4. QED
    BY <2>3 DEF A!Next
<1>11. CASE fact = "failed"
  <2>1. drained' = drained /\ excused' = excused \union {g}
    BY <1>7, <1>8, <1>11
  <2>2. A!Excuse(g)
    BY <1>5, <2>1 DEF A!Excuse
  <2>3. QED
    BY <2>2 DEF A!Next
<1>12. QED
  BY <1>9, <1>10, <1>11

\* Around the runs only the end of a lease is of any consequence.
LEMMA EnvironmentMaps ==
  ASSUME IInv, HandoverIInv,
         Coordinator \/ Driver \/ \E g \in GrantId : Watcher(g) \/ LeaseExpires(g)
  PROVE  [A!Next]_(A!vars)
<1> DEFINE phase   == [g \in GrantId |-> PhaseAt(step[The(g)])]
           drained == {g \in GrantId : "drained" \in range[The(g)]}
           excused == {g \in GrantId : Excused(g)}
           lapsed  == Lapsed
<1>1. phase' = phase /\ drained' = drained /\ range' = range
  BY EnvironmentEffect DEF HandoverIInv, processorVars
<1>2. CASE Lapse
  <2>1. UNCHANGED own /\ lapsed' = lapsed \union {Old} /\ Old \in GrantId
    BY <1>2, OneOwnershipEach DEF Lapse, vars, lifecycleVars, Lapsed
  <2>2. excused' = excused
    BY <1>1, <2>1 DEF Excused
  <2>3. A!Lapse(Old)
    BY <1>1, <2>1, <2>2 DEF A!Lapse
  <2>4. QED
    BY <2>1, <2>3 DEF A!Next
<1>3. lapsed' = lapsed \/ Lapse
  BY DEF Lapsed, Coordinator, Move, Promote, Hear, Driver, Receive, Watcher, WatcherReports,
         LeaseExpires, handoverVars
<1>4. CASE /\ lapsed' = lapsed
           /\ \A h \in GrantId : "expired" \in own'[The(h)] <=> "expired" \in own[The(h)]
  <2>1. excused' = excused
    BY <1>1, <1>4 DEF Excused
  <2>2. QED
    BY <1>1, <1>4, <2>1 DEF A!vars
<1>5. ASSUME lapsed' = lapsed, NEW g \in GrantId,
             own' = [own EXCEPT ![The(g)] = @ \union {"expired"}]
      PROVE  [A!Next]_(A!vars)
  <2>1. \A h \in GrantId : The(h) \in Ownership /\ (The(h) = The(g) <=> h = g)
    BY OneOwnershipEach
  <2>2. \A h \in GrantId :
          "expired" \in own'[The(h)] <=> h = g \/ "expired" \in own[The(h)]
    BY <1>5, <2>1 DEF IInv, TypeOK, LifecycleTypeOK
  <2>3. excused' = excused \union {g}
    BY <1>1, <2>2 DEF Excused
  <2>4. A!Excuse(g)
    BY <1>1, <1>5, <2>3 DEF A!Excuse
  <2>5. QED
    BY <2>4 DEF A!Next
<1>6. QED
  BY <1>2, <1>3, <1>4, <1>5, EnvironmentEffect DEF HandoverIInv

(* The two consumers, with the coordinator between them, implement the     *)
(* promise of a handover: New takes the shard up only when Old has let go  *)
(* of it, or its lease is over for the coordinator; and Old lets go drained*)
(* if it had served, unless it knows its lease to be over, or has failed   *)
(* (processor.rs:36-37, 123-193, ownership.rs:196-252, consumer.rs:377-418,*)
(* 448-493).                                                               *)
THEOREM HandoverKept == HandoverSpec => KeepsHandover
<1>1. HandoverInit => A!Init
  <2> SUFFICES ASSUME HandoverInit PROVE A!Init
    OBVIOUS
  <2>1. \A g \in GrantId : /\ step[The(g)] = "none" /\ range[The(g)] = {}
                           /\ own[The(g)] = {}
    BY OneOwnershipEach DEF HandoverInit, Init, LifecycleInit
  <2>2. PhaseAt("none") = "idle"
    BY DEF PhaseAt
  <2>3. QED
    BY <2>1, <2>2 DEF A!Init, Excused, Lapsed, HandoverInit
<1>2. IInv /\ HandoverIInv /\ [HandoverNext]_allVars => [A!Next]_(A!vars)
  <2> SUFFICES ASSUME IInv, HandoverIInv, [HandoverNext]_allVars
               PROVE  [A!Next]_(A!vars)
    OBVIOUS
  <2>1. CASE UNCHANGED allVars
    BY <2>1 DEF allVars, vars, lifecycleVars, processorVars, A!vars, Excused,
               handoverVars, Lapsed
  <2>2. QED
    BY <2>1, RunMaps, UserMaps, EnvironmentMaps DEF HandoverNext, Task, User, Run,
         handoverVars
<1>3. QED
  BY <1>1, <1>2, HandoverInvariance, PTL DEF HandoverSpec, KeepsHandover, A!Spec
=============================================================================
