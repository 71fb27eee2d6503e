-------------------------- MODULE DispatcherProofs --------------------------
(***************************************************************************)
(* The Dispatcher's safety properties for every capacity of the broadcast  *)
(* channel, every number of filters, grants and assignments.  What the     *)
(* channel overwrites it loses once: the events of a broadcast and those   *)
(* before it are split in two, what is lost and what is kept.              *)
(***************************************************************************)
EXTENDS Dispatcher, SequenceTheorems, TLAPS

Assigned(o) == [kind |-> "assigned", of |-> o]

(* What is assigned in some events, by their places.                       *)
LEMMA AssignedAt ==
  ASSUME NEW s \in Seq(Event), NEW o \in Ownership
  PROVE  o \in AssignedIn(s) <=> \E i \in 1..Len(s) : s[i] = Assigned(o)
<1>1. DOMAIN s = 1..Len(s)
  BY LenProperties
<1>2. QED
  BY <1>1 DEF AssignedIn, ToSet, Assigned

(* One part of a channel after another, cut off after the first k events.  *)
LEMMA Cut ==
  ASSUME NEW s \in Seq(Event), NEW t \in Seq(Event), NEW k \in 0..(Len(s) + Len(t))
  PROVE  LET all  == s \o t
             lost == SubSeq(all, 1, k)
             kept == SubSeq(all, k + 1, Len(all))
         IN /\ Len(all) = Len(s) + Len(t)
            /\ kept \in Seq(Event) /\ Len(kept) = Len(s) + Len(t) - k
            /\ AssignedIn(lost) \union AssignedIn(kept) = AssignedIn(s) \union AssignedIn(t)
            /\ SentOnce(s) /\ SentOnce(t) /\ AssignedIn(s) \intersect AssignedIn(t) = {} =>
                 SentOnce(kept) /\ AssignedIn(lost) \intersect AssignedIn(kept) = {}
<1> DEFINE all  == s \o t
           n    == Len(s) + Len(t)
           lost == SubSeq(all, 1, k)
           kept == SubSeq(all, k + 1, Len(all))
<1>1. /\ all \in Seq(Event) /\ Len(all) = n /\ Len(s) \in Nat /\ Len(t) \in Nat
      /\ \A i \in 1..n : all[i] = IF i <= Len(s) THEN s[i] ELSE t[i - Len(s)]
  BY ConcatProperties, LenProperties
<1>2. \A i \in 1..n : all[i] \in Event
  BY <1>1, ElementOfSeq
<1> HIDE DEF all
<1>3. /\ lost \in Seq(Event) /\ Len(lost) = k
      /\ \A i \in 1..k : lost[i] = all[i]
  <2>1. \A i \in 1..k : all[i] \in Event
    BY <1>1, <1>2
  <2>2. 1 \in Int /\ k \in Int
    OBVIOUS
  <2>3. /\ lost \in Seq(Event) /\ Len(lost) = IF 1 <= k THEN k - 1 + 1 ELSE 0
        /\ \A i \in 1..(k - 1 + 1) : lost[i] = all[1 + i - 1]
    BY <2>1, <2>2, SubSeqProperties
  <2>4. QED
    BY <2>3
<1>4. /\ kept \in Seq(Event) /\ Len(kept) = n - k
      /\ \A i \in 1..(n - k) : kept[i] = all[k + i]
  <2>1. k + 1 \in Int /\ n \in Int /\ \A i \in (k + 1)..n : all[i] \in Event
    BY <1>1, <1>2
  <2> DEFINE rest == SubSeq(all, k + 1, n)
  <2>2. /\ rest \in Seq(Event)
        /\ Len(rest) = IF k + 1 <= n THEN n - (k + 1) + 1 ELSE 0
        /\ \A i \in 1..(n - (k + 1) + 1) : rest[i] = all[k + 1 + i - 1]
    BY <2>1, SubSeqProperties
  <2>3. rest = kept
    BY <1>1
  <2> HIDE DEF rest, kept
  <2>4. Len(kept) = n - k
    BY <1>1, <2>2, <2>3
  <2>5. \A i \in 1..(n - k) : i \in 1..(n - (k + 1) + 1) /\ k + 1 + i - 1 = k + i
    BY <1>1
  <2>6. QED
    BY <2>2, <2>3, <2>4, <2>5
<1>5. ASSUME NEW o \in Ownership
      PROVE  /\ o \in AssignedIn(lost) <=> \E i \in 1..k : all[i] = Assigned(o)
             /\ o \in AssignedIn(kept) <=> \E i \in (k + 1)..n : all[i] = Assigned(o)
             /\ o \in AssignedIn(s) \union AssignedIn(t) <=>
                  \E i \in 1..n : all[i] = Assigned(o)
  <2>1. o \in AssignedIn(lost) <=> \E i \in 1..k : all[i] = Assigned(o)
    BY <1>3, AssignedAt
  <2>2. o \in AssignedIn(kept) <=> \E i \in 1..(n - k) : all[k + i] = Assigned(o)
    BY <1>4, AssignedAt
  <2>3. (\E i \in 1..(n - k) : all[k + i] = Assigned(o))
          <=> \E i \in (k + 1)..n : all[i] = Assigned(o)
    <3>1. \A i \in (k + 1)..n : i - k \in 1..(n - k) /\ k + (i - k) = i
      BY <1>1
    <3>2. \A i \in 1..(n - k) : k + i \in (k + 1)..n
      BY <1>1
    <3>3. QED
      BY <3>1, <3>2
  <2>4. /\ o \in AssignedIn(s) <=> \E i \in 1..Len(s) : s[i] = Assigned(o)
        /\ o \in AssignedIn(t) <=> \E i \in 1..Len(t) : t[i] = Assigned(o)
    BY AssignedAt
  <2>5. ASSUME NEW i \in 1..n, all[i] = Assigned(o)
        PROVE  o \in AssignedIn(s) \union AssignedIn(t)
    <3>1. CASE i <= Len(s)
      BY <3>1, <2>4, <2>5, <1>1
    <3>2. CASE i > Len(s)
      <4>1. i - Len(s) \in 1..Len(t) /\ t[i - Len(s)] = Assigned(o)
        BY <3>2, <2>5, <1>1
      <4>2. QED
        BY <4>1, <2>4
    <3>3. QED
      BY <3>1, <3>2, <1>1
  <2>6. ASSUME NEW i \in 1..Len(s), s[i] = Assigned(o)
        PROVE  i \in 1..n /\ all[i] = Assigned(o)
    BY <2>6, <1>1
  <2>7. ASSUME NEW i \in 1..Len(t), t[i] = Assigned(o)
        PROVE  Len(s) + i \in 1..n /\ all[Len(s) + i] = Assigned(o)
    <3>1. /\ Len(s) + i \in 1..n /\ ~(Len(s) + i <= Len(s))
          /\ Len(s) + i - Len(s) = i
      BY <1>1
    <3>2. QED
      BY <3>1, <2>7, <1>1
  <2>8. QED
    BY <2>1, <2>2, <2>3, <2>4, <2>5, <2>6, <2>7
<1>6. AssignedIn(lost) \union AssignedIn(kept) = AssignedIn(s) \union AssignedIn(t)
  <2>1. \A i \in 1..n : i \in 1..k \/ i \in (k + 1)..n
    BY <1>1
  <2>2. 1..k \subseteq 1..n /\ (k + 1)..n \subseteq 1..n
    BY <1>1
  <2>3. \A o \in Ownership :
          o \in AssignedIn(lost) \union AssignedIn(kept)
            <=> o \in AssignedIn(s) \union AssignedIn(t)
    BY <1>5, <2>1, <2>2
  <2>4. /\ AssignedIn(lost) \subseteq Ownership /\ AssignedIn(kept) \subseteq Ownership
        /\ AssignedIn(s) \subseteq Ownership /\ AssignedIn(t) \subseteq Ownership
    BY DEF AssignedIn
  <2>5. QED
    BY <2>3, <2>4
<1>7. ASSUME SentOnce(s), SentOnce(t), AssignedIn(s) \intersect AssignedIn(t) = {}
      PROVE  SentOnce(kept) /\ AssignedIn(lost) \intersect AssignedIn(kept) = {}
  <2>1. ASSUME NEW i \in 1..n, NEW j \in 1..n,
               all[i].kind = "assigned", all[i] = all[j]
        PROVE  i = j
    <3>1. DOMAIN s = 1..Len(s) /\ DOMAIN t = 1..Len(t)
      BY LenProperties
    <3>2. PICK o \in Ownership : all[i] = Assigned(o)
      BY <1>2, <2>1 DEF Event, Assigned
    <3>3. CASE i <= Len(s) /\ j <= Len(s)
      <4>1. i \in DOMAIN s /\ j \in DOMAIN s /\ s[i].kind = "assigned" /\ s[i] = s[j]
        BY <1>1, <2>1, <3>1, <3>3
      <4>2. QED
        BY <1>7, <4>1 DEF SentOnce
    <3>4. CASE i > Len(s) /\ j > Len(s)
      <4>1. /\ i - Len(s) \in DOMAIN t /\ j - Len(s) \in DOMAIN t
            /\ t[i - Len(s)].kind = "assigned" /\ t[i - Len(s)] = t[j - Len(s)]
        BY <1>1, <2>1, <3>1, <3>4
      <4>2. i - Len(s) = j - Len(s)
        BY <1>7, <4>1 DEF SentOnce
      <4>3. QED
        BY <1>1, <4>2
    <3>5. ASSUME NEW a \in 1..n, NEW b \in 1..n, a <= Len(s), b > Len(s),
                 all[a] = Assigned(o), all[b] = Assigned(o)
          PROVE  FALSE
      <4>1. a \in 1..Len(s) /\ s[a] = Assigned(o)
        BY <1>1, <3>5
      <4>2. b - Len(s) \in 1..Len(t) /\ t[b - Len(s)] = Assigned(o)
        BY <1>1, <3>5
      <4>3. o \in AssignedIn(s) /\ o \in AssignedIn(t)
        BY <4>1, <4>2, AssignedAt
      <4>4. QED
        BY <4>3, <1>7
    <3>6. (i <= Len(s) \/ i > Len(s)) /\ (j <= Len(s) \/ j > Len(s))
      BY <1>1
    <3>7. all[j] = Assigned(o)
      BY <3>2, <2>1
    <3>8. QED
      BY <3>2, <3>3, <3>4, <3>5, <3>6, <3>7
  <2>2. SentOnce(kept)
    <3>1. DOMAIN kept = 1..(n - k)
      BY <1>4, LenProperties
    <3>2. ASSUME NEW i \in 1..(n - k), NEW j \in 1..(n - k),
                 kept[i].kind = "assigned", kept[i] = kept[j]
          PROVE  i = j
      <4>1. k + i \in 1..n /\ k + j \in 1..n
        BY <1>1
      <4>2. all[k + i].kind = "assigned" /\ all[k + i] = all[k + j]
        BY <1>4, <3>2
      <4>3. k + i = k + j
        BY <4>1, <4>2, <2>1
      <4>4. QED
        BY <4>3
    <3>3. QED
      BY <3>1, <3>2 DEF SentOnce
  <2>3. ASSUME NEW o \in AssignedIn(lost), o \in AssignedIn(kept) PROVE FALSE
    <3>1. o \in Ownership
      BY DEF AssignedIn
    <3>2. PICK i \in 1..k : all[i] = Assigned(o)
      BY <1>5, <3>1
    <3>3. PICK j \in (k + 1)..n : all[j] = Assigned(o)
      BY <1>5, <3>1, <2>3
    <3>4. i \in 1..n /\ j \in 1..n /\ i # j
      BY <1>1
    <3>5. QED
      BY <2>1, <3>2, <3>3, <3>4 DEF Assigned
  <2>4. QED
    BY <2>2, <2>3
<1>8. QED
  BY <1>1, <1>4, <1>6, <1>7 DEF all
-----------------------------------------------------------------------------
(* What a broadcast does to the channel, whatever it overwrites: its       *)
(* assignments, and those that waited, wait now or are missed, and not     *)
(* both.                                                                   *)
LEMMA Broadcasts ==
  ASSUME queue \in Seq(Event), Len(queue) <= Capacity, lagged \in BOOLEAN,
         missed \subseteq Ownership, SentOnce(queue), Queued \intersect missed = {},
         NEW events \in Seq(Event), SentOnce(events),
         AssignedIn(events) \intersect (Queued \union missed) = {},
         Broadcast(events)
  PROVE  /\ queue' \in Seq(Event) /\ Len(queue') <= Capacity /\ lagged' \in BOOLEAN
         /\ missed' \subseteq Ownership /\ router' = router /\ SentOnce(queue')
         /\ Queued' \union missed' = Queued \union missed \union AssignedIn(events)
         /\ Queued' \intersect missed' = {}
<1> DEFINE n    == Len(queue) + Len(events)
           over == IF n > Capacity THEN n - Capacity ELSE 0
           all  == queue \o events
           lost == SubSeq(all, 1, over)
           kept == SubSeq(all, over + 1, Len(all))
<1>1. Len(queue) \in Nat /\ Len(events) \in Nat /\ Capacity \in Nat
  BY LenProperties, DispatcherAssumption
<1>2. over \in 0..n /\ n - over <= Capacity
  BY <1>1
<1>3. AssignedIn(events) \subseteq Ownership
  BY DEF AssignedIn
<1>4. CASE Listening
  <2>1. /\ Len(all) = n /\ kept \in Seq(Event) /\ Len(kept) = n - over
        /\ AssignedIn(lost) \union AssignedIn(kept) = Queued \union AssignedIn(events)
        /\ SentOnce(kept) /\ AssignedIn(lost) \intersect AssignedIn(kept) = {}
    <3> HIDE DEF over
    <3>1. Queued \intersect AssignedIn(events) = {}
      OBVIOUS
    <3>2. QED
      BY <1>2, <3>1, Cut DEF Queued
  <2>2. /\ queue' = kept /\ missed' = missed \union AssignedIn(lost)
        /\ lagged' = (lagged \/ over > 0) /\ router' = router
    BY <2>1, <1>4 DEF Broadcast
  <2>3. AssignedIn(lost) \subseteq Ownership
    BY DEF AssignedIn
  <2> HIDE DEF kept, lost
  <2>4. Queued' = AssignedIn(kept)
    BY <2>2 DEF Queued, AssignedIn
  <2>5. Len(queue') <= Capacity
    BY <1>2, <2>1, <2>2
  <2>6. QED
    BY <2>1, <2>2, <2>3, <2>4, <2>5
<1>5. CASE ~Listening
  <2>1. queue' = queue /\ missed' = missed \union AssignedIn(events)
        /\ lagged' = lagged /\ router' = router
    BY <1>5 DEF Broadcast
  <2>2. Queued' = Queued
    BY <2>1 DEF Queued, AssignedIn
  <2>3. QED
    BY <1>3, <2>1, <2>2
<1>6. QED
  BY <1>4, <1>5

(* Where an Ownership is, as a matter of membership.                       *)
Placed ==
  /\ \A o \in Ownership : Exists(o) <=> o \in Queued \/ chain[o] # "none" \/ o \in missed
  /\ \A o \in Ownership :
       /\ ~(o \in Queued /\ chain[o] # "none") /\ ~(o \in Queued /\ o \in missed)
       /\ ~(o \in missed /\ chain[o] # "none")

LEMMA PlacedIs ==
  /\ Placed <=> Accounted /\ \A o \in Ownership : Places(o) # {} => Exists(o)
  /\ Placed' <=> Accounted' /\ (\A o \in Ownership : Places(o) # {} => Exists(o))'
<1>1. ASSUME NEW S, S \subseteq {"queued", "chained", "missed"}
      PROVE  /\ S # {} <=> "queued" \in S \/ "chained" \in S \/ "missed" \in S
             /\ (\E place \in {"queued", "chained", "missed"} : S = {place})
                  <=> /\ "queued" \in S \/ "chained" \in S \/ "missed" \in S
                      /\ ~("queued" \in S /\ "chained" \in S)
                      /\ ~("queued" \in S /\ "missed" \in S)
                      /\ ~("missed" \in S /\ "chained" \in S)
  BY <1>1
<1>2. ASSUME NEW o \in Ownership
      PROVE  /\ Places(o) \subseteq {"queued", "chained", "missed"}
             /\ "queued" \in Places(o) <=> o \in Queued
             /\ "chained" \in Places(o) <=> chain[o] # "none"
             /\ "missed" \in Places(o) <=> o \in missed
             /\ Places(o)' \subseteq {"queued", "chained", "missed"}
             /\ "queued" \in Places(o)' <=> o \in Queued'
             /\ "chained" \in Places(o)' <=> chain'[o] # "none"
             /\ "missed" \in Places(o)' <=> o \in missed'
  BY DEF Places
<1>3. Placed <=> Accounted /\ \A o \in Ownership : Places(o) # {} => Exists(o)
  BY <1>1, <1>2 DEF Placed, Accounted
<1>4. Placed' <=> Accounted' /\ (\A o \in Ownership : Places(o) # {} => Exists(o))'
  BY <1>1, <1>2 DEF Placed, Accounted
<1>5. QED
  BY <1>3, <1>4
-----------------------------------------------------------------------------
(* The invariant, with the places spelled out.                             *)
LEMMA Facts ==
  ASSUME IInv
  PROVE  /\ TypeOK /\ LifecycleTypeOK /\ Placed /\ SentOnce(queue)
         /\ Queued \intersect missed = {} /\ Queued \subseteq Ownership
         /\ \A g \in held : gen[g] # 0
         /\ \A o \in Ownership : Asked(o)
<1>1. Placed
  BY PlacedIs DEF IInv, ChannelInv
<1>2. Queued \subseteq Ownership
  BY DEF Queued, AssignedIn
<1>3. QED
  BY <1>1, <1>2 DEF IInv, ChannelInv, TypeOK, Placed

LEMMA Together ==
  ASSUME TypeOK', Placed', SentOnce(queue'), \A g \in held' : gen'[g] # 0,
         \A o \in Ownership : Asked(o)'
  PROVE  IInv'
<1>1. Accounted' /\ (\A o \in Ownership : Places(o) # {} => Exists(o))'
  BY PlacedIs
<1>2. SentOnce(queue)'
  BY DEF SentOnce
<1>3. QED
  BY <1>1, <1>2 DEF IInv, ChannelInv

(* Most steps leave the Ownerships, the channel and the chains alone.      *)
LEMMA QuietKeeps ==
  ASSUME IInv, TypeOK', UNCHANGED <<lifecycleVars, held, queue, missed, chainVars>>
  PROVE  IInv'
<1>1. Placed'
  BY Facts DEF Placed, Queued, AssignedIn, Exists, lifecycleVars, chainVars
<1>2. \A o \in Ownership : Asked(o)'
  BY Facts DEF Asked, HandedBack, lifecycleVars, chainVars
<1>3. QED
  BY <1>1, <1>2, Facts, Together DEF lifecycleVars

(* Of an Ownership that expires its chain takes note when it enters.       *)
LEMMA LapseKeeps ==
  ASSUME IInv, NEW o \in Ownership, Expire(o)
  PROVE  /\ LifecycleTypeOK' /\ gen' = gen
         /\ chainVars' = chainVars => \A p \in Ownership : Asked(p)'
<1>1. gen' = gen /\ own' = [own EXCEPT ![o] = @ \union {"expired"}]
  BY DEF Expire, CloseLatch
<1>2. LifecycleTypeOK'
  BY <1>1, Facts DEF LifecycleTypeOK, Latches, DriverLatch
<1>3. \A p \in Ownership :
        /\ HandedBack(p)' <=> HandedBack(p)
        /\ "expired" \in own[p] => "expired" \in own'[p]
  BY <1>1, Facts DEF LifecycleTypeOK, HandedBack
<1>4. ASSUME chainVars' = chainVars PROVE \A p \in Ownership : Asked(p)'
  BY <1>3, <1>4, Facts DEF Asked, chainVars
<1>5. QED
  BY <1>1, <1>2, <1>4

LEMMA LeaseLapsesIInv ==
  ASSUME IInv, NEW o \in Ownership, LeaseLapses(o)
  PROVE  IInv'
<1>1. UNCHANGED dispatcherVars /\ LifecycleTypeOK' /\ gen' = gen
  BY LapseKeeps DEF LeaseLapses
<1>2. \A p \in Ownership : Asked(p)'
  BY LapseKeeps DEF LeaseLapses, dispatcherVars
<1>3. TypeOK'
  BY <1>1, Facts DEF TypeOK, dispatcherVars, routerVars, chainVars, poolVars
<1>4. Placed'
  BY <1>1, Facts
     DEF Placed, Queued, AssignedIn, Exists, dispatcherVars, routerVars, chainVars
<1>5. QED
  BY <1>1, <1>2, <1>3, <1>4, Facts, Together DEF dispatcherVars, routerVars

(* A removal speaks of an assignment that has been made.                   *)
LEMMA Removals ==
  ASSUME IInv, NEW g \in GrantId
  PROVE  /\ Removal(g) \in Seq(Event) /\ AssignedIn(Removal(g)) = {} /\ SentOnce(Removal(g))
         /\ Len(Removal(g)) <= 1
         /\ \A i \in DOMAIN Removal(g) : Removal(g)[i].kind = "removed"
<1>1. CASE g \notin held
  <2>1. Removal(g) = <<>>
    BY <1>1 DEF Removal
  <2>2. QED
    BY <2>1 DEF AssignedIn, ToSet, SentOnce
<1>2. CASE g \in held
  <2> DEFINE e == [kind |-> "removed", of |-> <<g, gen[g]>>]
  <2>1. gen[g] \in 1..MaxAssign
    BY <1>2, Facts, MaxAssignAssumption DEF LifecycleTypeOK
  <2>2. e \in Event
    BY <2>1 DEF Event, Ownership
  <2>3. Removal(g) = <<e>>
    BY <1>2 DEF Removal
  <2>4. <<e>> \in Seq(Event) /\ Len(<<e>>) = 1 /\ DOMAIN <<e>> = {1} /\ <<e>>[1] = e
    BY <2>2
  <2>5. e.kind = "removed" /\ \A o \in Ownership : e # [kind |-> "assigned", of |-> o]
    OBVIOUS
  <2> HIDE DEF e
  <2>6. QED
    BY <2>3, <2>4, <2>5 DEF AssignedIn, ToSet, SentOnce
<1>3. QED
  BY <1>1, <1>2
LEMMA DriverRemovesIInv ==
  ASSUME IInv, NEW g \in GrantId, DriverRemoves(g)
  PROVE  IInv'
<1> DEFINE o == <<g, gen[g]>>
<1>1. g \in held /\ Expire(o) /\ Broadcast(Removal(g)) /\ held' = held \ {g}
      /\ UNCHANGED <<phase, driver, chainVars, poolVars, closed>>
  BY DEF DriverRemoves
<1>2. o \in Ownership
  BY <1>1, Facts DEF LifecycleTypeOK, Ownership
<1> HIDE DEF o
<1>3. LifecycleTypeOK' /\ gen' = gen /\ \A p \in Ownership : Asked(p)'
  BY <1>1, <1>2, LapseKeeps
<1>4. /\ queue' \in Seq(Event) /\ Len(queue') <= Capacity /\ lagged' \in BOOLEAN
      /\ missed' \subseteq Ownership /\ router' = router /\ SentOnce(queue')
      /\ Queued' \union missed' = Queued \union missed /\ Queued' \intersect missed' = {}
  BY <1>1, Facts, Removals, Broadcasts DEF TypeOK
<1>5. TypeOK'
  BY <1>1, <1>3, <1>4, Facts DEF TypeOK, chainVars, poolVars
<1>6. Placed'
  BY <1>1, <1>3, <1>4, Facts DEF Placed, Exists, chainVars
<1>7. QED
  BY <1>1, <1>3, <1>4, <1>5, <1>6, Facts, Together

LEMMA DriverAssignsIInv ==
  ASSUME IInv, NEW g \in GrantId, NEW lapsed \in BOOLEAN, DriverAssigns(g, lapsed)
  PROVE  IInv'
<1> DEFINE n      == gen[g] + 1
           o      == <<g, n>>
           events == Append(Removal(g), Assigned(o))
<1>1. /\ Assign(g, "ALLOCATED", lapsed) /\ Broadcast(events) /\ held' = held \union {g}
      /\ UNCHANGED <<phase, driver, chainVars, poolVars, closed>>
  BY DEF DriverAssigns, Assigned
<1>2. /\ gen[g] \in Nat /\ n \in 1..MaxAssign
      /\ gen' = [gen EXCEPT ![g] = n]
      /\ own' = [p \in Ownership |->
                   IF p = o THEN NewLatches("ALLOCATED", lapsed)
                   ELSE IF p = <<g, gen[g]>> THEN own[p] \union {"expired"}
                   ELSE own[p]]
  BY <1>1, Facts, MaxAssignAssumption DEF Assign, LifecycleTypeOK
<1>3. o \in Ownership /\ ~Exists(o)
  BY <1>2 DEF Ownership, Exists
<1>4. NewLatches("ALLOCATED", lapsed) \subseteq {"active", "revoked", "expired"}
  BY DEF NewLatches
<1>5. LifecycleTypeOK'
  BY <1>2, <1>4, Facts DEF LifecycleTypeOK, Latches, DriverLatch
<1>6. events \in Seq(Event) /\ SentOnce(events) /\ AssignedIn(events) = {o}
  <2>1. Assigned(o) \in Event /\ Assigned(o).kind = "assigned"
    BY <1>3 DEF Event, Assigned
  <2>2. \A p \in Ownership : Assigned(p) = Assigned(o) <=> p = o
    BY DEF Assigned
  <2> DEFINE r == Removal(g)
  <2>3. r \in Seq(Event) /\ \A i \in 1..Len(r) : r[i].kind = "removed"
    BY Removals, LenProperties
  <2> HIDE DEF r, o
  <2>4. /\ Append(r, Assigned(o)) \in Seq(Event)
        /\ Len(Append(r, Assigned(o))) = Len(r) + 1 /\ Len(r) \in Nat
        /\ \A i \in 1..Len(r) : Append(r, Assigned(o))[i] = r[i]
        /\ Append(r, Assigned(o))[Len(r) + 1] = Assigned(o)
    BY <2>1, <2>3, AppendProperties, LenProperties
  <2>5. Append(r, Assigned(o)) = events
    BY DEF r, o
  <2> HIDE DEF events
  <2>6. /\ events \in Seq(Event) /\ DOMAIN events = 1..(Len(r) + 1)
        /\ Len(events) = Len(r) + 1
        /\ \A i \in 1..(Len(r) + 1) : events[i].kind = "assigned" => i = Len(r) + 1
        /\ events[Len(r) + 1] = Assigned(o)
    <3>1. \A i \in 1..(Len(r) + 1) : i \in 1..Len(r) \/ i = Len(r) + 1
      BY <2>4
    <3>2. \A i \in 1..Len(r) : events[i].kind # "assigned"
      BY <2>3, <2>4, <2>5
    <3>3. QED
      BY <2>4, <2>5, <3>1, <3>2, LenProperties
  <2>7. SentOnce(events)
    BY <2>6 DEF SentOnce
  <2>8. ASSUME NEW p \in Ownership PROVE p \in AssignedIn(events) <=> p = o
    <3>1. p \in AssignedIn(events) <=> \E i \in 1..(Len(r) + 1) : events[i] = Assigned(p)
      BY <2>6, AssignedAt
    <3>2. Assigned(p).kind = "assigned"
      BY DEF Assigned
    <3>3. Len(r) + 1 \in 1..(Len(r) + 1)
      BY <2>4
    <3>4. QED
      BY <2>2, <2>6, <3>1, <3>2, <3>3
  <2>9. AssignedIn(events) = {o}
    <3>1. AssignedIn(events) \subseteq Ownership /\ o \in Ownership
      BY <1>3 DEF AssignedIn
    <3>2. QED
      BY <2>8, <3>1
  <2>10. QED
    BY <2>6, <2>7, <2>9
<1> HIDE DEF events, o
<1>7. o \notin Queued /\ o \notin missed /\ chain[o] = "none"
  BY <1>3, Facts DEF Placed
<1>8. /\ queue' \in Seq(Event) /\ Len(queue') <= Capacity /\ lagged' \in BOOLEAN
      /\ missed' \subseteq Ownership /\ router' = router /\ SentOnce(queue')
      /\ Queued' \union missed' = Queued \union missed \union {o}
      /\ Queued' \intersect missed' = {}
  BY <1>1, <1>6, <1>7, Facts, Broadcasts DEF TypeOK
<1>9. TypeOK'
  BY <1>1, <1>5, <1>8, Facts DEF TypeOK, chainVars, poolVars
<1>10. ASSUME NEW p \in Ownership PROVE Exists(p)' <=> Exists(p) \/ p = o
  <2>1. /\ p = <<p[1], p[2]>> /\ p[1] \in GrantId /\ p[2] \in 1..MaxAssign
        /\ o[1] = g /\ o[2] = n /\ MaxAssign \in Nat
    BY MaxAssignAssumption DEF Ownership, o
  <2>2. CASE p[1] = g
    <3>1. gen'[p[1]] = n
      BY <1>2, <2>2, Facts DEF LifecycleTypeOK
    <3>2. p[2] <= n <=> p[2] <= gen[g] \/ p[2] = n
      BY <1>2, <2>1
    <3>3. p = o <=> p[2] = n
      BY <2>1, <2>2 DEF o
    <3>4. QED
      BY <2>2, <3>1, <3>2, <3>3 DEF Exists
  <2>3. CASE p[1] # g
    BY <1>2, <2>1, <2>3, Facts DEF Exists, LifecycleTypeOK
  <2>4. QED
    BY <2>2, <2>3
<1>11. Placed'
  BY <1>1, <1>3, <1>7, <1>8, <1>10, Facts DEF Placed, chainVars
<1>12. ASSUME NEW p \in Ownership PROVE Asked(p)'
  <2>1. Asked(p) /\ chain' = chain /\ declined' = declined /\ claimed' = claimed
    BY <1>1, Facts DEF chainVars
  <2>2. CASE p = o
    <3>1. ~HandedBack(p)'
      BY <1>2, <1>4, <2>2 DEF HandedBack
    <3>2. QED
      BY <1>7, <2>1, <2>2, <3>1 DEF Asked
  <2>3. CASE p # o
    <3>1. /\ HandedBack(p)' <=> HandedBack(p)
          /\ "expired" \in own[p] => "expired" \in own'[p]
      BY <1>2, <2>3 DEF HandedBack
    <3>2. QED
      BY <2>1, <3>1 DEF Asked
  <2>4. QED
    BY <2>2, <2>3
<1>13. \A h \in held' : gen'[h] # 0
  BY <1>1, <1>2, Facts DEF LifecycleTypeOK, TypeOK
<1>14. QED
  BY <1>8, <1>9, <1>11, <1>12, <1>13, Together

(* The router takes the first event off the channel.                       *)
LEMMA RouteEventIInv ==
  ASSUME IInv, RouteEvent
  PROVE  IInv'
<1> DEFINE first == AssignedIn(<<Head(queue)>>)
<1>1. /\ queue # <<>> /\ queue' = Tail(queue)
      /\ chain' = [o \in Ownership |-> IF o \in first THEN "started" ELSE chain[o]]
      /\ UNCHANGED <<lifecycleVars, phase, driver, held, lagged, missed, router,
                     declined, claimed, poolVars, closed>>
  BY DEF RouteEvent
<1>2. /\ Len(queue) \in Nat \ {0} /\ queue \in Seq(Event) /\ Tail(queue) \in Seq(Event)
      /\ Len(Tail(queue)) = Len(queue) - 1 /\ Len(queue) <= Capacity
  BY <1>1, Facts, EmptySeq, HeadTailProperties DEF TypeOK
<1>3. first \union Queued' = Queued /\ first \intersect Queued' = {} /\ SentOnce(queue')
  <2>1. /\ <<>> \in Seq(Event) /\ Len(<<>>) = 0 /\ queue \o <<>> = queue
        /\ SentOnce(<<>>) /\ AssignedIn(<<>>) = {}
    BY <1>2, EmptySeq, ConcatEmptySeq DEF SentOnce, AssignedIn, ToSet
  <2> DEFINE lost == SubSeq(queue \o <<>>, 1, 1)
             kept == SubSeq(queue \o <<>>, 1 + 1, Len(queue \o <<>>))
  <2>2. 1 \in 0..(Len(queue) + Len(<<>>))
    BY <1>2, <2>1
  <2>3. /\ AssignedIn(lost) \union AssignedIn(kept) = AssignedIn(queue)
        /\ SentOnce(kept) /\ AssignedIn(lost) \intersect AssignedIn(kept) = {}
    <3>1. /\ AssignedIn(lost) \union AssignedIn(kept) = AssignedIn(queue) \union AssignedIn(<<>>)
          /\ SentOnce(queue) /\ SentOnce(<<>>) /\ AssignedIn(queue) \intersect AssignedIn(<<>>) = {}
               => SentOnce(kept) /\ AssignedIn(lost) \intersect AssignedIn(kept) = {}
      BY <1>2, <2>1, <2>2, Cut
    <3>2. QED
      BY <2>1, <3>1, Facts
  <2>4. kept = Tail(queue)
    BY <1>1, <1>2, <2>1, TailIsSubSeq
  <2>5. AssignedIn(lost) = first
    <3>1. 1 \in Int /\ \A i \in 1..1 : queue[i] \in Event
      BY <1>2, ElementOfSeq
    <3>2. lost \in Seq(Event) /\ Len(lost) = 1 /\ lost[1] = queue[1]
      <4>1. /\ SubSeq(queue, 1, 1) \in Seq(Event)
            /\ Len(SubSeq(queue, 1, 1)) = IF 1 <= 1 THEN 1 - 1 + 1 ELSE 0
            /\ \A i \in 1..(1 - 1 + 1) : SubSeq(queue, 1, 1)[i] = queue[1 + i - 1]
        BY <3>1, SubSeqProperties
      <4>2. QED
        BY <2>1, <4>1
    <3>3. /\ <<Head(queue)>> \in Seq(Event) /\ Len(<<Head(queue)>>) = 1
          /\ <<Head(queue)>>[1] = queue[1]
      BY <1>2, <3>1
    <3> HIDE DEF lost
    <3>4. \A o \in Ownership : o \in AssignedIn(lost) <=> o \in first
      BY <3>2, <3>3, AssignedAt
    <3>5. AssignedIn(lost) \subseteq Ownership /\ first \subseteq Ownership
      BY DEF AssignedIn
    <3>6. QED
      BY <3>4, <3>5
  <2> HIDE DEF lost, kept, first
  <2>6. Queued' = AssignedIn(kept) /\ Queued = AssignedIn(queue)
    BY <1>1, <2>4 DEF Queued, AssignedIn
  <2>7. QED
    BY <1>1, <2>3, <2>4, <2>5, <2>6
<1> HIDE DEF first
<1>4. TypeOK'
  <2>1. chain' \in [Ownership -> ChainStep]
    BY <1>1, Facts DEF TypeOK, ChainStep
  <2>2. LifecycleTypeOK'
    BY <1>1, Facts DEF lifecycleVars, LifecycleTypeOK
  <2>3. Len(queue') <= Capacity /\ queue' \in Seq(Event)
    BY <1>1, <1>2, DispatcherAssumption
  <2>4. QED
    BY <1>1, <2>1, <2>2, <2>3, Facts DEF TypeOK, poolVars
<1>5. Placed'
  BY <1>1, <1>3, Facts DEF Placed, Exists, lifecycleVars
<1>6. ASSUME NEW o \in Ownership PROVE Asked(o)'
  <2>1. /\ Asked(o) /\ declined' = declined /\ claimed' = claimed
        /\ HandedBack(o)' = HandedBack(o) /\ own' = own
    BY <1>1, Facts DEF HandedBack, lifecycleVars
  <2>2. o \in first => chain[o] = "none"
    BY <1>3, Facts DEF Placed
  <2>3. chain'[o] = chain[o] \/ (chain[o] = "none" /\ chain'[o] = "started")
    BY <1>1, <2>2
  <2>4. QED
    BY <2>1, <2>3 DEF Asked
<1>7. QED
  BY <1>1, <1>3, <1>4, <1>5, <1>6, Facts, Together DEF lifecycleVars

(* A router that is aborted leaves what waits for it, which is missed.     *)
LEMMA RouterStopsIInv ==
  ASSUME IInv, RouterStops
  PROVE  IInv'
<1>1. /\ queue' = <<>> /\ lagged' = FALSE /\ missed' = missed \union Queued
      /\ router' = "ended"
      /\ UNCHANGED <<lifecycleVars, phase, driver, held, chainVars, poolVars, closed>>
  BY DEF RouterStops, Queued
<1>2. /\ <<>> \in Seq(Event) /\ Len(<<>>) = 0 /\ 0 <= Capacity /\ SentOnce(<<>>)
      /\ AssignedIn(<<>>) = {}
  BY EmptySeq, DispatcherAssumption DEF SentOnce, AssignedIn, ToSet
<1>3. Queued' = {} /\ Queued \subseteq Ownership
  BY <1>1, <1>2 DEF Queued, AssignedIn
<1>4. TypeOK'
  <2>1. LifecycleTypeOK'
    BY <1>1, Facts DEF lifecycleVars, LifecycleTypeOK
  <2>2. missed' \subseteq Ownership
    BY <1>1, <1>3, Facts DEF TypeOK
  <2>3. QED
    BY <1>1, <1>2, <2>1, <2>2, Facts DEF TypeOK, poolVars, chainVars
<1>5. Placed'
  BY <1>1, <1>3, Facts DEF Placed, Exists, lifecycleVars, chainVars
<1>6. \A o \in Ownership : Asked(o)'
  BY <1>1, Facts DEF Asked, HandedBack, lifecycleVars, chainVars
<1>7. SentOnce(queue')
  BY <1>1, <1>2
<1>8. QED
  BY <1>1, <1>4, <1>5, <1>6, <1>7, Facts, Together DEF lifecycleVars

(* A step of one chain, which has been given its Ownership before.         *)
LEMMA ChainKeeps ==
  ASSUME IInv, NEW o \in Ownership, TypeOK', Asked(o)',
         UNCHANGED <<gen, held, queue, missed>>, chain[o] # "none", chain'[o] # "none",
         \A p \in Ownership \ {o} :
           /\ chain'[p] = chain[p] /\ declined'[p] = declined[p] /\ own'[p] = own[p]
           /\ p \in claimed' <=> p \in claimed
  PROVE  IInv'
<1>1. Placed'
  BY Facts DEF Placed, Queued, AssignedIn, Exists
<1>2. ASSUME NEW p \in Ownership PROVE Asked(p)'
  BY Facts DEF Asked, HandedBack
<1>3. QED
  BY <1>1, <1>2, Facts, Together

LEMMA ChainIInv ==
  ASSUME IInv, NEW o \in Ownership, Step(o) \/ Filter(o)
  PROVE  IInv'
<1> USE DEF ChainAt
<1>1. Asked(o) /\ chain \in [Ownership -> ChainStep] /\ declined \in [Ownership -> 0..Filters]
      /\ own \in [Ownership -> SUBSET Latches] /\ claimed \subseteq Ownership
      /\ Filters \in Nat
  BY Facts, DispatcherAssumption DEF TypeOK, LifecycleTypeOK
<1>2. CASE ChainEnters(o)
  <2>1. /\ chain[o] = "started"
        /\ chain' = [chain EXCEPT ![o] = IF "expired" \in own[o] THEN "ended" ELSE "asking"]
        /\ UNCHANGED <<gen, own, phase, driver, held, queue, lagged, missed, router, declined,
                       claimed, published, marked, pool, closed>>
    BY <1>2 DEF ChainEnters, lifecycleVars, routerVars, poolVars
  <2>2. TypeOK'
    BY <1>1, <2>1, Facts DEF TypeOK, LifecycleTypeOK, ChainStep
  <2>3. Asked(o)' /\ chain'[o] # "none"
    BY <1>1, <2>1 DEF Asked, HandedBack
  <2>4. QED
    BY <1>1, <2>1, <2>2, <2>3, ChainKeeps
<1>3. CASE FilterClaims(o)
  <2>1. /\ chain[o] = "asking" /\ chain' = [chain EXCEPT ![o] = "ended"]
        /\ claimed' = claimed \union {o}
        /\ UNCHANGED <<gen, own, phase, driver, held, queue, lagged, missed, router, declined,
                       published, marked, pool, closed>>
    BY <1>3 DEF FilterClaims, lifecycleVars, routerVars, poolVars
  <2>2. TypeOK'
    BY <1>1, <2>1, Facts DEF TypeOK, LifecycleTypeOK, ChainStep
  <2>3. Asked(o)' /\ chain'[o] # "none"
    BY <1>1, <2>1 DEF Asked, HandedBack
  <2>4. QED
    BY <1>1, <2>1, <2>2, <2>3, ChainKeeps
<1>4. CASE FilterDeclines(o)
  <2>1. /\ chain[o] = "asking" /\ declined[o] < Filters
        /\ declined' = [declined EXCEPT ![o] = @ + 1]
        /\ UNCHANGED <<gen, own, phase, driver, held, queue, lagged, missed, router, chain,
                       claimed, published, marked, pool, closed>>
    BY <1>4 DEF FilterDeclines, lifecycleVars, routerVars, poolVars
  <2>2. declined[o] + 1 \in 0..Filters
    BY <1>1, <2>1
  <2>3. TypeOK'
    BY <1>1, <2>1, <2>2, Facts DEF TypeOK, LifecycleTypeOK
  <2>4. Asked(o)'
    BY <1>1, <2>1 DEF Asked, HandedBack
  <2>5. QED
    BY <1>1, <2>1, <2>3, <2>4, ChainKeeps
<1>5. CASE Relinquish(o)
  <2>1. /\ chain[o] = "asking" /\ declined[o] = Filters
        /\ chain' = [chain EXCEPT ![o] = "ended"]
        /\ own' = [own EXCEPT ![o] = @ \union {"request_revoke"}]
        /\ UNCHANGED <<gen, phase, driver, held, queue, lagged, missed, router, declined,
                       claimed, published, marked, pool, closed>>
    BY <1>5 DEF Relinquish, CloseLatch, routerVars, poolVars
  <2>2. TypeOK'
    BY <1>1, <2>1, Facts DEF TypeOK, LifecycleTypeOK, ChainStep, Latches, UserLatch
  <2>3. Asked(o)' /\ chain'[o] # "none"
    BY <1>1, <2>1 DEF Asked, HandedBack
  <2>4. QED
    BY <1>1, <2>1, <2>2, <2>3, ChainKeeps
<1>6. QED
  BY <1>2, <1>3, <1>4, <1>5 DEF Step, Filter
-----------------------------------------------------------------------------
LEMMA InitIInv == ASSUME Init PROVE IInv
<1> USE DEF Init, LifecycleInit
<1>1. LifecycleTypeOK
  BY MaxAssignAssumption DEF LifecycleTypeOK
<1>2. queue \in Seq(Event) /\ Len(queue) <= Capacity /\ AssignedIn(queue) = {}
  BY DispatcherAssumption DEF AssignedIn, ToSet
<1>3. TypeOK
  <2>1. 0 \in 0..Filters /\ 0 \in 0..MaxVersion
    BY DispatcherAssumption
  <2>2. chain \in [Ownership -> ChainStep] /\ declined \in [Ownership -> 0..Filters]
    BY <2>1 DEF ChainStep
  <2>3. QED
    BY <1>1, <1>2, <2>1, <2>2 DEF TypeOK, Phases
<1>4. Placed
  <2>1. ASSUME NEW o \in Ownership PROVE ~Exists(o)
    <3>1. o[1] \in GrantId /\ o[2] \in 1..MaxAssign
      BY DEF Ownership
    <3>2. gen[o[1]] = 0
      BY <3>1
    <3>3. QED
      BY <3>1, <3>2, MaxAssignAssumption DEF Exists
  <2>2. QED
    BY <1>2, <2>1 DEF Placed, Queued
<1>5. SentOnce(queue) /\ \A o \in Ownership : Asked(o)
  BY DEF SentOnce, Asked, HandedBack
<1>6. QED
  BY <1>3, <1>4, <1>5, PlacedIs DEF IInv, ChannelInv

(* The steps that leave the Ownerships, the channel and the chains alone.  *)
LEMMA OtherIInv ==
  ASSUME IInv,
         \/ DriverPublishes \/ DriverLeaves \/ DriverEnds \/ DriverFails
         \/ Seed \/ Start \/ RouteLagged \/ RouteClosed \/ UpdatePool \/ WatchClosed
         \/ Drain \/ DrainReturns \/ DropDispatcher \/ UNCHANGED vars
  PROVE  IInv'
<1>1. UNCHANGED <<lifecycleVars, held, queue, missed, chainVars>>
  BY DEF DriverPublishes, DriverLeaves, DriverEnds, DriverFails, Seed, Start,
         RouteLagged, RouteClosed, UpdatePool, WatchClosed, Drain, DrainReturns,
         DropDispatcher, AbortRouter, vars, dispatcherVars, routerVars, chainVars, poolVars
<1>2. LifecycleTypeOK'
  BY <1>1, Facts DEF LifecycleTypeOK, lifecycleVars
<1> USE Facts DEF TypeOK
<1>3. phase' \in Phases /\ driver' \in {"loop", "leaving", "closed", "failed"}
  BY DEF DriverPublishes, DriverLeaves, DriverEnds, DriverFails, Seed, Start,
         RouteLagged, RouteClosed, UpdatePool, WatchClosed, Drain, DrainReturns,
         DropDispatcher, AbortRouter, vars, dispatcherVars, Phases
<1>4. lagged' \in BOOLEAN /\ router' \in {"none", "running", "aborted", "ended"} /\ closed' \in BOOLEAN
  BY DEF DriverPublishes, DriverLeaves, DriverEnds, DriverFails, Seed, Start,
         RouteLagged, RouteClosed, UpdatePool, WatchClosed, Drain, DrainReturns,
         DropDispatcher, AbortRouter, vars, dispatcherVars, routerVars
<1>5. published' \in 0..MaxVersion /\ marked' \in 0..MaxVersion /\ pool' \in 0..MaxVersion
  <2>1. CASE DriverPublishes
    BY <2>1, DispatcherAssumption DEF DriverPublishes
  <2>2. CASE Seed \/ UpdatePool
    BY <2>2 DEF Seed, UpdatePool
  <2>3. CASE ~DriverPublishes /\ ~Seed /\ ~UpdatePool
    BY <2>3 DEF DriverLeaves, DriverEnds, DriverFails, Start, RouteLagged, RouteClosed,
                WatchClosed, Drain, DrainReturns, DropDispatcher, vars, dispatcherVars,
                poolVars
  <2>4. QED
    BY <2>1, <2>2, <2>3
<1>6. TypeOK'
  BY <1>1, <1>2, <1>3, <1>4, <1>5 DEF chainVars
<1>7. QED
  BY <1>1, <1>6, QuietKeeps

LEMMA StepIInv == ASSUME IInv, [Next]_vars PROVE IInv'
<1>1. CASE DriverStep
  BY <1>1, DriverAssignsIInv, DriverRemovesIInv, LeaseLapsesIInv, OtherIInv DEF DriverStep
<1>2. CASE Route
  BY <1>2, RouteEventIInv, RouterStopsIInv, OtherIInv DEF Route
<1>3. CASE \E o \in Ownership : Step(o) \/ Filter(o)
  BY <1>3, ChainIInv
<1>4. QED
  BY <1>1, <1>2, <1>3, OtherIInv DEF Next

(* The Dispatcher's invariant is inductive, for every capacity of the      *)
(* channel and every number of filters (dispatcher.rs:82-250).             *)
THEOREM Invariance == Spec => []IInv
  BY InitIInv, StepIInv, PTL DEF Spec

(* Every Ownership is accounted for once, however slow the router is       *)
(* (dispatcher.rs:106, 186-209).                                           *)
THEOREM AllAccounted == Spec => []Accounted
<1>1. IInv => Accounted
  BY DEF IInv
<1>2. QED
  BY <1>1, Invariance, PTL

(* No chain just ends, and what is handed back has been declined by every  *)
(* filter and claimed by none (dispatcher.rs:217-230).                     *)
THEOREM AlwaysSettled == Spec => []Settled
<1>1. ASSUME IInv, NEW o \in Ownership
      PROVE  /\ chain[o] = "ended" =>
                  o \in claimed \/ HandedBack(o) \/ ("expired" \in own[o] /\ declined[o] = 0)
             /\ HandedBack(o) => declined[o] = Filters /\ o \notin claimed
  BY <1>1, Facts DEF Asked
<1>2. IInv => Settled
  BY <1>1 DEF Settled
<1>3. QED
  BY <1>2, Invariance, PTL
=============================================================================
