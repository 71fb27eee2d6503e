---------------------------- MODULE DriverProofs ----------------------------
(***************************************************************************)
(* The driver's safety properties for every set of grants, every number of *)
(* assignments and every outbound capacity.  One inductive invariant,      *)
(* IInv, carries them all: an Ownership that is not in the table has been  *)
(* expired and its helpers aborted.                                        *)
(***************************************************************************)
EXTENDS Driver, TLAPS

(* NewLatches is a set of latches, closed to revoked only for a grant that *)
(* arrives revoked (ownership.rs:128-135).                                 *)
LEMMA NewLatchesType ==
  ASSUME NEW state \in AssignState, NEW lapsed \in BOOLEAN
  PROVE  /\ NewLatches(state, lapsed) \in SUBSET Latches
         /\ "revoked" \in NewLatches(state, lapsed) <=> state = "REVOKED"
BY DEF NewLatches, AssignState, Latches, DriverLatch, UserLatch

(* Nothing has been assigned and nothing is running.                       *)
LEMMA InitIInv == Init => IInv
<1> SUFFICES ASSUME Init PROVE IInv
  OBVIOUS
<1>1. TypeOK
  <2>1. gen \in [GrantId -> 0..MaxAssign] /\ 0 \in 0..OutCap
    BY DriverAssumption, MaxAssignAssumption DEF Init
  <2>2. helper \in [Ownership -> [Watched -> HelperState]]
    <3>1. [h \in Watched |-> "none"] \in [Watched -> HelperState]
      BY DEF HelperState
    <3>2. QED
      BY <3>1 DEF Init
  <2>3. own \in [Ownership -> SUBSET Latches]
    BY DEF Init
  <2>4. QED
    BY <2>1, <2>2, <2>3 DEF Init, TypeOK, LoopState
<1>2. TableCurrent /\ FlagAgrees /\ Unborn /\ view = table
  BY DEF Init, TableCurrent, FlagAgrees, Unborn, Held
<1>3. Retired
  BY DEF Init, Retired, Exists, Ownership
<1>4. QED
  BY <1>1, <1>2, <1>3 DEF IInv

(* on_assign: the old entry retires, the new one is current (312-375).     *)
LEMMA OnAssignIInv ==
  ASSUME IInv, NEW g \in GrantId, NEW state \in AssignState,
         NEW lapsed \in BOOLEAN, OnAssign(g, state, lapsed)
  PROVE  IInv'
<1> DEFINE n == gen[g] + 1
           new == <<g, n>>
<1> USE MaxAssignAssumption DEF IInv, TypeOK
<1>1. n \in 1..MaxAssign /\ new \in Ownership /\ gen[g] \in Nat
  BY DEF OnAssign, Ownership
<1>2. /\ gen' = [gen EXCEPT ![g] = n]
      /\ table' = [table EXCEPT ![g] = n]
      /\ view' = [view EXCEPT ![g] = n]
      /\ loop = "select" /\ loop' = "select"
      /\ table = gen /\ view = table
      /\ closed' = closed /\ shutdown' = shutdown /\ armed' \in BOOLEAN
      /\ queued' = queued /\ outOpen' = outOpen
  BY DEF OnAssign, Inbound, Select, outVars, TableCurrent
<1>3. Entry(g) # new
  BY <1>1, <1>2 DEF Entry
<1>4. \A o \in Ownership :
        own'[o] = IF o = new THEN NewLatches(state, lapsed)
                  ELSE IF o = Entry(g) THEN own[o] \union {"expired"} ELSE own[o]
  BY <1>1, <1>3 DEF OnAssign, Expired
<1>5. own' \in [Ownership -> SUBSET Latches]
  BY <1>1, NewLatchesType
     DEF OnAssign, Expired, Latches, DriverLatch
<1>6. helper' = [helper EXCEPT ![new] = [h \in Watched |-> "waiting"]]
  BY DEF OnAssign
<1>7. aborted' = aborted \union ({Entry(g)} \intersect Ownership)
  BY DEF OnAssign, Retire
<1>8. TypeOK'
  BY <1>1, <1>2, <1>5, <1>6, <1>7
     DEF OnAssign, LoopState, HelperState, Running
<1>9. TableCurrent'
  BY <1>1, <1>2 DEF TableCurrent
<1>10. Unborn'
  <2> SUFFICES ASSUME NEW o \in Ownership, ~Exists(o)'
               PROVE  own'[o] = {} /\ \A h \in Watched : helper'[o][h] = "none"
    BY DEF Unborn
  <2>1. o # new /\ o # Entry(g) /\ ~Exists(o)
    BY <1>1, <1>2 DEF Exists, Ownership, Entry
  <2>2. QED
    BY <2>1, <1>4, <1>6 DEF Unborn
<1>11. Retired'
  <2> SUFFICES ASSUME NEW o \in Ownership, Exists(o)', table'[o[1]] # o[2]
               PROVE  "expired" \in own'[o] /\ o \in aborted'
    BY DEF Retired
  <2>1. o # new
    BY <1>1, <1>2
  <2>2. CASE o = Entry(g)
    BY <2>1, <2>2, <1>4, <1>7
  <2>3. CASE o # Entry(g)
    <3>0. o = <<o[1], o[2]>> /\ o[1] \in GrantId /\ o[2] \in Nat
      BY DEF Ownership
    <3>1. Exists(o) /\ table[o[1]] # o[2]
      <4>1. CASE o[1] = g
        BY <4>1, <3>0, <2>3, <1>1, <1>2 DEF Exists, Entry
      <4>2. CASE o[1] # g
        BY <4>2, <3>0, <1>2 DEF Exists
      <4>3. QED
        BY <4>1, <4>2
    <3>2. QED
      BY <3>1, <2>1, <2>3, <1>2, <1>4, <1>7 DEF Retired
  <2>4. QED
    BY <2>2, <2>3
<1>12. FlagAgrees'
  <2> SUFFICES ASSUME NEW k \in GrantId, Held(k)'
               PROVE  k \in flagged' <=> "revoked" \in own'[<<k, table'[k]>>]
    BY DEF FlagAgrees, Entry
  <2>1. CASE k = g
    <3>1. own'[<<k, table'[k]>>] = NewLatches(state, lapsed)
      BY <2>1, <1>1, <1>2, <1>4
    <3>2. k \in flagged' <=> state = "REVOKED"
      BY <2>1 DEF OnAssign
    <3>3. QED
      BY <3>1, <3>2, NewLatchesType
  <2>2. CASE k # g
    <3>1. table'[k] = table[k] /\ Held(k) /\ (k \in flagged' <=> k \in flagged)
      BY <2>2, <1>2 DEF Held, OnAssign
    <3>2. Entry(k) \in Ownership /\ Entry(k) # new /\ Entry(k) # Entry(g)
      BY <2>2, <3>1 DEF Entry, Held, Ownership
    <3>3. own'[Entry(k)] = own[Entry(k)]
      BY <3>2, <1>4
    <3>4. QED
      BY <3>1, <3>3 DEF FlagAgrees, Entry
  <2>3. QED
    BY <2>1, <2>2
<1>13. QED
  BY <1>2, <1>8, <1>9, <1>10, <1>11, <1>12

(* One more latch of one Ownership closes: the table is as it was, so only *)
(* the flag has to follow, and only when the latch is `revoked`.           *)
LEMMA CloseIInv ==
  ASSUME IInv, NEW o \in Ownership, Exists(o), NEW latch \in Latches,
         own' = [own EXCEPT ![o] = @ \union {latch}],
         helper' \in [Ownership -> [Watched -> HelperState]],
         \A p \in Ownership : ~Exists(p) => helper'[p] = helper[p],
         flagged' \subseteq GrantId, FlagAgrees',
         UNCHANGED <<gen, table, aborted, view, outVars>>,
         loop' \in LoopState, armed' \in BOOLEAN, UNCHANGED <<shutdown, closed>>,
         loop' = loop
  PROVE  IInv'
<1> USE DEF IInv
<1>1. TypeOK'
  BY DEF TypeOK, outVars
<1>2. TableCurrent'
  BY DEF TableCurrent, Held
<1>3. \A p \in Ownership : own[p] \subseteq own'[p] /\ (p # o => own'[p] = own[p])
  BY DEF TypeOK
<1>4. Unborn'
  BY <1>3 DEF Unborn, Exists
<1>5. Retired'
  BY <1>3 DEF Retired, Exists
<1>6. QED
  BY <1>1, <1>2, <1>4, <1>5

(* A step that only moves the loop, short of its last two ends.            *)
LEMMA LoopIInv ==
  ASSUME IInv, UNCHANGED grantVars,
         loop' \in LoopState, armed' \in BOOLEAN, shutdown' \in BOOLEAN,
         UNCHANGED closed, queued' \in 0..OutCap, outOpen' \in BOOLEAN,
         \/ loop' = loop
         \/ loop \notin {"cleanup", "exited", "failed"} /\ loop' \notin {"exited", "failed"}
  PROVE  IInv'
<1> USE DEF IInv, grantVars
<1>1. TypeOK'
  BY DEF TypeOK
<1>2. TableCurrent'
  BY DEF TableCurrent, Held
<1>3. Unborn' /\ FlagAgrees'
  BY DEF Unborn, FlagAgrees, Exists, Held, Entry
<1>4. Retired'
  BY DEF Retired, Exists
<1>5. QED
  BY <1>1, <1>2, <1>3, <1>4

(* A step of one helper task that closes no latch.                         *)
LEMMA HelperIInv ==
  ASSUME IInv, NEW o \in Ownership, NEW h \in Watched, NEW to \in HelperState,
         helper[o][h] # "none", helper' = [helper EXCEPT ![o][h] = to],
         UNCHANGED <<gen, own, table, flagged, aborted, view, loopVars>>,
         queued' \in 0..OutCap, outOpen' \in BOOLEAN
  PROVE  IInv'
<1> USE DEF IInv, loopVars
<1>1. TypeOK'
  BY DEF TypeOK
<1>2. TableCurrent'
  BY DEF TableCurrent, Held
<1>3. Exists(o)
  BY DEF Unborn
<1>4. Unborn'
  BY <1>3 DEF Unborn, Exists, TypeOK
<1>5. FlagAgrees' /\ Retired'
  BY DEF FlagAgrees, Retired, Exists, Held, Entry
<1>6. QED
  BY <1>1, <1>2, <1>4, <1>5

(* An entry's Ownership is one that exists.                                *)
LEMMA EntryExists ==
  ASSUME IInv, NEW g \in GrantId, Held(g)
  PROVE  Entry(g) \in Ownership /\ Exists(Entry(g))
BY DEF IInv, TypeOK, TableCurrent, Held, Entry, Exists, Ownership

(* Promote and Notify close a latch that no flag mirrors (377-418).        *)
LEMMA SignalIInv ==
  ASSUME IInv, NEW g \in GrantId, NEW latch \in Latches \ {"revoked"},
         CloseLatch(g, latch), Inbound,
         UNCHANGED <<gen, table, flagged, helper, aborted, view, outVars>>
  PROVE  IInv'
<1>1. Entry(g) \in Ownership /\ Exists(Entry(g))
  BY EntryExists DEF CloseLatch
<1>2. own' = [own EXCEPT ![Entry(g)] = @ \union {latch}]
  BY DEF CloseLatch
<1>3. FlagAgrees'
  BY <1>1, <1>2 DEF IInv, TypeOK, FlagAgrees, Held, Entry
<1>4. QED
  BY <1>1, <1>2, <1>3, CloseIInv
     DEF IInv, TypeOK, Inbound, Select, LoopState

(* Revoke closes the latch and sets the flag together (387-400).           *)
LEMMA OnRevokeIInv ==
  ASSUME IInv, NEW g \in GrantId, OnRevoke(g)
  PROVE  IInv'
<1>1. Entry(g) \in Ownership /\ Exists(Entry(g))
  BY EntryExists DEF OnRevoke, CloseLatch
<1>2. own' = [own EXCEPT ![Entry(g)] = @ \union {"revoked"}]
  BY DEF OnRevoke, CloseLatch
<1>3. FlagAgrees'
  <2> SUFFICES ASSUME NEW k \in GrantId, Held(k)
               PROVE  k \in flagged' <=> "revoked" \in own'[Entry(k)]
    BY DEF OnRevoke, FlagAgrees, Held, Entry
  <2>1. CASE k = g
    BY <2>1, <1>1, <1>2 DEF OnRevoke, IInv, TypeOK
  <2>2. CASE k # g
    <3>1. Entry(k) # Entry(g) /\ Entry(k) \in Ownership
      BY <2>2, EntryExists DEF Entry
    <3>2. QED
      BY <2>2, <3>1, <1>2 DEF OnRevoke, IInv, TypeOK, FlagAgrees
  <2>3. QED
    BY <2>1, <2>2
<1>4. QED
  BY <1>1, <1>2, <1>3, CloseIInv
     DEF OnRevoke, IInv, TypeOK, Inbound, Select, LoopState, Latches, DriverLatch

(* A user's signal closes a latch that no flag mirrors.                    *)
LEMMA UserSignalsIInv ==
  ASSUME IInv, NEW o \in Ownership, NEW signal \in Watched, UserSignals(o, signal)
  PROVE  IInv'
<1>1. signal \in Latches /\ signal # "revoked"
  BY DriverAssumption DEF UserLatch, Latches
<1>2. FlagAgrees'
  BY <1>1, EntryExists DEF UserSignals, IInv, TypeOK, FlagAgrees, Held, Entry
<1>3. QED
  BY <1>1, <1>2, CloseIInv DEF UserSignals, IInv, TypeOK, loopVars

(* The timer closes `expired` (495-524).                                   *)
LEMMA TimerFiresIInv ==
  ASSUME IInv, NEW o \in Ownership, TimerFires(o)
  PROVE  IInv'
<1>1. Exists(o)
  BY DEF TimerFires, Live
<1>2. FlagAgrees'
  BY EntryExists DEF TimerFires, IInv, TypeOK, FlagAgrees, Held, Entry
<1>3. QED
  BY <1>1, <1>2, CloseIInv
     DEF TimerFires, IInv, TypeOK, loopVars, Latches, DriverLatch

(* remove_grant, on the way out (431-439, 228-231).                        *)
LEMMA CleanupOneIInv ==
  ASSUME IInv, NEW g \in GrantId, CleanupOne(g)
  PROVE  IInv'
<1> USE DEF IInv
<1>1. Entry(g) \in Ownership
  BY EntryExists DEF CleanupOne, RemoveGrant
<1>2. /\ table' = [table EXCEPT ![g] = 0] /\ view' = [view EXCEPT ![g] = 0]
      /\ flagged' = flagged \ {g} /\ aborted' = aborted \union {Entry(g)}
      /\ own' = Expired(g)
      /\ UNCHANGED <<gen, helper, loopVars, outVars>> /\ loop = "cleanup"
  BY <1>1 DEF CleanupOne, RemoveGrant, Retire
<1>3. own' \in [Ownership -> SUBSET Latches]
  BY <1>2 DEF Expired, TypeOK, Latches, DriverLatch
<1>4. TypeOK'
  <2>1. table' \in [GrantId -> 0..MaxAssign] /\ view' \in [GrantId -> 0..MaxAssign]
    BY <1>2, MaxAssignAssumption DEF TypeOK
  <2>2. QED
    BY <2>1, <1>1, <1>2, <1>3 DEF TypeOK, loopVars, outVars
<1>5. TableCurrent'
  BY <1>2 DEF TableCurrent, TypeOK, loopVars, Held
<1>6. \A o \in Ownership :
        own'[o] = IF o = Entry(g) THEN own[o] \union {"expired"} ELSE own[o]
  BY <1>2 DEF Expired
<1>7. Unborn'
  <2>1. Exists(Entry(g))
    BY EntryExists DEF CleanupOne, RemoveGrant
  <2>2. \A o \in Ownership : Exists(o)' <=> Exists(o)
    BY <1>2 DEF Exists
  <2>3. QED
    BY <2>1, <2>2, <1>2, <1>6 DEF Unborn
<1>8. Retired'
  <2> SUFFICES ASSUME NEW o \in Ownership, Exists(o)', table'[o[1]] # o[2]
               PROVE  "expired" \in own'[o] /\ o \in aborted'
    BY DEF Retired
  <2>1. CASE o = Entry(g)
    BY <2>1, <1>2, <1>6
  <2>2. CASE o # Entry(g)
    <3>1. table[o[1]] # o[2]
      BY <2>2, <1>2 DEF Entry, Ownership, TypeOK
    <3>2. QED
      BY <2>2, <3>1, <1>2, <1>6 DEF Retired, Exists
  <2>3. QED
    BY <2>1, <2>2
<1>9. FlagAgrees'
  <2> SUFFICES ASSUME NEW k \in GrantId, Held(k)'
               PROVE  k \in flagged' <=> "revoked" \in own'[<<k, table'[k]>>]
    BY DEF FlagAgrees, Entry
  <2>1. k # g /\ table'[k] = table[k] /\ Held(k)
    BY <1>2 DEF Held, TypeOK
  <2>2. Entry(k) \in Ownership /\ Entry(k) # Entry(g)
    BY <2>1, EntryExists DEF Entry
  <2>3. QED
    BY <2>1, <2>2, <1>2, <1>6 DEF FlagAgrees, Entry
<1>10. QED
  BY <1>2, <1>4, <1>5, <1>7, <1>8, <1>9

(* Every step of every task preserves the invariant.                       *)
LEMMA StepIInv == IInv /\ [Next]_vars => IInv'
<1> SUFFICES ASSUME IInv, [Next]_vars PROVE IInv'
  OBVIOUS
<1>0. TypeOK /\ OutCap \in Nat \ {0}
  BY DriverAssumption DEF IInv
<1>1. CASE RequestShutdown \/ OnOther \/ TransportTakes \/ TransportDies
  <2>1. UNCHANGED <<grantVars, closed>> /\ loop' = loop /\ outOpen' \in BOOLEAN
        /\ armed' \in BOOLEAN /\ shutdown' \in BOOLEAN
    BY <1>0, <1>1
       DEF RequestShutdown, OnOther, TransportTakes, TransportDies, Inbound,
           Select, TypeOK, loopVars, outVars
  <2>2. queued' \in 0..OutCap
    BY <1>0, <1>1
       DEF RequestShutdown, OnOther, TransportTakes, TransportDies, TypeOK, outVars
  <2>3. QED
    BY <1>0, <2>1, <2>2, LoopIInv DEF TypeOK
<1>2. CASE \/ Begin \/ ShutdownBranch \/ HeartbeatTick \/ HeartbeatFail \/ InboundEnds
           \/ HeartbeatSend \/ SendDeregister \/ SendClosed
  <2>1. UNCHANGED <<grantVars, shutdown, closed>> /\ armed' \in BOOLEAN
        /\ loop \notin {"cleanup", "exited", "failed"}
        /\ loop' \in LoopState \ {"exited", "failed"}
    BY <1>0, <1>2
       DEF Begin, ShutdownBranch, HeartbeatTick, HeartbeatFail, InboundEnds, Goto,
           HeartbeatSend, SendDeregister, SendClosed, Farewell, Select, TypeOK,
           LoopState
  <2>2. queued' \in 0..OutCap /\ outOpen' \in BOOLEAN
    BY <1>0, <1>2
       DEF Begin, ShutdownBranch, HeartbeatTick, HeartbeatFail, InboundEnds, outVars,
           HeartbeatSend, SendDeregister, SendClosed, Farewell, Enqueue,
           HasRoom, TypeOK
  <2>3. QED
    BY <1>0, <2>1, <2>2, LoopIInv DEF TypeOK
<1>3. CASE SessionClosed
  <2> USE <1>0, <1>3 DEF SessionClosed, Goto, outVars
  <2>1. TypeOK'
    <3>1. table' \in [GrantId -> 0..MaxAssign] /\ flagged' \subseteq GrantId
      BY MaxAssignAssumption
    <3>2. QED
      BY <3>1 DEF TypeOK, LoopState
  <2>2. TableCurrent'
    BY DEF IInv, TableCurrent
  <2>3. Unborn' /\ FlagAgrees'
    BY DEF IInv, Unborn, FlagAgrees, Exists, Held, TypeOK
  <2>4. Retired'
    BY DEF IInv, Retired, TableCurrent, Exists, Ownership, TypeOK
  <2>5. QED
    BY <2>1, <2>2, <2>3, <2>4 DEF IInv
<1>4. CASE CleanupDone
  <2> USE <1>0, <1>4 DEF CleanupDone, grantVars, outVars
  <2>1. TypeOK'
    BY DEF TypeOK, LoopState
  <2>2. TableCurrent'
    BY DEF IInv, TableCurrent, Held
  <2>3. Unborn' /\ FlagAgrees'
    BY DEF IInv, Unborn, FlagAgrees, Exists, Held, Entry
  <2>4. Retired'
    BY DEF IInv, Retired, Exists
  <2>5. QED
    BY <2>1, <2>2, <2>3, <2>4 DEF IInv
<1>5. ASSUME NEW g \in GrantId, Receive(g) \/ CleanupOne(g) PROVE IInv'
  <2>1. CASE OnPromote(g)
    BY <2>1, SignalIInv DEF OnPromote, Latches, DriverLatch
  <2>2. ASSUME NEW latch \in DriverLatch, OnNotify(g, latch) PROVE IInv'
    BY <2>2, SignalIInv, DriverAssumption DEF OnNotify, Latches, DriverLatch
  <2>3. QED
    BY <1>5, <2>1, <2>2, OnAssignIInv, OnRevokeIInv, CleanupOneIInv DEF Receive
<1>6. ASSUME NEW o \in Ownership, NEW signal \in Watched, Watch(o, signal)
      PROVE  IInv'
  <2>1. CASE WatcherFires(o, signal) \/ WatcherStops(o, signal)
    BY <1>0, <2>1, HelperIInv
       DEF WatcherFires, WatcherStops, HelperAt, HelperState, Running, TypeOK,
           outVars
  <2>2. CASE WatcherSends(o, signal)
    BY <1>0, <2>2, HelperIInv
       DEF WatcherSends, HelperAt, HelperState, Running, TypeOK, Enqueue,
           HasRoom, outVars
  <2>3. QED
    BY <1>6, <2>1, <2>2 DEF Watch
<1>7. ASSUME NEW o \in Ownership, NEW h \in Watched, HelperDropped(o, h)
      PROVE  IInv'
  BY <1>0, <1>7, HelperIInv
     DEF HelperDropped, HelperState, Running, TypeOK, outVars
<1>8. CASE UNCHANGED vars
  BY <1>0, <1>8, LoopIInv DEF vars, loopVars, outVars, TypeOK
<1>9. QED
  BY <1>1, <1>2, <1>3, <1>4, <1>5, <1>6, <1>7, <1>8, TimerFiresIInv,
     UserSignalsIInv
     DEF Next, LoopStep

(* The invariant holds in every reachable state of the driver.             *)
THEOREM Invariance == Spec => []IInv
  BY InitIInv, StepIInv, PTL DEF Spec
-----------------------------------------------------------------------------
(* What the invariant says of any one state.                               *)
LEMMA LiveIsHeld ==
  ASSUME IInv, NEW o \in Ownership, Live(o)
  PROVE  o[2] = gen[o[1]] /\ (loop # "failed" => table[o[1]] = o[2])
<1>1. gen[o[1]] \in Nat /\ table[o[1]] \in {0, gen[o[1]]} /\ o[2] \in 1..MaxAssign
  BY MaxAssignAssumption DEF IInv, TypeOK, TableCurrent, Ownership
<1>2. CASE table[o[1]] = o[2]
  BY <1>1, <1>2, MaxAssignAssumption
<1>3. CASE table[o[1]] # o[2]
  BY <1>3 DEF Live, IInv, Retired
<1>4. QED
  BY <1>2, <1>3

(* Two Ownerships of one grant are never live together, through duplicate  *)
(* assignments, local expiry and shutdown (consumer.rs:325-330, 431-439).  *)
THEOREM OneLive == Spec => []AtMostOneLive
<1>1. IInv => AtMostOneLive
  <2> SUFFICES ASSUME IInv, NEW o \in Ownership, NEW p \in Ownership,
                      Live(o), Live(p), o[1] = p[1]
               PROVE  o = p
    BY DEF AtMostOneLive
  <2>1. o[2] = p[2]
    BY LiveIsHeld
  <2>2. o = <<o[1], o[2]>> /\ p = <<p[1], p[2]>>
    BY DEF Ownership
  <2>3. QED
    BY <2>1, <2>2
<1>2. QED
  BY <1>1, Invariance, PTL

(* Every live Ownership is the one the coordinator's messages reach, and   *)
(* its entry's flag says what its holder sees (consumer.rs:357-429).       *)
THEOREM TableFaithful == Spec => []TableAgrees
<1>1. IInv => TableAgrees
  BY LiveIsHeld DEF TableAgrees, IInv
<1>2. QED
  BY <1>1, Invariance, PTL

(* A subscriber that folds the events has the driver's table               *)
(* (consumer.rs:53-64, 328-374).                                           *)
THEOREM SubscribersFollow == Spec => []SubscribersAgree
<1>1. IInv => SubscribersAgree
  BY DEF SubscribersAgree, IInv
<1>2. QED
  BY <1>1, Invariance, PTL

(* Once `closed` has fired, every Ownership is expired and its helpers are *)
(* aborted (consumer.rs:227-232).                                          *)
THEOREM ClosedReleases == Spec => []ClosedMeansReleased
<1>1. IInv => ClosedMeansReleased
  <2> SUFFICES ASSUME IInv, closed
               PROVE  /\ \A g \in GrantId : ~Held(g)
                      /\ \A o \in Ownership : Exists(o) => ~Live(o) /\ o \in aborted
    BY DEF ClosedMeansReleased
  <2>1. loop = "exited" /\ \A g \in GrantId : table[g] = 0
    BY DEF IInv, TableCurrent, Held
  <2>2. ASSUME NEW o \in Ownership, Exists(o)
        PROVE  "expired" \in own[o] /\ o \in aborted
    <3>1. table[o[1]] # o[2]
      BY <2>1, MaxAssignAssumption DEF Ownership
    <3>2. QED
      BY <2>1, <2>2, <3>1 DEF IInv, Retired
  <2>3. QED
    BY <2>1, <2>2 DEF Live, Held
<1>2. QED
  BY <1>1, Invariance, PTL

(* An Ownership that has left the table hears from the coordinator no more *)
(* (consumer.rs:377-418).                                                  *)
THEOREM Frozen == Spec => SupersededFrozen
<1> DEFINE Quiet(o) == Exists(o) /\ table[o[1]] # o[2] =>
             own'[o] \intersect DriverLatch \subseteq own[o] \union {"expired"}
<1>1. IInv /\ [Next]_vars => [\A o \in Ownership : Quiet(o)]_vars
  <2> SUFFICES ASSUME IInv, Next, NEW o \in Ownership,
                      Exists(o), table[o[1]] # o[2]
               PROVE  own'[o] \intersect DriverLatch \subseteq own[o] \union {"expired"}
    OBVIOUS
  <2>1. ASSUME NEW p \in Ownership, NEW latch \in Latches,
               own' = [own EXCEPT ![p] = @ \union {latch}],
               p # o \/ latch \notin DriverLatch \/ latch = "expired"
        PROVE  own'[o] \intersect DriverLatch \subseteq own[o] \union {"expired"}
    BY <2>1 DEF IInv, TypeOK
  <2>2. ASSUME NEW g \in GrantId, NEW latch \in DriverLatch, CloseLatch(g, latch)
        PROVE  own'[o] \intersect DriverLatch \subseteq own[o] \union {"expired"}
    <3>1. Entry(g) \in Ownership /\ Entry(g) # o
      BY <2>2, EntryExists DEF CloseLatch, Entry
    <3>2. QED
      BY <2>1, <2>2, <3>1 DEF CloseLatch, Latches
  <2>3. ASSUME NEW g \in GrantId, Receive(g)
        PROVE  own'[o] \intersect DriverLatch \subseteq own[o] \union {"expired"}
    <3>1. ASSUME NEW state \in AssignState, NEW lapsed \in BOOLEAN,
                 OnAssign(g, state, lapsed)
          PROVE  own'[o] \subseteq own[o] \union {"expired"}
      <4>1. o # <<g, gen[g] + 1>>
        BY MaxAssignAssumption DEF Exists, IInv, TypeOK
      <4>2. QED
        BY <3>1, <4>1 DEF OnAssign, Expired
    <3>2. QED
      BY <2>2, <2>3, <3>1
         DEF Receive, OnPromote, OnRevoke, OnNotify, DriverLatch
  <2>4. ASSUME NEW g \in GrantId, CleanupOne(g)
        PROVE  own'[o] \subseteq own[o] \union {"expired"}
    BY <2>4 DEF CleanupOne, RemoveGrant, Expired
  <2>5. ASSUME NEW p \in Ownership, TimerFires(p)
        PROVE  own'[o] \intersect DriverLatch \subseteq own[o] \union {"expired"}
    BY <2>1, <2>5 DEF TimerFires, Latches, DriverLatch
  <2>6. ASSUME NEW p \in Ownership, NEW signal \in Watched, UserSignals(p, signal)
        PROVE  own'[o] \intersect DriverLatch \subseteq own[o] \union {"expired"}
    <3>1. signal \in Latches /\ signal \notin DriverLatch
      BY DriverAssumption DEF UserLatch, DriverLatch, Latches
    <3>2. QED
      BY <2>1, <2>6, <3>1 DEF UserSignals
  <2>7. CASE \/ RequestShutdown \/ LoopStep \/ OnOther
             \/ TransportTakes \/ TransportDies
             \/ \E p \in Ownership :
                  \/ \E signal \in Watched : Watch(p, signal)
                  \/ \E h \in Watched : HelperDropped(p, h)
    <3>1. own' = own
      BY <2>7
         DEF RequestShutdown, LoopStep, Begin, ShutdownBranch, HeartbeatTick,
             HeartbeatSend, HeartbeatFail, SendDeregister, SendClosed, Farewell,
             InboundEnds, SessionClosed, CleanupDone, OnOther, TransportTakes,
             TransportDies, Watch, WatcherFires, WatcherStops, WatcherSends,
             HelperDropped, grantVars
    <3>2. QED
      BY <3>1
  <2>8. QED
    BY <2>3, <2>4, <2>5, <2>6, <2>7 DEF Next
<1>2. QED
  BY <1>1, Invariance, PTL DEF Spec, SupersededFrozen
-----------------------------------------------------------------------------
(* A step that closes one latch of an existing Ownership is a step of the  *)
(* promised lifecycle: a signal, an answer or the expiry.                  *)
LEMMA CloseMaps ==
  ASSUME NEW o \in Ownership, NEW latch \in Latches, Exists(o),
         own' = [own EXCEPT ![o] = @ \union {latch}], gen' = gen,
         latch \in DriverLatch \ {"expired"} => o[2] = gen[o[1]]
  PROVE  Promised!LifecycleNext
<1>1. CASE latch = "expired"
  BY <1>1 DEF Promised!LifecycleNext, Promised!Expire, Promised!Exists, Exists,
              Promised!CloseLatch, Ownership, Promised!Ownership
<1>2. CASE latch \in UserLatch
  BY <1>2 DEF Promised!LifecycleNext, Promised!Answer, Promised!Exists, Exists,
              Promised!CloseLatch, Ownership, Promised!Ownership,
              UserLatch, Promised!UserLatch
<1>3. CASE latch \in DriverLatch \ {"expired"}
  BY <1>3 DEF Promised!LifecycleNext, Promised!Signal, Promised!Current,
              Promised!CloseLatch, Ownership, Promised!Ownership,
              DriverLatch, Promised!DriverLatch
<1>4. QED
  BY <1>1, <1>2, <1>3 DEF Latches

(* A message to a held grant reaches the current Ownership of that grant.  *)
LEMMA SignalMaps ==
  ASSUME IInv, NEW g \in GrantId, NEW latch \in DriverLatch,
         CloseLatch(g, latch), loop # "failed", gen' = gen
  PROVE  Promised!LifecycleNext
<1>1. Entry(g) \in Ownership /\ Exists(Entry(g)) /\ latch \in Latches
  BY EntryExists DEF CloseLatch, Latches
<1>2. Entry(g)[2] = gen[Entry(g)[1]]
  BY DEF IInv, TableCurrent, CloseLatch, Held, Entry
<1>3. QED
  BY <1>1, <1>2, CloseMaps DEF CloseLatch

(* on_assign is the lifecycle's Assign: the entry it drops is current.     *)
LEMMA AssignMaps ==
  ASSUME IInv, NEW g \in GrantId, NEW state \in AssignState,
         NEW lapsed \in BOOLEAN, OnAssign(g, state, lapsed)
  PROVE  Promised!Assign(g, state, lapsed)
<1>1. table = gen /\ gen[g] \in Nat
  BY MaxAssignAssumption
     DEF OnAssign, Inbound, IInv, TableCurrent, TypeOK
<1>2. gen[g] + 1 # gen[g]
  BY <1>1
<1>3. own' = [o \in Ownership |->
                IF o = <<g, gen[g] + 1>> THEN NewLatches(state, lapsed)
                ELSE IF o = <<g, gen[g]>> THEN own[o] \union {"expired"}
                ELSE own[o]]
  <2>1. <<g, gen[g] + 1>> \in Ownership
    BY <1>1 DEF OnAssign, Ownership
  <2>2. QED
    BY <1>1, <1>2, <2>1 DEF OnAssign, Expired, Entry
<1>4. QED
  BY <1>3 DEF OnAssign, Promised!Assign, Ownership, Promised!Ownership,
              NewLatches, Promised!NewLatches

(* The driver implements the lifecycle that holders of an Ownership rely   *)
(* on: every step of every task is one of its steps or a stutter           *)
(* (ownership.rs:18-24).                                                   *)
THEOREM Implements == Spec => KeepsLifecycle
<1>1. Init => Promised!LifecycleInit
  BY DEF Init, Promised!LifecycleInit, Ownership, Promised!Ownership
<1>2. IInv /\ [Next]_vars => [Promised!LifecycleNext]_(Promised!lifecycleVars)
  <2> SUFFICES ASSUME IInv, [Next]_vars,
                      ~UNCHANGED Promised!lifecycleVars
               PROVE  Promised!LifecycleNext
    OBVIOUS
  <2> USE DEF Promised!lifecycleVars
  <2>1. ASSUME NEW g \in GrantId, Receive(g) PROVE Promised!LifecycleNext
    <3>1. ASSUME NEW state \in AssignState, NEW lapsed \in BOOLEAN,
                 OnAssign(g, state, lapsed)
          PROVE  Promised!LifecycleNext
      BY <3>1, AssignMaps
         DEF Promised!LifecycleNext, AssignState, Promised!AssignState
    <3>2. CASE OnPromote(g)
      BY <3>2, SignalMaps DEF OnPromote, Inbound, DriverLatch
    <3>3. CASE OnRevoke(g)
      BY <3>3, SignalMaps DEF OnRevoke, Inbound, DriverLatch
    <3>4. ASSUME NEW latch \in DriverLatch, OnNotify(g, latch)
          PROVE  Promised!LifecycleNext
      BY <3>4, SignalMaps DEF OnNotify, Inbound
    <3>5. QED
      BY <2>1, <3>1, <3>2, <3>3, <3>4 DEF Receive
  <2>2. ASSUME NEW g \in GrantId, CleanupOne(g) PROVE Promised!LifecycleNext
    <3>1. Held(g) /\ own' = Expired(g) /\ gen' = gen
      BY <2>2 DEF CleanupOne, RemoveGrant
    <3>2. Entry(g) \in Ownership /\ Exists(Entry(g))
      BY <3>1, EntryExists
    <3>3. own' = [own EXCEPT ![Entry(g)] = @ \union {"expired"}]
      BY <3>1, <3>2 DEF Expired, IInv, TypeOK
    <3>4. QED
      BY <3>1, <3>2, <3>3, CloseMaps DEF Latches, DriverLatch
  <2>3. ASSUME NEW o \in Ownership, TimerFires(o) PROVE Promised!LifecycleNext
    <3>1. Exists(o)
      BY <2>3 DEF TimerFires, Live
    <3>2. QED
      BY <2>3, <3>1, CloseMaps DEF TimerFires, Latches, DriverLatch
  <2>4. ASSUME NEW o \in Ownership, NEW signal \in Watched,
               UserSignals(o, signal)
        PROVE  Promised!LifecycleNext
    <3>1. signal \in Latches /\ signal \notin DriverLatch
      BY DriverAssumption DEF Latches, DriverLatch, UserLatch
    <3>2. QED
      BY <2>4, <3>1, CloseMaps DEF UserSignals
  <2>5. ASSUME NEW o \in Ownership, NEW signal \in Watched, Watch(o, signal)
        PROVE  FALSE
    BY <2>5 DEF Watch, WatcherFires, WatcherStops, WatcherSends
  <2>6. ASSUME NEW o \in Ownership, NEW h \in Watched, HelperDropped(o, h)
        PROVE  FALSE
    BY <2>6 DEF HelperDropped
  <2>7. ASSUME RequestShutdown \/ LoopStep \/ OnOther
               \/ TransportTakes \/ TransportDies \/ UNCHANGED vars
        PROVE  FALSE
    BY <2>7
       DEF RequestShutdown, LoopStep, Begin, ShutdownBranch, HeartbeatTick,
           HeartbeatSend, HeartbeatFail, SendDeregister, SendClosed, Farewell,
           InboundEnds, SessionClosed, CleanupDone, OnOther, TransportTakes,
           TransportDies, grantVars, vars
  <2>8. QED
    BY <2>1, <2>2, <2>3, <2>4, <2>5, <2>6, <2>7 DEF Next
<1>3. QED
  BY <1>1, <1>2, Invariance, PTL
     DEF Spec, KeepsLifecycle, Promised!LifecycleSpec
=============================================================================
