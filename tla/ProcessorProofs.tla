-------------------------- MODULE ProcessorProofs --------------------------
(***************************************************************************)
(* The Processor's safety properties for every set of grants and every     *)
(* number of assignments.  The invariant says what a run has behind it at  *)
(* each step; the map, shared by all runs of a grant id, follows.          *)
(***************************************************************************)
EXTENDS Processor, TLAPS

(* Nothing has been assigned, dispatched or written.                       *)
LEMMA InitIInv == Init => IInv
<1> SUFFICES ASSUME Init PROVE IInv
  OBVIOUS
<1> USE DEF Init, LifecycleInit
<1>1. TypeOK
  BY MaxAssignAssumption DEF TypeOK, LifecycleTypeOK, Steps
<1>2. StepsEarned
  BY DEF StepsEarned, Earned, Serving
<1>3. EntriesBacked /\ HandoverHonest /\ RangesClosed
  BY DEF EntriesBacked, HandoverHonest, Honest, RangesClosed
<1>4. QED
  BY <1>1, <1>2, <1>3 DEF IInv

(* The driver only adds latches of its own, and starts an Ownership afresh *)
(* that no run has seen.                                                   *)
LEMMA DriverIInv == IInv /\ DriverStep => IInv'
<1> SUFFICES ASSUME IInv, DriverStep PROVE IInv'
  OBVIOUS
<1> USE DEF IInv
<1> DEFINE Grows(o) ==
             /\ own[o] \subseteq own'[o]
             /\ own'[o] \intersect UserLatch = own[o] \intersect UserLatch
             /\ ~Exists(o)' => ~Exists(o) /\ own'[o] = own[o]
<1>1. LifecycleTypeOK' /\ \A o \in Ownership : Grows(o)
  <2>1. ASSUME NEW g \in GrantId, NEW s \in AssignState, NEW lapsed \in BOOLEAN,
               Assign(g, s, lapsed)
        PROVE  LifecycleTypeOK' /\ \A o \in Ownership : Grows(o)
    <3> DEFINE n == gen[g] + 1
    <3>1. n \in 1..MaxAssign /\ gen[g] \in Nat /\ gen' = [gen EXCEPT ![g] = n]
      BY <2>1 DEF Assign, TypeOK, LifecycleTypeOK
    <3>2. <<g, n>> \in Ownership /\ own[<<g, n>>] = {}
      BY <3>1 DEF Ownership, StepsEarned, Earned, Exists
    <3>3. NewLatches(s, lapsed) \subseteq DriverLatch
      BY DEF NewLatches, DriverLatch
    <3>4. \A o \in Ownership :
            own'[o] = IF o = <<g, n>> THEN NewLatches(s, lapsed)
                      ELSE IF o = <<g, gen[g]>> THEN own[o] \union {"expired"}
                      ELSE own[o]
      BY <2>1 DEF Assign
    <3>5. LifecycleTypeOK'
      BY <2>1, <3>1, <3>3
         DEF Assign, TypeOK, LifecycleTypeOK, Latches, DriverLatch
    <3>6. \A o \in Ownership :
            /\ own[o] \subseteq own'[o]
            /\ own'[o] \intersect UserLatch = own[o] \intersect UserLatch
      BY <3>2, <3>3, <3>4 DEF DriverLatch, UserLatch
    <3>7. ASSUME NEW o \in Ownership, ~Exists(o)'
          PROVE  ~Exists(o) /\ own'[o] = own[o]
      <4>1. gen'[o[1]] \in Nat /\ gen[o[1]] \in Nat /\ gen[o[1]] <= gen'[o[1]]
            /\ o[2] \in Nat
        BY <3>1 DEF Ownership, TypeOK, LifecycleTypeOK
      <4>2. ~Exists(o)
        BY <3>7, <4>1 DEF Exists
      <4>3. o # <<g, n>> /\ o # <<g, gen[g]>>
        BY <3>1, <3>7, <4>1 DEF Exists, TypeOK, LifecycleTypeOK
      <4>4. QED
        BY <3>4, <4>2, <4>3
    <3>8. QED
      BY <3>5, <3>6, <3>7
  <2>2. ASSUME NEW o \in Ownership, NEW latch \in DriverLatch,
               Exists(o), CloseLatch(o, latch)
        PROVE  LifecycleTypeOK' /\ \A p \in Ownership : Grows(p)
    <3>1. gen' = gen /\ own' = [own EXCEPT ![o] = @ \union {latch}]
      BY <2>2 DEF CloseLatch
    <3>2. latch \in Latches /\ latch \notin UserLatch
      BY DEF Latches, DriverLatch, UserLatch
    <3>3. LifecycleTypeOK'
      BY <3>1, <3>2 DEF TypeOK, LifecycleTypeOK
    <3>4. \A p \in Ownership : Grows(p)
      BY <2>2, <3>1, <3>2 DEF TypeOK, LifecycleTypeOK, Exists
    <3>5. QED
      BY <3>3, <3>4
  <2>3. ASSUME NEW o \in Ownership, Current(o) PROVE Exists(o)
    BY <2>3 DEF Current, Exists, Ownership, TypeOK, LifecycleTypeOK
  <2>4. QED
    BY <2>1, <2>2, <2>3 DEF DriverStep, Expire, Signal, DriverLatch
<1>2. UNCHANGED <<step, range, map>>
  BY DEF DriverStep, processorVars
<1>3. TypeOK'
  BY <1>1, <1>2 DEF TypeOK
<1>4. StepsEarned'
  BY <1>1, <1>2 DEF StepsEarned, Earned, Over, UserLatch
<1>5. EntriesBacked' /\ RangesClosed'
  BY <1>2 DEF EntriesBacked, Backed, RangesClosed
<1>6. HandoverHonest'
  BY <1>1, <1>2 DEF HandoverHonest, Honest, UserLatch
<1>7. QED
  BY <1>3, <1>4, <1>5, <1>6

(* A step of one run leaves the other Ownerships and their Ranges alone,   *)
(* and the entries of other grants.                                        *)
Frame(o) ==
  /\ TypeOK' /\ gen' = gen
  /\ \A p \in Ownership \ {o} :
       step'[p] = step[p] /\ own'[p] = own[p] /\ range'[p] = range[p]
  /\ \A g \in GrantId \ {o[1]} : map'[g] = map[g]

\* The entry of its own grant is written by the run, deleted, or kept.
Kept(o) ==
  /\ map'[o[1]] = map[o[1]]
  /\ map[o[1]].run = o =>
       step'[o] = "cleanup" \/ (step'[o] = step[o] /\ step[o] # "done")

(* So it is enough to look at that Ownership and that entry.               *)
LEMMA RunKeeps ==
  ASSUME IInv, NEW o \in Ownership, Frame(o), Earned(o)', Honest(o)',
         step'[o] = "done" /\ "built" \in range'[o] => "closed" \in range'[o],
         \/ map'[o[1]] = NoEntry
         \/ map'[o[1]].run = o /\ Backed(map[o[1]])'
         \/ Kept(o)
  PROVE  IInv'
<1> USE DEF IInv, Frame
<1>1. \A p \in Ownership : Exists(p)' <=> Exists(p)
  BY DEF Exists
<1>2. StepsEarned'
  BY <1>1 DEF StepsEarned, Earned, Over
<1>3. HandoverHonest'
  BY DEF HandoverHonest, Honest
<1>4. RangesClosed'
  BY DEF RangesClosed
<1>5. ASSUME NEW g \in GrantId, map'[g] # NoEntry
      PROVE  map'[g].run[1] = g /\ Backed(map[g])'
  <2>1. map'[g] \in Entries /\ map'[g].run \in Ownership
    BY <1>5 DEF TypeOK, Entries
  <2>2. CASE g # o[1]
    <3>1. map'[g] = map[g] /\ map[g].run # o
      BY <1>5, <2>2 DEF EntriesBacked
    <3>2. QED
      BY <1>5, <2>1, <3>1 DEF EntriesBacked, Backed
  <2>3. CASE g = o[1] /\ Kept(o)
    <3>1. map'[g] = map[g] /\ map[g].run[1] = g /\ Backed(map[g])
      BY <1>5, <2>3 DEF EntriesBacked, Kept
    <3>2. CASE map[g].run # o
      BY <2>1, <3>1, <3>2 DEF Backed
    <3>3. CASE map[g].run = o
      <4>1. step'[o] = "cleanup" \/ (step'[o] = step[o] /\ step[o] # "done")
        BY <2>3, <3>3 DEF Kept
      <4>2. "closed" \notin range'[o]
        BY <4>1, <3>1, <3>3 DEF Earned
      <4>3. QED
        BY <3>1, <3>3, <4>1, <4>2 DEF Backed, Serving
    <3>4. QED
      BY <3>2, <3>3
  <2>4. CASE g = o[1] /\ map'[o[1]].run = o /\ Backed(map[o[1]])'
    BY <2>4
  <2>5. QED
    BY <1>5, <2>2, <2>3, <2>4
<1>6. EntriesBacked'
  BY <1>5 DEF EntriesBacked
<1>7. QED
  BY <1>2, <1>3, <1>4, <1>6

(* What is known of a run before it takes a step.                          *)
LEMMA RunFacts ==
  ASSUME IInv, NEW o \in Ownership
  PROVE  /\ TypeOK /\ Earned(o) /\ Honest(o) /\ o[1] \in GrantId
         /\ step[o] # "none" => Exists(o)
         /\ "closed" \in range[o] => step[o] = "done"
         /\ step[o] \in {"none", "offered"} /\ map[o[1]] # NoEntry => map[o[1]].run # o
  BY DEF IInv, StepsEarned, Earned, HandoverHonest, EntriesBacked, Backed,
         Serving, Ownership

(* A run gives up, at any of its steps.                                    *)
LEMMA BailIInv ==
  ASSUME IInv, NEW o \in Ownership, NEW from \in Steps \ {"none", "offered", "done"},
         Bail(o, from), Over(o)
  PROVE  IInv'
<1>1. /\ step[o] = from /\ step' = [step EXCEPT ![o] = "cleanup"]
      /\ UNCHANGED <<gen, own, range, map>>
  BY DEF Bail, At, lifecycleVars
<1>2. Frame(o)
  BY <1>1, RunFacts DEF Frame, TypeOK, LifecycleTypeOK, Steps
<1>3. Earned(o)' /\ Honest(o)' /\ Kept(o) /\ step'[o] # "done"
  BY <1>1, RunFacts DEF TypeOK, Earned, Over, Honest, Kept, Exists, Serving, Steps
<1>4. QED
  BY <1>2, <1>3, RunKeeps

(* run_chain and try_handle, before there is a run.                        *)
LEMMA DispatchIInv ==
  ASSUME IInv, NEW o \in Ownership, Dispatch(o)
  PROVE  IInv'
<1> USE RunFacts DEF TypeOK, LifecycleTypeOK
<1>1. /\ step[o] \in {"none", "offered"} /\ Exists(o) /\ range[o] = {}
      /\ UNCHANGED <<gen, map>>
      /\ \E s \in {"done", "offered", "step1"} : step' = [step EXCEPT ![o] = s]
  <2>1. step[o] \in {"none", "offered"} /\ range[o] = {} /\ Exists(o)
    BY DEF Dispatch, Skip, Offer, Build, Decline, At, Earned
  <2>2. UNCHANGED <<gen, map>>
        /\ \E s \in {"done", "offered", "step1"} : step' = [step EXCEPT ![o] = s]
    BY DEF Dispatch, Skip, Offer, Build, Decline, At, lifecycleVars, CloseLatch
  <2>3. QED
    BY <2>1, <2>2
<1>2. Kept(o) \/ map'[o[1]] = NoEntry
  BY <1>1 DEF Kept
<1>3. CASE Skip(o)
  <2>1. Frame(o)
    BY <1>1, <1>3 DEF Skip, At, Frame, Steps, lifecycleVars
  <2>2. Earned(o)' /\ Honest(o)' /\ range'[o] = {}
    BY <1>1, <1>3 DEF Skip, At, Earned, Over, Honest, Exists, Serving, lifecycleVars
  <2>3. QED
    BY <2>1, <2>2, <1>2, RunKeeps
<1>4. CASE Offer(o)
  <2>1. Frame(o)
    BY <1>1, <1>4 DEF Offer, At, Frame, Steps, lifecycleVars
  <2>2. Earned(o)' /\ Honest(o)' /\ range'[o] = {}
    BY <1>1, <1>4 DEF Offer, At, Earned, Over, Honest, Exists, Serving, lifecycleVars
  <2>3. QED
    BY <2>1, <2>2, <1>2, RunKeeps
<1>5. CASE Build(o)
  <2>1. Frame(o)
    BY <1>1, <1>5 DEF Build, At, Frame, Steps, RangeGains, RangeFact, lifecycleVars
  <2>2. Earned(o)' /\ Honest(o)' /\ step'[o] = "step1"
    BY <1>1, <1>5
       DEF Build, At, Earned, Over, Honest, Exists, Serving, RangeGains, lifecycleVars
  <2>3. QED
    BY <2>1, <2>2, <1>2, RunKeeps
<1>6. CASE Decline(o)
  <2>1. Frame(o)
    BY <1>1, <1>6
       DEF Decline, At, Frame, Steps, CloseLatch, Latches, UserLatch
  <2>2. Earned(o)' /\ Honest(o)' /\ range'[o] = {}
    BY <1>1, <1>6 DEF Decline, At, Earned, Over, Honest, Exists, Serving, CloseLatch
  <2>3. QED
    BY <2>1, <2>2, <1>2, RunKeeps
<1>7. QED
  BY <1>3, <1>4, <1>5, <1>6 DEF Dispatch

(* A step of a run that goes well: it writes its entry, and closes a latch *)
(* or asks the Range for something as it does.                             *)
LEMMA WriteIInv ==
  ASSUME IInv, NEW o \in Ownership, NEW to \in Serving,
         step[o] \in Serving \union {"step1"},
         step' = [step EXCEPT ![o] = to], Write(o, Written(to)),
         TypeOK', gen' = gen,
         \A p \in Ownership \ {o} : own'[p] = own[p] /\ range'[p] = range[p],
         Earned(o)', Honest(o)'
  PROVE  IInv'
<1>1. Exists(o) /\ o[1] \in GrantId /\ step'[o] = to
  BY RunFacts DEF Serving, TypeOK
<1>2. Frame(o)
  BY <1>1 DEF Frame, Write, IInv, TypeOK
<1>3. map'[o[1]] = [state |-> Written(to), run |-> o]
  BY <1>1 DEF Write, IInv, TypeOK
<1>4. "closed" \notin range'[o] /\ to # "done"
  BY <1>1 DEF Earned, Serving
<1>5. map'[o[1]].run = o /\ Backed(map[o[1]])'
  BY <1>1, <1>3, <1>4 DEF Backed
<1>6. QED
  BY <1>1, <1>2, <1>4, <1>5, RunKeeps

(* A run gives up only what is revoked or over, or if its Range has failed *)
(* (123-193).                                                              *)
LEMMA BailIsOver ==
  ASSUME IInv, NEW o \in Ownership, Run(o), step[o] # "cleanup",
         step'[o] = "cleanup"
  PROVE  Over(o)
<1> USE DEF At, Over
<1>1. "closed" \notin range[o]
  BY RunFacts DEF Run, Polled, Step1, Step2, Step3, Step4, Step5, Step6, DrainReturns,
                  Cleanup, Bail, Earned
<1>2. TypeOK
  BY RunFacts
<1>3. CASE Step1(o)
  BY <1>2, <1>3 DEF Step1, WaitForUnload, Race, TypeOK
<1>4. CASE Step2(o) \/ Step5(o)
  BY <1>1, <1>2, <1>4 DEF Step2, Step5, RangeClosed, TypeOK
<1>5. CASE Step3(o)
  BY <1>2, <1>5 DEF Step3, WaitForActive, Race, TypeOK
<1>6. CASE Step4(o)
  BY <1>2, <1>6 DEF Step4, WaitForRevoke, Race, TypeOK
<1>7. CASE Step6(o)
  BY <1>7, RunFacts DEF Step6, Bail, Earned
<1>8. CASE DrainReturns(o) \/ Cleanup(o)
  BY <1>2, <1>8 DEF DrainReturns, Cleanup, TypeOK
<1>9. QED
  BY <1>3, <1>4, <1>5, <1>6, <1>7, <1>8 DEF Run, Polled

(* The five steps of run_grant (123-193).                                  *)
LEMMA StepsIInv ==
  ASSUME IInv, NEW o \in Ownership, Run(o)
  PROVE  IInv'
<1> USE RunFacts DEF TypeOK, LifecycleTypeOK, At
<1>0. \A s \in MapState : [state |-> s, run |-> o] \in Entries
  BY DEF Entries
<1>1. ASSUME NEW from \in Steps \ {"none", "offered", "done"}, Bail(o, from) PROVE IInv'
  <2>1. step'[o] = "cleanup" /\ step[o] \notin {"cleanup", "done"}
    BY <1>1 DEF Bail, Run, Polled, Step1, Step2, Step3, Step4, Step5, Step6,
                DrainReturns, Cleanup
  <2>2. Over(o)
    BY <2>1, BailIsOver
  <2>3. QED
    BY <1>1, <2>2, BailIInv
<1>2. ASSUME Step1(o), ~Bail(o, "step1") PROVE IInv'
  <2>1. /\ step[o] = "step1" /\ step' = [step EXCEPT ![o] = "step2"]
        /\ UNCHANGED <<gen, own, range>> /\ Write(o, Written("step2"))
        /\ own[o] \intersect {"active", "unloaded"} # {}
    BY <1>2 DEF Step1, WaitForUnload, Race, Written, lifecycleVars
  <2>2. TypeOK'
    BY <1>0, <2>1 DEF Write, Written, MapState, Steps
  <2>3. Earned(o)' /\ Honest(o)'
    BY <2>1 DEF Earned, Over, Honest, Exists, Serving
  <2>4. QED
    BY <2>1, <2>2, <2>3, WriteIInv DEF Serving
<1>3. ASSUME Step2(o), ~Bail(o, "step2") PROVE IInv'
  <2>1. /\ step[o] = "step2" /\ step' = [step EXCEPT ![o] = "step3"]
        /\ UNCHANGED <<gen, range>> /\ Write(o, Written("step3"))
        /\ own' = [own EXCEPT ![o] = @ \union {"load"}]
        /\ "initialized" \in range[o]
    BY <1>3 DEF Step2, CloseLatch, Written
  <2>2. TypeOK'
    BY <1>0, <2>1 DEF Write, Written, MapState, Steps, Latches, UserLatch
  <2>3. Earned(o)' /\ Honest(o)'
    BY <2>1 DEF Earned, Over, Honest, Exists, Serving
  <2>4. QED
    BY <2>1, <2>2, <2>3, WriteIInv DEF Serving
<1>4. ASSUME Step3(o), ~Bail(o, "step3") PROVE IInv'
  <2>1. /\ step[o] = "step3" /\ step' = [step EXCEPT ![o] = "step4"]
        /\ UNCHANGED <<gen, own, range>> /\ Write(o, Written("step4"))
        /\ "active" \in own[o]
    BY <1>4 DEF Step3, WaitForActive, Race, Written, lifecycleVars
  <2>2. TypeOK'
    BY <1>0, <2>1 DEF Write, Written, MapState, Steps
  <2>3. Earned(o)' /\ Honest(o)'
    BY <2>1 DEF Earned, Over, Honest, Exists, Serving
  <2>4. QED
    BY <2>1, <2>2, <2>3, WriteIInv DEF Serving
<1>5. ASSUME Step4(o), ~Bail(o, "step4") PROVE IInv'
  <2>1. /\ step[o] = "step4" /\ step' = [step EXCEPT ![o] = "draining"]
        /\ UNCHANGED <<gen, own>> /\ Write(o, Written("draining"))
        /\ range' = [range EXCEPT ![o] = @ \union {"drain"}]
        /\ "revoked" \in own[o]
    BY <1>5 DEF Step4, WaitForRevoke, Race, Written, RangeGains, lifecycleVars
  <2>2. TypeOK'
    BY <1>0, <2>1 DEF Write, Written, MapState, Steps, RangeFact
  <2>3. Earned(o)' /\ Honest(o)'
    BY <2>1 DEF Earned, Over, Honest, Exists, Serving
  <2>4. QED
    BY <2>1, <2>2, <2>3, WriteIInv DEF Serving
<1>6. ASSUME Step5(o), ~Bail(o, "step5") PROVE IInv'
  <2>1. /\ step[o] = "step5" /\ step' = [step EXCEPT ![o] = "step6"]
        /\ UNCHANGED <<gen, range>> /\ Write(o, Written("step6"))
        /\ own' = [own EXCEPT ![o] = @ \union {"unload"}]
        /\ "drained" \in range[o]
    BY <1>6 DEF Step5, CloseLatch, Written
  <2>2. TypeOK'
    BY <1>0, <2>1 DEF Write, Written, MapState, Steps, Latches, UserLatch
  <2>3. Earned(o)' /\ Honest(o)'
    BY <2>1 DEF Earned, Over, Honest, Exists, Serving
  <2>4. QED
    BY <2>1, <2>2, <2>3, WriteIInv DEF Serving
<1>7. CASE DrainReturns(o)
  <2>1. /\ step[o] = "draining" /\ step' = [step EXCEPT ![o] = "step5"]
        /\ UNCHANGED <<gen, own, range, map>>
    BY <1>7 DEF DrainReturns, lifecycleVars
  <2>2. Frame(o) /\ Earned(o)' /\ Honest(o)'
    BY <2>1 DEF Frame, Steps, Earned, Over, Honest, Exists, Serving
  <2>3. CASE map[o[1]] # NoEntry /\ map[o[1]].run = o
    <3>1. map[o[1]].state = "REVOKED"
      BY <2>1, <2>3 DEF IInv, EntriesBacked, Backed, Written, Serving
    <3>2. Backed(map[o[1]])'
      BY <2>1, <2>2, <2>3, <3>1 DEF Backed, Written, Serving, Earned
    <3>3. QED
      BY <2>1, <2>2, <2>3, <3>2, RunKeeps
  <2>4. CASE map[o[1]] = NoEntry \/ map[o[1]].run # o
    BY <2>1, <2>2, <2>4, RunKeeps DEF Kept
  <2>5. QED
    BY <2>3, <2>4
<1>8. CASE Cleanup(o)
  <2>1. /\ step[o] = "cleanup" /\ step' = [step EXCEPT ![o] = "done"]
        /\ UNCHANGED <<gen, own>> /\ map' = [map EXCEPT ![o[1]] = NoEntry]
        /\ range' = [range EXCEPT ![o] = @ \union {"closed"}]
    BY <1>8 DEF Cleanup, RangeGains, lifecycleVars
  <2>2. Frame(o) /\ Earned(o)' /\ Honest(o)'
    BY <2>1 DEF Frame, Steps, Earned, Over, Honest, Exists, Serving, RangeFact
  <2>3. QED
    BY <2>1, <2>2, RunKeeps
<1>9. Step6(o) => Bail(o, "step6")
  BY DEF Step6
<1>10. QED
  BY <1>1, <1>2, <1>3, <1>4, <1>5, <1>6, <1>7, <1>8, <1>9 DEF Run, Polled, Steps

(* The Range reports something, wherever its run is.                       *)
LEMMA UserRangeIInv ==
  ASSUME IInv, NEW o \in Ownership, UserRange(o)
  PROVE  IInv'
<1> USE RunFacts DEF TypeOK, LifecycleTypeOK
<1>1. PICK fact \in {"initialized", "drained", "failed"} :
        /\ range' = [range EXCEPT ![o] = @ \union {fact}]
        /\ range[o] # {} /\ UNCHANGED <<gen, own, step, map>>
  BY DEF UserRange, RangeInitialized, RangeDrained, RangeFails, RangeReports,
         RangeGains, lifecycleVars
<1>2. Frame(o) /\ Earned(o)' /\ Honest(o)'
  BY <1>1 DEF Frame, RangeFact, Earned, Over, Honest, Exists
<1>3. step[o] = "done" /\ "built" \in range'[o] => "closed" \in range'[o]
  BY <1>1 DEF IInv, RangesClosed
<1>4. Kept(o) \/ map'[o[1]] = NoEntry
  BY <1>1 DEF Kept, IInv, EntriesBacked, Backed, Serving
<1>5. QED
  BY <1>1, <1>2, <1>3, <1>4, RunKeeps

(* Every step of every task preserves the invariant.                       *)
LEMMA StepIInv == IInv /\ [Next]_vars => IInv'
<1>1. ASSUME IInv, UNCHANGED vars PROVE IInv'
  BY <1>1
     DEF vars, lifecycleVars, processorVars, IInv, TypeOK, LifecycleTypeOK,
         StepsEarned, Earned, Over, EntriesBacked, Backed, HandoverHonest, Honest,
         RangesClosed, Exists
<1>2. QED
  BY <1>1, DriverIInv, DispatchIInv, StepsIInv, UserRangeIInv DEF Next

(* The invariant holds in every reachable state.                           *)
THEOREM Invariance == Spec => []IInv
  BY InitIInv, StepIInv, PTL DEF Spec

(* An entry of the map always belongs to a run that is under way and says  *)
(* where that run is, whatever runs share its grant id                     *)
(* (processor.rs:117-121, 135-193, 206-211).                               *)
THEOREM EntriesAlwaysBacked == Spec => []EntriesBacked
  BY Invariance, PTL DEF IInv

(* `load` and `unload` are only ever said of a Range that has initialized, *)
(* or drained (processor.rs:123-153, 163-190).                             *)
THEOREM HandoverAlwaysHonest == Spec => []HandoverHonest
  BY Invariance, PTL DEF IInv

(* A run that has taken a grant gives it up only when the grant is revoked *)
(* or over, or its Range has failed (dispatcher.rs:40-42,                  *)
(* processor.rs:123-193).                                                  *)
THEOREM OwnedAlwaysToTheEnd == Spec => []OwnedToTheEnd
<1>1. IInv => OwnedToTheEnd
  BY DEF IInv, StepsEarned, Earned, OwnedToTheEnd
<1>2. QED
  BY <1>1, Invariance, PTL

(* Between its driver and its runs the Processor keeps the life cycle: a   *)
(* run closes the latches of its holder only, and only those of an         *)
(* Ownership that was handed out (processor.rs:123-193,                    *)
(* dispatcher.rs:40-42).  The Driver is proved to keep it on its side.     *)
THEOREM KeepsLifecycle == Spec => LifecycleSpec
<1>1. Init => LifecycleInit
  BY DEF Init
<1>2. IInv /\ [Next]_vars => [LifecycleNext]_lifecycleVars
  <2> SUFFICES ASSUME IInv, [Next]_vars PROVE [LifecycleNext]_lifecycleVars
    OBVIOUS
  <2>1. CASE DriverStep
    BY <2>1 DEF DriverStep, LifecycleNext
  <2>2. ASSUME NEW o \in Ownership, Dispatch(o) \/ Run(o) \/ UserRange(o)
        PROVE  [LifecycleNext]_lifecycleVars
    <3>1. UNCHANGED lifecycleVars \/ \E latch \in UserLatch : CloseLatch(o, latch)
      BY <2>2
         DEF Dispatch, Skip, Offer, Build, Decline, Run, Polled, Step1, Step2, Step3, Step4, Step5,
             Step6, Bail, DrainReturns, Cleanup, UserRange, RangeInitialized, RangeDrained,
             RangeFails, RangeReports, UserLatch
    <3>2. CASE UNCHANGED lifecycleVars
      BY <3>2
    <3>3. CASE ~UNCHANGED lifecycleVars
      <4>1. Dispatch(o) \/ Run(o)
        BY <2>2, <3>3
           DEF UserRange, RangeInitialized, RangeDrained, RangeFails, RangeReports
      <4>2. Exists(o)
        BY <4>1, RunFacts
           DEF Dispatch, Skip, Offer, Build, Decline, Run, Polled, Step1, Step2, Step3, Step4,
               Step5, Step6, Bail, DrainReturns, Cleanup, At
      <4>3. QED
        BY <3>1, <3>3, <4>2 DEF Answer, LifecycleNext
    <3>4. QED
      BY <3>2, <3>3
  <2>3. CASE UNCHANGED vars
    BY <2>3 DEF vars
  <2>4. QED
    BY <2>1, <2>2, <2>3 DEF Next
<1>3. QED
  BY <1>1, <1>2, Invariance, PTL DEF Spec, LifecycleSpec
-----------------------------------------------------------------------------
(* Of the Ownerships of a grant only the latest is live.                   *)
LiveIsCurrent == \A o \in Ownership : Live(o) => Current(o)

LEMMA LiveStays ==
  ASSUME IInv, LiveIsCurrent, [Next]_vars
  PROVE  /\ LiveIsCurrent'
         /\ \A o \in Ownership : Exists(o) => own[o] \subseteq own'[o]
<1> USE DEF IInv, TypeOK, LifecycleTypeOK
<1>1. ASSUME NEW g \in GrantId, NEW s \in AssignState, NEW lapsed \in BOOLEAN,
             Assign(g, s, lapsed), NEW o \in Ownership
      PROVE  (Live(o)' => Current(o)') /\ (Exists(o) => own[o] \subseteq own'[o])
  <2> DEFINE n == gen[g] + 1
  <2>1. /\ gen[g] \in Nat /\ n \in Nat /\ gen' = [gen EXCEPT ![g] = n]
        /\ own'[o] = IF o = <<g, n>> THEN NewLatches(s, lapsed)
                     ELSE IF o = <<g, gen[g]>> THEN own[o] \union {"expired"}
                     ELSE own[o]
    BY <1>1 DEF Assign
  <2>2. o = <<o[1], o[2]>> /\ o[1] \in GrantId /\ o[2] \in Nat /\ gen[o[1]] \in Nat
    BY DEF Ownership
  <2>3. CASE o[1] # g
    BY <2>1, <2>2, <2>3 DEF LiveIsCurrent, Live, Exists, Current
  <2>4. CASE o[1] = g /\ o[2] = n
    BY <2>1, <2>2, <2>4 DEF Exists, Current
  <2>5. CASE o[1] = g /\ o[2] = gen[g]
    BY <2>1, <2>2, <2>5 DEF Live
  <2>6. CASE o[1] = g /\ o[2] # n /\ o[2] # gen[g]
    <3>1. own'[o] = own[o] /\ ~Current(o)
      BY <2>1, <2>2, <2>6 DEF Current
    <3>2. Exists(o)' => Exists(o)
      BY <2>1, <2>2, <2>6 DEF Exists
    <3>3. QED
      BY <3>1, <3>2 DEF LiveIsCurrent, Live
  <2>7. QED
    BY <2>3, <2>4, <2>5, <2>6
<1>2. ASSUME gen' = gen, \A o \in Ownership : own[o] \subseteq own'[o]
      PROVE  /\ LiveIsCurrent'
             /\ \A o \in Ownership : Exists(o) => own[o] \subseteq own'[o]
  BY <1>2 DEF LiveIsCurrent, Live, Exists, Current
<1>3. ASSUME NEW o \in Ownership, NEW latch, CloseLatch(o, latch)
      PROVE  gen' = gen /\ \A p \in Ownership : own[p] \subseteq own'[p]
  BY <1>3 DEF CloseLatch
<1>4. ASSUME DriverStep, ~\E g \in GrantId, s \in AssignState, lapsed \in BOOLEAN :
                             Assign(g, s, lapsed)
      PROVE  gen' = gen /\ \A p \in Ownership : own[p] \subseteq own'[p]
  BY <1>3, <1>4 DEF DriverStep, Expire, Signal
<1>5. ASSUME NEW o \in Ownership, Dispatch(o) \/ Run(o) \/ UserRange(o)
      PROVE  gen' = gen /\ \A p \in Ownership : own[p] \subseteq own'[p]
  <2>1. UNCHANGED lifecycleVars \/ \E latch \in UserLatch : CloseLatch(o, latch)
    BY <1>5
       DEF Dispatch, Skip, Offer, Build, Decline, Run, Polled, Step1, Step2, Step3, Step4, Step5,
           Step6, Bail, DrainReturns, Cleanup, UserRange, RangeInitialized, RangeDrained,
           RangeFails, RangeReports, UserLatch
  <2>2. QED
    BY <1>3, <2>1 DEF lifecycleVars
<1>6. CASE UNCHANGED vars
  BY <1>2, <1>6 DEF vars, lifecycleVars
<1>7. QED
  BY <1>1, <1>2, <1>4, <1>5, <1>6 DEF Next, LiveIsCurrent

(* While the first run of a live grant serves, no other run of its grant   *)
(* id is under way: one before it would have built a Range, one after it   *)
(* would be of a later assignment.                                         *)
LEMMA Alone ==
  ASSUME IInv, LiveIsCurrent, NEW o \in Ownership, Live(o), FirstRun(o),
         NEW p \in Ownership, p[1] = o[1], p # o
  PROVE  step[p] \in {"none", "offered", "done"} /\ (p[2] > o[2] => ~Exists(p))
<1>1. /\ o = <<o[1], o[2]>> /\ p = <<p[1], p[2]>> /\ o[2] \in Nat /\ p[2] \in Nat
      /\ gen[o[1]] = o[2]
  BY DEF Ownership, LiveIsCurrent, Current
<1>2. p[2] < o[2] \/ p[2] > o[2]
  BY <1>1
<1>3. CASE p[2] < o[2]
  BY <1>1, <1>3, RunFacts DEF FirstRun, Earned
<1>4. CASE p[2] > o[2]
  <2>1. ~Exists(p)
    BY <1>1, <1>4 DEF Exists
  <2>2. QED
    BY <2>1, RunFacts DEF Earned
<1>5. QED
  BY <1>1, <1>2, <1>3, <1>4

\* Ranges only gain facts.
LEMMA RangesGrow ==
  ASSUME IInv, [Next]_vars
  PROVE  \A o \in Ownership : range[o] \subseteq range'[o]
<1>1. UNCHANGED range \/ \E o \in Ownership, facts \in SUBSET RangeFact : RangeGains(o, facts)
  BY DEF Next, DriverStep, processorVars, vars, Dispatch, Skip, Offer, Build, Decline, Run, Polled,
         Step1, Step2, Step3, Step4, Step5, Step6, Bail, DrainReturns, Cleanup, UserRange,
         RangeInitialized, RangeDrained, RangeFails, RangeReports, RangeFact
<1>2. QED
  BY <1>1 DEF RangeGains, IInv, TypeOK

LEMMA ServingStays ==
  ASSUME IInv, LiveIsCurrent, ServingIsMapped, [Next]_vars
  PROVE  ServingIsMapped'
<1> USE DEF IInv, TypeOK, At
<1> SUFFICES ASSUME NEW o \in Ownership, step'[o] \in Serving, Live(o)', FirstRun(o)'
             PROVE  Mapped(o)'
  BY DEF ServingIsMapped
<1>1. FirstRun(o)
  BY RangesGrow DEF FirstRun
<1>2. ASSUME Exists(o) PROVE Live(o)
  BY <1>2, LiveStays DEF Live
<1>3. ASSUME step'[o] = step[o], map'[o[1]] = map[o[1]] PROVE Mapped(o)'
  <2>1. Live(o)
    BY <1>2, <1>3, RunFacts DEF Serving
  <2>2. Mapped(o)
    BY <1>1, <1>3, <2>1 DEF ServingIsMapped
  <2>3. QED
    BY <1>3, <2>2 DEF Mapped
<1>4. CASE DriverStep \/ UNCHANGED vars
  BY <1>3, <1>4 DEF DriverStep, processorVars, vars
<1>5. ASSUME NEW p \in Ownership, UserRange(p) PROVE Mapped(o)'
  BY <1>3, <1>5 DEF UserRange, RangeInitialized, RangeDrained, RangeFails, RangeReports
<1>6. ASSUME NEW p \in Ownership, Dispatch(p) PROVE Mapped(o)'
  <2>1. /\ step[p] \in {"none", "offered"} /\ UNCHANGED map
        /\ \E s \in {"done", "offered", "step1"} : step' = [step EXCEPT ![p] = s]
    BY <1>6 DEF Dispatch, Skip, Offer, Build, Decline
  <2>2. p # o
    BY <2>1 DEF Serving
  <2>3. QED
    BY <1>3, <2>1, <2>2
<1>7. ASSUME NEW p \in Ownership, Run(p), p # o PROVE Mapped(o)'
  <2>1. /\ step[p] \notin {"none", "offered", "done"} /\ step'[o] = step[o]
        /\ \A g \in GrantId \ {p[1]} : map'[g] = map[g]
    BY <1>7
       DEF Run, Polled, Step1, Step2, Step3, Step4, Step5, Step6, Bail, DrainReturns,
           Cleanup, Write
  <2>2. Live(o)
    BY <1>2, <2>1, RunFacts DEF Serving
  <2>3. p[1] # o[1]
    BY <1>1, <1>7, <2>1, <2>2, Alone
  <2>4. QED
    BY <1>3, <2>1, <2>3 DEF Ownership
<1>8. ASSUME Run(o) PROVE Mapped(o)'
  <2>1. CASE \E to \in Serving : step' = [step EXCEPT ![o] = to] /\ Write(o, Written(to))
    BY <2>1 DEF Write, Mapped, Ownership
  <2>2. CASE DrainReturns(o)
    <3>1. step[o] = "draining" /\ step'[o] = "step5" /\ UNCHANGED map
      BY <2>2 DEF DrainReturns
    <3>2. Live(o)
      BY <1>2, <3>1, RunFacts
    <3>3. Mapped(o)
      BY <1>1, <3>1, <3>2 DEF ServingIsMapped, Serving
    <3>4. QED
      BY <3>1, <3>3 DEF Mapped, Written
  <2>3. CASE step'[o] \in {"cleanup", "done"}
    BY <2>3 DEF Serving
  <2>4. QED
    BY <1>8, <2>1, <2>2, <2>3
       DEF Run, Polled, Step1, Step2, Step3, Step4, Step5, Step6, Bail, Cleanup,
           Written, Serving
<1>9. QED
  BY <1>4, <1>5, <1>6, <1>7, <1>8 DEF Next

(* The first run of a live grant that built a Range is the one the map     *)
(* shows while it serves (processor.rs:117-121, 206-211).                  *)
THEOREM ServingAlwaysMapped == Spec => []ServingIsMapped
<1>1. Init => LiveIsCurrent /\ ServingIsMapped
  BY MaxAssignAssumption
     DEF Init, LifecycleInit, LiveIsCurrent, Live, Exists, Ownership, ServingIsMapped, Serving
<1>2. IInv /\ LiveIsCurrent /\ ServingIsMapped /\ [Next]_vars
        => (LiveIsCurrent /\ ServingIsMapped)'
  BY LiveStays, ServingStays
<1>3. QED
  BY <1>1, <1>2, Invariance, PTL DEF Spec
=============================================================================
