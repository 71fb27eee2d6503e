-------------------------- MODULE AbstractHandover --------------------------
(***************************************************************************)
(* What a handover promises, of two grants of one shard: whoever takes the *)
(* shard up finds it let go of, and whoever has served it lets go of it    *)
(* drained.  The two end by different clocks.  When the lease is over for  *)
(* the coordinator the shard may be taken up, whether or not the holder    *)
(* knows: until its own timer has fired the two may overlap.  From its own *)
(* duty to drain a holder is excused only when it knows the lease to be    *)
(* over itself, or when its Range has failed.                              *)
(***************************************************************************)
CONSTANT Grant

VARIABLES
  phase,     \* how far each grant has come
  drained,   \* the grants whose holder has finished what it had begun
  excused,   \* the grants whose holder knows the lease to be over, or whose
             \* Range has failed
  lapsed     \* the grants whose lease is over for the coordinator

vars == <<phase, drained, excused, lapsed>>

Phase == {"idle", "loading", "serving", "released"}
Holding(g) == phase[g] \in {"loading", "serving"}

Init ==
  /\ phase = [g \in Grant |-> "idle"]
  /\ drained = {} /\ excused = {} /\ lapsed = {}

To(g, next) ==
  phase' = [phase EXCEPT ![g] = next] /\ UNCHANGED <<drained, excused, lapsed>>

TakeUp(g) ==
  /\ phase[g] = "idle"
  /\ g \in lapsed \/ \A h \in Grant \ {g} : Holding(h) => h \in lapsed
  /\ To(g, "loading")

Serve(g) == phase[g] = "loading" /\ To(g, "serving")

Drain(g) ==
  /\ phase[g] \in {"serving", "released"}
  /\ drained' = drained \union {g}
  /\ UNCHANGED <<phase, excused, lapsed>>

LetGo(g) ==
  /\ phase[g] = "serving" => g \in drained \union excused
  /\ phase[g] # "released"
  /\ To(g, "released")

Excuse(g) == excused' = excused \union {g} /\ UNCHANGED <<phase, drained, lapsed>>
Lapse(g)  == lapsed' = lapsed \union {g} /\ UNCHANGED <<phase, drained, excused>>

Next ==
  \E g \in Grant : TakeUp(g) \/ Serve(g) \/ Drain(g) \/ LetGo(g) \/ Excuse(g) \/ Lapse(g)

Spec == Init /\ [][Next]_vars
=============================================================================
