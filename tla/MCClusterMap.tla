---------------------------- MODULE MCClusterMap ----------------------------
(***************************************************************************)
(* The cluster messages for the model checker: changes of at most two      *)
(* parts, so that every part meets every other in the order of the code.   *)
(* A snapshot is drawn from the same messages, and uses its own parts.     *)
(* One domain is split at key 2, its upper half for one region alone.      *)
(***************************************************************************)
EXTENDS ClusterMap, FiniteSets, TLC

MCShard == {[domain |-> "d", region |-> "",  from |-> 0, to |-> 2],
            [domain |-> "d", region |-> "r", from |-> 2, to |-> 0]}

\* 0 is the empty key, as it is the empty bound.
MCKey == {[domain |-> "d", region |-> "r", key |-> 0],
          [domain |-> "d", region |-> "r", key |-> 1],
          [domain |-> "d", region |-> "r", key |-> 2],
          [domain |-> "d", region |-> "q", key |-> 2],
          [domain |-> "e", region |-> "r", key |-> 1]}

Parts(change) ==
  {part \in {"shards", "assign", "update", "unassign", "remove"} :
     \/ part = "shards" /\ change.reshards
     \/ part = "assign" /\ DOMAIN change.instance # {}
     \/ part = "update" /\ DOMAIN change.updates # {}
     \/ part = "unassign" /\ change.unassigned # {}
     \/ part = "remove" /\ change.left # {}}

MCSent ==
  {change \in Change :
     /\ Cardinality(Parts(change)) <= 2
     /\ ~change.reshards => change.shards = {}}

\* Consumers and endpoints are told apart by nothing but their names.
MCSymmetry == Permutations(Consumer) \union Permutations(Endpoint)
=============================================================================
